--------------------------- MODULE DocumentsProofs ---------------------------
(* Proofs about Json and Documents, for every value of the constants.         *)
EXTENDS Documents, WellFoundedInduction, SequenceTheorems, FiniteSetTheorems, TLAPS

----------------------------------------------------------------------------
(* The order of strings *)

\* A string precedes another where they first differ, or as a beginning of it.
LEMMA BeforeDef ==
  ASSUME NEW s \in Seq(Int), NEW t \in Seq(Int)
  PROVE  Before(s, t) <=>
           \/ Len(s) < Len(t) /\ \A j \in 1..Len(s) : s[j] = t[j]
           \/ \E i \in 1..Len(s) : i <= Len(t) /\ s[i] < t[i] /\ \A j \in 1..(i - 1) : s[j] = t[j]
  <1>1. ASSUME Len(s) < Len(t)
        PROVE  s = SubSeq(t, 1, Len(s)) <=> \A j \in 1..Len(s) : s[j] = t[j]
    <2>1. SubSeq(t, 1, Len(s)) = [j \in 1..Len(s) |-> t[j]]
      BY <1>1, LenProperties
    <2>2. s = [j \in 1..Len(s) |-> s[j]]
      BY LenProperties
    <2> QED
      BY <2>1, <2>2
  <1>2. DOMAIN s \cap DOMAIN t = {i \in 1..Len(s) : i <= Len(t)}
    BY LenProperties
  <1> QED
    BY <1>1, <1>2 DEF Before

\* What lies below a member of a range is in the range.
LEMMA RangeBelow ==
  ASSUME NEW i \in Int, NEW k \in Int, i <= k
  PROVE  \A j \in 1..(i - 1) : j \in 1..k /\ j \in 1..(k - 1) /\ j < i
  OBVIOUS

\* Two strings that differ and have no beginning in common to the end of one
\* differ first somewhere.
LEMMA FirstDifference ==
  ASSUME NEW s \in Seq(Int), NEW t \in Seq(Int),
         NEW k \in Nat, k >= 1, k <= Len(s), k <= Len(t), s[k] # t[k]
  PROVE  \E i \in 1..k : s[i] # t[i] /\ \A j \in 1..(i - 1) : s[j] = t[j]
  <1> DEFINE T == {i \in 1..k : s[i] # t[i]}
  <1>1. T \subseteq Nat /\ T # {}
    OBVIOUS
  <1> DEFINE R == {p \in Nat \X Nat : p[1] < p[2]}
  <1>2. IsWellFoundedOn(R, Nat)
    BY NatLessThanWellFounded DEF OpToRel
  <1>3. \E i \in T : \A j \in T : <<j, i>> \notin R
    <2> HIDE DEF T, R
    <2> QED
      BY <1>1, <1>2, WFMin
  <1>4. PICK i \in T : \A j \in T : ~(j < i)
    BY <1>1, <1>3
  <1>5. i \in 1..k /\ s[i] # t[i]
    OBVIOUS
  <1>6. \A j \in 1..k : j < i => s[j] = t[j]
    BY <1>4
  <1>7. i \in Int /\ k \in Int /\ i <= k
    BY <1>5
  <1>8. \A j \in 1..(i - 1) : j \in 1..k /\ j < i
    BY <1>7, RangeBelow
  <1> QED
    BY <1>5, <1>6, <1>8

LEMMA BeforeTotal ==
  ASSUME NEW s \in Seq(Int), NEW t \in Seq(Int), s # t
  PROVE  Before(s, t) \/ Before(t, s)
  <1>1. CASE \E k \in 1..Len(s) : k <= Len(t) /\ s[k] # t[k]
    <2>1. PICK k \in 1..Len(s) : k <= Len(t) /\ s[k] # t[k]
      BY <1>1
    <2>2. Len(s) \in Nat /\ Len(t) \in Nat /\ k \in Nat
      BY LenProperties
    <2> k \in Nat /\ k >= 1 /\ k <= Len(s) /\ k <= Len(t) /\ s[k] # t[k]
      BY <2>1, <2>2
    <2>3. PICK i \in 1..k : s[i] # t[i] /\ \A j \in 1..(i - 1) : s[j] = t[j]
      BY FirstDifference
    <2>4. s[i] \in Int /\ t[i] \in Int
      BY <2>1, <2>2, <2>3, ElementOfSeq
    <2>5. i \in 1..Len(s) /\ i \in 1..Len(t) /\ i <= Len(s) /\ i <= Len(t)
      BY <2>1, <2>2, <2>3
    <2>6. CASE s[i] < t[i]
      BY <2>3, <2>5, <2>6, BeforeDef
    <2>7. CASE t[i] < s[i]
      BY <2>3, <2>5, <2>7, BeforeDef
    <2> QED
      BY <2>3, <2>4, <2>6, <2>7
  <1>2. CASE \A k \in 1..Len(s) : k <= Len(t) => s[k] = t[k]
    <2>1. Len(s) \in Nat /\ Len(t) \in Nat
      BY LenProperties
    <2>2. CASE Len(s) = Len(t)
      BY <1>2, <2>1, <2>2, SeqEqual
    <2>3. CASE Len(s) < Len(t)
      BY <1>2, <2>1, <2>3, BeforeDef
    <2>4. CASE Len(t) < Len(s)
      BY <1>2, <2>1, <2>4, BeforeDef
    <2> QED
      BY <2>1, <2>2, <2>3, <2>4
  <1> QED
    BY <1>1, <1>2

LEMMA BeforeAsymmetric ==
  ASSUME NEW s \in Seq(Int), NEW t \in Seq(Int), Before(s, t)
  PROVE  ~Before(t, s) /\ s # t
  <1>1. Len(s) \in Nat /\ Len(t) \in Nat
    BY LenProperties
  <1>2. \A i \in 1..Len(s) : s[i] \in Int
    BY ElementOfSeq
  <1>3. \A i \in 1..Len(t) : t[i] \in Int
    BY ElementOfSeq
  <1>4. CASE Len(s) < Len(t) /\ \A j \in 1..Len(s) : s[j] = t[j]
    BY <1>1, <1>2, <1>3, <1>4, BeforeDef
  <1>5. CASE \E i \in 1..Len(s) : i <= Len(t) /\ s[i] < t[i] /\ \A j \in 1..(i - 1) : s[j] = t[j]
    <2>1. PICK i \in 1..Len(s) : i <= Len(t) /\ s[i] < t[i] /\ \A j \in 1..(i - 1) : s[j] = t[j]
      BY <1>5
    <2>2. ASSUME NEW k \in 1..Len(t), k <= Len(s), t[k] < s[k],
                 \A j \in 1..(k - 1) : t[j] = s[j]
          PROVE  FALSE
      <3>1. i \in Int /\ k \in Int /\ i \in 1..Len(t) /\ k \in 1..Len(s)
        BY <1>1, <2>1, <2>2
      <3>2. s[i] \in Int /\ t[i] \in Int /\ s[k] \in Int /\ t[k] \in Int
        BY <1>2, <1>3, <2>1, <2>2, <3>1
      <3>3. CASE i < k
        <4>1. i \in 1..(k - 1)
          BY <3>1, <3>3
        <4> QED
          BY <2>1, <2>2, <3>2, <4>1
      <3>4. CASE k < i
        <4>1. k \in 1..(i - 1)
          BY <3>1, <3>4
        <4> QED
          BY <2>1, <2>2, <3>2, <4>1
      <3>5. CASE i = k
        BY <2>1, <2>2, <3>2, <3>5
      <3> QED
        BY <3>1, <3>3, <3>4, <3>5
    <2>3. ~(Len(t) < Len(s) /\ \A j \in 1..Len(t) : s[j] = t[j])
      <3>1. SUFFICES ASSUME \A j \in 1..Len(t) : s[j] = t[j] PROVE FALSE
        OBVIOUS
      <3>2. i \in 1..Len(t) /\ s[i] \in Int
        BY <1>1, <1>2, <2>1
      <3> QED
        BY <2>1, <3>1, <3>2
    <2>4. s # t
      BY <1>1, <1>2, <2>1
    <2> QED
      BY <1>1, <1>2, <1>3, <2>2, <2>3, <2>4, BeforeDef
  <1> QED
    BY <1>4, <1>5, BeforeDef

LEMMA BeforeTransitive ==
  ASSUME NEW s \in Seq(Int), NEW t \in Seq(Int), NEW u \in Seq(Int),
         Before(s, t), Before(t, u)
  PROVE  Before(s, u)
  <1>1. Len(s) \in Nat /\ Len(t) \in Nat /\ Len(u) \in Nat
    BY LenProperties
  <1>2. /\ \A i \in 1..Len(s) : s[i] \in Int
        /\ \A i \in 1..Len(t) : t[i] \in Int
        /\ \A i \in 1..Len(u) : u[i] \in Int
    BY ElementOfSeq
  <1>3. CASE Len(s) < Len(t) /\ \A j \in 1..Len(s) : s[j] = t[j]
    <2>1. CASE Len(t) < Len(u) /\ \A j \in 1..Len(t) : t[j] = u[j]
      <3>1. Len(s) < Len(u) /\ \A j \in 1..Len(s) : s[j] = u[j]
        BY <1>1, <1>3, <2>1
      <3> QED
        BY <3>1, BeforeDef
    <2>2. CASE \E i \in 1..Len(t) : i <= Len(u) /\ t[i] < u[i] /\ \A j \in 1..(i - 1) : t[j] = u[j]
      <3>1. PICK i \in 1..Len(t) : i <= Len(u) /\ t[i] < u[i] /\ \A j \in 1..(i - 1) : t[j] = u[j]
        BY <2>2
      <3>2. CASE i <= Len(s)
        BY <1>1, <1>2, <1>3, <3>1, <3>2, BeforeDef
      <3>3. CASE Len(s) < i
        <4>1. Len(s) < Len(u) /\ \A j \in 1..Len(s) : s[j] = u[j]
          BY <1>1, <1>3, <3>1, <3>3
        <4> QED
          BY <4>1, BeforeDef
      <3> QED
        BY <1>1, <3>2, <3>3
    <2> QED
      BY <2>1, <2>2, BeforeDef
  <1>4. CASE \E i \in 1..Len(s) : i <= Len(t) /\ s[i] < t[i] /\ \A j \in 1..(i - 1) : s[j] = t[j]
    <2>1. PICK i \in 1..Len(s) : i <= Len(t) /\ s[i] < t[i] /\ \A j \in 1..(i - 1) : s[j] = t[j]
      BY <1>4
    <2>2. CASE Len(t) < Len(u) /\ \A j \in 1..Len(t) : t[j] = u[j]
      <3>1. i <= Len(u) /\ s[i] < u[i] /\ \A j \in 1..(i - 1) : s[j] = u[j]
        BY <1>1, <2>1, <2>2
      <3> QED
        BY <2>1, <3>1, BeforeDef
    <2>3. CASE \E k \in 1..Len(t) : k <= Len(u) /\ t[k] < u[k] /\ \A j \in 1..(k - 1) : t[j] = u[j]
      <3>1. PICK k \in 1..Len(t) : k <= Len(u) /\ t[k] < u[k] /\ \A j \in 1..(k - 1) : t[j] = u[j]
        BY <2>3
      <3>2. i \in Int /\ i >= 1 /\ i <= Len(s) /\ k \in Int /\ k >= 1 /\ k <= Len(u)
        BY <1>1, <2>1, <3>1
      <3>3. CASE i < k
        <4>1. i \in 1..(k - 1) /\ i <= Len(u)
          BY <1>1, <3>3, <3>2
        <4>2. s[i] < u[i]
          BY <2>1, <3>1, <4>1
        <4>3. \A j \in 1..(i - 1) : j \in 1..(k - 1)
          BY <3>3, <3>2, RangeBelow
        <4>4. \A j \in 1..(i - 1) : s[j] = u[j]
          BY <2>1, <3>1, <4>3
        <4> QED
          BY <2>1, <4>1, <4>2, <4>4, BeforeDef
      <3>4. CASE k <= i
        <4>1. k \in 1..Len(s)
          BY <1>1, <2>1, <3>4, <3>2
        <4>2. \A j \in 1..(k - 1) : j \in 1..(i - 1)
          BY <3>4, <3>2, RangeBelow
        <4>3. \A j \in 1..(k - 1) : s[j] = u[j]
          BY <2>1, <3>1, <4>2
        <4>4. s[k] < t[k] \/ s[k] = t[k]
          <5>1. CASE k = i
            BY <2>1, <5>1
          <5>2. CASE k < i
            <6>1. k \in 1..(i - 1)
              BY <3>2, <5>2
            <6> QED
              BY <2>1, <6>1
          <5> QED
            BY <3>4, <3>2, <5>1, <5>2
        <4>5. s[k] < u[k]
          BY <1>2, <3>1, <4>1, <4>4
        <4> QED
          BY <3>1, <4>1, <4>3, <4>5, BeforeDef
      <3> QED
        BY <1>1, <3>3, <3>4
    <2> QED
      BY <2>2, <2>3, BeforeDef
  <1> QED
    BY <1>3, <1>4, BeforeDef

----------------------------------------------------------------------------
(* The order of values *)

\* A value as it can be compared: its weight is a string.  Scalars are so by
\* their type; of compound values it is the one thing taken from their text.
Comparable(v) == v.kind \in Kinds /\ Weight(v) \in Seq(Int)

LEMMA RankIsInt ==
  ASSUME NEW v, v.kind \in Kinds
  PROVE  rankOf(v) \in Int
  BY DEF rankOf, Kinds

LEMMA ScalarsComparable ==
  ASSUME NEW n \in Int, NEW s \in Seq(Int), NEW b \in BOOLEAN
  PROVE  Comparable(Null) /\ Comparable(Bool(b)) /\ Comparable(Number(n)) /\ Comparable(String(s))
  <1>1. /\ Null.kind = "null" /\ Bool(b).kind = "boolean"
        /\ Number(n).kind = "number" /\ String(s).kind = "string"
    BY DEF Null, Bool, Number, String
  <1>2. Weight(Null) = <<>>
    BY <1>1 DEF Weight
  <1>3. Weight(Bool(b)) \in {<<0>>, <<1>>}
    BY <1>1 DEF Weight
  <1>4. Weight(Number(n)) = <<n>>
    BY <1>1 DEF Weight, Number
  <1>5. Weight(String(s)) = s
    BY <1>1 DEF Weight, String
  <1>6. <<>> \in Seq(Int) /\ <<0>> \in Seq(Int) /\ <<1>> \in Seq(Int) /\ <<n>> \in Seq(Int)
    OBVIOUS
  <1> QED
    BY <1>1, <1>2, <1>3, <1>4, <1>5, <1>6 DEF Comparable, Kinds

\* What compareValues says, as a relation: b does not come before a.
LEMMA CompareSigns ==
  ASSUME NEW a, NEW b, Comparable(a), Comparable(b)
  PROVE  /\ compareValues(a, b) \in {-1, 0, 1}
         /\ compareValues(a, b) = 0 <=> rankOf(a) = rankOf(b) /\ Weight(a) = Weight(b)
         /\ compareValues(a, b) = -1 <=> \/ rankOf(a) < rankOf(b)
                                         \/ rankOf(a) = rankOf(b) /\ Before(Weight(a), Weight(b))
  <1>1. rankOf(a) \in Int /\ rankOf(b) \in Int
    BY RankIsInt DEF Comparable
  <1>2. Before(Weight(a), Weight(b)) => Weight(a) # Weight(b)
    BY BeforeAsymmetric DEF Comparable
  <1> QED
    BY <1>1, <1>2 DEF compareValues, Sign

\* compareValues is a total order of values: turned round it says the
\* opposite, and it is transitive, also where it finds values equal.  So what
\* query hands to std::stable_sort is a strict weak ordering, without which
\* the sort is undefined (store.cpp, compareValues and query).
THEOREM CompareIsAnOrder ==
  ASSUME NEW a, NEW b, NEW c, Comparable(a), Comparable(b), Comparable(c)
  PROVE  /\ compareValues(b, a) = -compareValues(a, b)
         /\ compareValues(a, b) <= 0 /\ compareValues(b, c) <= 0 => compareValues(a, c) <= 0
         /\ compareValues(a, b) = 0 /\ compareValues(b, c) = 0 => compareValues(a, c) = 0
         /\ compareValues(a, b) < 0 /\ compareValues(b, c) < 0 => compareValues(a, c) < 0
  <1>1. rankOf(a) \in Int /\ rankOf(b) \in Int /\ rankOf(c) \in Int
    BY RankIsInt DEF Comparable
  <1>2. compareValues(b, a) = -compareValues(a, b)
    <2>1. Before(Weight(a), Weight(b)) => ~Before(Weight(b), Weight(a))
      BY BeforeAsymmetric DEF Comparable
    <2>2. Weight(a) # Weight(b) => Before(Weight(a), Weight(b)) \/ Before(Weight(b), Weight(a))
      BY BeforeTotal DEF Comparable
    <2> QED
      BY <1>1, <2>1, <2>2 DEF compareValues, Sign
  <1>3. Before(Weight(a), Weight(b)) /\ Before(Weight(b), Weight(c)) => Before(Weight(a), Weight(c))
    BY BeforeTransitive DEF Comparable
  <1>4. /\ compareValues(a, b) \in {-1, 0, 1}
        /\ compareValues(b, c) \in {-1, 0, 1}
        /\ compareValues(a, c) \in {-1, 0, 1}
    BY CompareSigns
  <1>5. compareValues(a, b) = 0 /\ compareValues(b, c) = 0 => compareValues(a, c) = 0
    BY CompareSigns
  <1>6. compareValues(a, b) = -1 /\ compareValues(b, c) \in {-1, 0} => compareValues(a, c) = -1
    BY <1>1, <1>3, CompareSigns
  <1>7. compareValues(a, b) = 0 /\ compareValues(b, c) = -1 => compareValues(a, c) = -1
    BY <1>1, CompareSigns
  <1> QED
    BY <1>2, <1>4, <1>5, <1>6, <1>7

\* Of any two values exactly one of lt, eq and gt holds, and the other three
\* operators are their complements (store.cpp, matchesCondition).
THEOREM ConditionsAreComplementary ==
  ASSUME NEW a, NEW b, Comparable(a), Comparable(b)
  PROVE  /\ matchesCondition(a, "eq", b) <=> ~matchesCondition(a, "ne", b)
         /\ matchesCondition(a, "lt", b) <=> ~matchesCondition(a, "gte", b)
         /\ matchesCondition(a, "gt", b) <=> ~matchesCondition(a, "lte", b)
         /\ matchesCondition(a, "lt", b) <=> matchesCondition(b, "gt", a)
         /\ matchesCondition(a, "eq", b) <=> ~matchesCondition(a, "lt", b) /\ ~matchesCondition(a, "gt", b)
  <1>1. compareValues(a, b) \in {-1, 0, 1} /\ compareValues(b, a) = -compareValues(a, b)
    BY CompareSigns, CompareIsAnOrder
  <1> QED
    BY <1>1 DEF matchesCondition

----------------------------------------------------------------------------
(* Sequences of anything *)

Sequence(s) == \E S : s \in Seq(S)

LEMMA EmptyBounded ==
  ASSUME NEW levels \in Nat
  PROVE  Sequence(<<>>) /\ Len(<<>>) <= levels
  <1>1. <<>> \in Seq({})
    OBVIOUS
  <1> QED
    BY <1>1 DEF Sequence

----------------------------------------------------------------------------
(* Folds *)

\* Induction on the naturals that are in a set.
LEMMA SetInduction ==
  ASSUME NEW T, 0 \in T, \A k \in Nat : k \in T => k + 1 \in T
  PROVE  \A k \in Nat : k \in T
  <1> DEFINE U == {k \in Nat : k \notin T}
             R == OpToRel(<, Nat)
  <1>1. SUFFICES ASSUME U # {} PROVE FALSE
    OBVIOUS
  <1>2. U \subseteq Nat
    OBVIOUS
  <1>3. \E i \in U : \A j \in U : <<j, i>> \notin R
    <2> HIDE DEF U, R
    <2>1. IsWellFoundedOn(R, Nat)
      BY NatLessThanWellFounded DEF R
    <2> QED
      BY <1>1, <1>2, <2>1, WFMin
  <1>4. PICK i \in U : \A j \in U : ~(j < i)
    BY <1>3 DEF OpToRel
  <1>5. i \in Nat /\ i # 0 /\ i \notin T
    OBVIOUS
  <1>6. i - 1 \in Nat /\ i - 1 < i
    BY <1>5
  <1>7. i - 1 \notin U
    BY <1>4, <1>6
  <1>8. i - 1 \in T
    BY <1>6, <1>7
  <1>9. (i - 1) + 1 \in T
    BY <1>6, <1>8
  <1> QED
    BY <1>5, <1>9

Inserted(sorted, r, precedes) ==
  InsertAt(sorted, 1 + Cardinality({i \in DOMAIN sorted : <<r, sorted[i]>> \notin precedes}), r)

\* Ordered by clauses that are the other way round.
Sorted(all, clauses, by) == FoldLeft(LAMBDA sorted, c : StableSort(sorted, by[c]), all, clauses)

Narrowed(left, c, meets) ==
  IF left.refused THEN left
  ELSE IF c.op \notin Operators THEN [left EXCEPT !.refused = left.rows # <<>>]
  ELSE [left EXCEPT !.rows = Kept(@, meets[c])]

\* What one element does to the result of each of the folds.
Folded(kind, sofar, e, by) ==
  CASE kind = "sort"   -> Inserted(sofar, e, by)
    [] kind = "text"   -> Joined(sofar, e)
    [] kind = "keep"   -> IF e \in by THEN Append(sofar, e) ELSE sofar
    [] kind = "filter" -> Narrowed(sofar, e, by)
    [] kind = "order"  -> StableSort(sofar, by[e])
    [] kind = "read"   -> Consume(sofar, e, by)

FoldStep(f, s, list, kind, base, by) ==
  IF s = {} THEN base ELSE Folded(kind, f[s \ {Max(s)}], list[Max(s)], by)

FoldsAs(f, D, list, kind, base, by) == f = [s \in D |-> FoldStep(f, s, list, kind, base, by)]

Small(n, k) == {s \in SUBSET (1..n) : Cardinality(s) <= k}

\* A nonempty set of naturals that has a bound has a greatest member.
LEMMA MaxOf ==
  ASSUME NEW n \in Nat, NEW s \in SUBSET (1..n), s # {}
  PROVE  Max(s) \in s /\ \A y \in s : y <= Max(s)
  <1> DEFINE U == {k \in Nat : \E y \in s : y = n - k}
             R == OpToRel(<, Nat)
  <1>1. U \subseteq Nat /\ U # {}
    <2>1. PICK y \in s : TRUE
      OBVIOUS
    <2>2. n - y \in Nat /\ y = n - (n - y)
      OBVIOUS
    <2>3. n - y \in U
      BY <2>2
    <2> QED
      BY <2>3
  <1>3. \E i \in U : \A j \in U : <<j, i>> \notin R
    <2> HIDE DEF U, R
    <2>1. IsWellFoundedOn(R, Nat)
      BY NatLessThanWellFounded DEF R
    <2> QED
      BY <1>1, <2>1, WFMin
  <1>4. PICK i \in U : \A j \in U : ~(j < i)
    BY <1>3 DEF OpToRel
  <1>5. n - i \in s
    BY <1>4
  <1>6. \A y \in s : y <= n - i
    <2> TAKE y \in s
    <2>1. n - y \in Nat /\ n - y \in U
      OBVIOUS
    <2>2. ~(n - y < i)
      BY <1>4, <2>1
    <2> QED
      BY <1>4, <2>1, <2>2
  <1>7. \E x \in s : \A y \in s : x >= y
    BY <1>5, <1>6
  <1>8. Max(s) \in s /\ \A y \in s : Max(s) >= y
    BY <1>7, Zenon DEF Max
  <1> QED
    BY <1>8

LEMMA SubsetOfRange ==
  ASSUME NEW n \in Nat, NEW s \in SUBSET (1..n)
  PROVE  /\ IsFiniteSet(s)
         /\ Cardinality(s) \in Nat /\ Cardinality(s) <= n
         /\ Cardinality(s) = 0 => s = {}
  <1>1. IsFiniteSet(1..n) /\ Cardinality(1..n) = n
    <2>1. 1 \in Int /\ n \in Int /\ (1 > n => n = 0)
      OBVIOUS
    <2> QED
      BY <2>1, FS_Interval
  <1>2. IsFiniteSet(s) /\ Cardinality(s) <= n
    BY <1>1, FS_Subset
  <1>3. Cardinality(s) \in Nat
    BY <1>2, FS_CardinalityType
  <1> QED
    BY <1>2, <1>3, FS_EmptySet

LEMMA SmallerBelow ==
  ASSUME NEW n \in Nat, NEW k \in Nat, NEW s \in Small(n, k + 1), s # {}
  PROVE  s \ {Max(s)} \in Small(n, k)
  <1>1. s \in SUBSET (1..n) /\ Cardinality(s) <= k + 1
    BY DEF Small
  <1>2. IsFiniteSet(s) /\ Max(s) \in s
    BY <1>1, MaxOf, SubsetOfRange
  <1>3. Cardinality(s \ {Max(s)}) = Cardinality(s) - 1 /\ Cardinality(s) \in Nat
    BY <1>2, FS_RemoveElement, FS_CardinalityType
  <1>4. Cardinality(s \ {Max(s)}) <= k
    BY <1>1, <1>3
  <1> QED
    BY <1>1, <1>4 DEF Small

\* A fold that is defined by recursion on what is left to take exists.
LEMMA FoldExists ==
  ASSUME NEW S, NEW list \in Seq(S), NEW kind, NEW base, NEW by
  PROVE  \E f : FoldsAs(f, SUBSET DOMAIN list, list, kind, base, by)
  <1> DEFINE n == Len(list)
             T == {k \in Nat : \E f : FoldsAs(f, Small(n, k), list, kind, base, by)}
  <1>0. n \in Nat /\ DOMAIN list = 1..n
    BY LenProperties
  <1>1. 0 \in T
    <2>1. \A s \in Small(n, 0) : s = {}
      <3> TAKE s \in Small(n, 0)
      <3>1. s \in SUBSET (1..n) /\ Cardinality(s) <= 0
        BY DEF Small
      <3>2. Cardinality(s) \in Nat /\ (Cardinality(s) = 0 => s = {})
        BY <1>0, <3>1, SubsetOfRange
      <3> QED
        BY <3>1, <3>2
    <2>2. FoldsAs([s \in Small(n, 0) |-> base], Small(n, 0), list, kind, base, by)
      BY <2>1, Zenon DEF FoldsAs, FoldStep
    <2> QED
      BY <2>2, Zenon
  <1>2. ASSUME NEW k \in Nat, k \in T PROVE k + 1 \in T
    <2>1. PICK g : FoldsAs(g, Small(n, k), list, kind, base, by)
      BY <1>2
    <2> DEFINE f == [s \in Small(n, k + 1) |-> FoldStep(g, s, list, kind, base, by)]
    <2>2. ASSUME NEW s \in Small(n, k + 1)
          PROVE  FoldStep(f, s, list, kind, base, by) = FoldStep(g, s, list, kind, base, by)
      <3>1. CASE s = {}
        BY <3>1, Zenon DEF FoldStep
      <3>2. CASE s # {}
        <4> DEFINE r == s \ {Max(s)}
        <4>1. r \in Small(n, k)
          BY <1>0, <3>2, SmallerBelow
        <4>2. r \in Small(n, k + 1)
          <5>1. r \in SUBSET (1..n) /\ Cardinality(r) <= k
            BY <4>1 DEF Small
          <5>2. Cardinality(r) \in Nat
            BY <1>0, <5>1, SubsetOfRange
          <5> QED
            BY <5>1, <5>2 DEF Small
        <4> HIDE DEF r
        <4>3. f[r] = FoldStep(g, r, list, kind, base, by)
          BY <4>2
        <4>4. g[r] = FoldStep(g, r, list, kind, base, by)
          BY <2>1, <4>1, Zenon DEF FoldsAs
        <4>5. f[r] = g[r]
          BY <4>3, <4>4
        <4> HIDE DEF f
        <4> QED
          BY <3>2, <4>5, Zenon DEF FoldStep, r
      <3> QED
        BY <3>1, <3>2
    <2>3. FoldsAs(f, Small(n, k + 1), list, kind, base, by)
      BY <2>2, Zenon DEF FoldsAs
    <2> HIDE DEF f
    <2>4. \E h : FoldsAs(h, Small(n, k + 1), list, kind, base, by)
      BY <2>3, Zenon
    <2> QED
      BY <2>4
  <1>3. n \in T
    <2> HIDE DEF T
    <2> QED
      BY <1>0, <1>1, <1>2, SetInduction
  <1>4. Small(n, n) = SUBSET (1..n)
    <2>1. \A s \in SUBSET (1..n) : Cardinality(s) <= n
      BY <1>0, SubsetOfRange
    <2> QED
      BY <2>1 DEF Small
  <1>5. \E f : FoldsAs(f, Small(n, n), list, kind, base, by)
    BY <1>3
  <1> HIDE DEF n
  <1> QED
    BY <1>0, <1>4, <1>5

Runs(g, last, list, kind, base, by) ==
  /\ g[0] = base
  /\ \A k \in 0..(Len(list) - 1) : g[k + 1] = Folded(kind, g[k], list[k + 1], by)
  /\ last = g[Len(list)]

\* A fold takes the elements from the first to the last.
LEMMA FoldRuns ==
  ASSUME NEW S, NEW list \in Seq(S), NEW kind, NEW base, NEW by, NEW f,
         FoldsAs(f, SUBSET DOMAIN list, list, kind, base, by)
  PROVE  \E g : Runs(g, f[DOMAIN list], list, kind, base, by)
  <1> DEFINE n == Len(list)
             g == [k \in 0..n |-> f[1..k]]
  <1>0. n \in Nat /\ DOMAIN list = 1..n
    BY LenProperties
  <1>3. ASSUME NEW s \in SUBSET (1..n) PROVE f[s] = FoldStep(f, s, list, kind, base, by)
    BY <1>0, <1>3, Zenon DEF FoldsAs
  <1>4. f[1..0] = base
    <2>1. 1..0 = {} /\ {} \in SUBSET (1..n)
      OBVIOUS
    <2> QED
      BY <1>3, <2>1, Zenon DEF FoldStep
  <1>5. ASSUME NEW k \in 0..(n - 1) PROVE f[1..(k + 1)] = Folded(kind, f[1..k], list[k + 1], by)
    <2> DEFINE s == 1..(k + 1)
    <2>1. s \in SUBSET (1..n) /\ s # {} /\ k + 1 \in s
      <3>1. k + 1 \in s
        OBVIOUS
      <3>2. \A j \in s : j \in 1..n
        BY <1>0
      <3> HIDE DEF s
      <3> QED
        BY <3>1, <3>2
    <2>2. Max(s) = k + 1
      <3>1. Max(s) \in s /\ \A y \in s : y <= Max(s)
        <4> HIDE DEF s
        <4> QED
          BY <1>0, <2>1, MaxOf
      <3>2. k + 1 <= Max(s) /\ Max(s) \in Int
        BY <2>1, <3>1
      <3> QED
        BY <3>1, <3>2
    <2>3. s \ {k + 1} = 1..k
      OBVIOUS
    <2>4. f[s] = FoldStep(f, s, list, kind, base, by)
      BY <1>3, <2>1
    <2>5. FoldStep(f, s, list, kind, base, by) = Folded(kind, f[1..k], list[k + 1], by)
      <3> HIDE DEF s
      <3> QED
        BY <2>1, <2>2, <2>3, Zenon DEF FoldStep
    <2> QED
      BY <2>4, <2>5
  <1>6. g[0] = base
    BY <1>0, <1>4
  <1>7. ASSUME NEW k \in 0..(n - 1) PROVE g[k + 1] = Folded(kind, g[k], list[k + 1], by)
    <2>1. k \in 0..n /\ k + 1 \in 0..n
      BY <1>0
    <2>2. g[k] = f[1..k] /\ g[k + 1] = f[1..(k + 1)]
      BY <2>1
    <2> QED
      BY <1>5, <2>2
  <1>8. g[n] = f[1..n]
    BY <1>0
  <1> HIDE DEF g
  <1>9. f[DOMAIN list] = g[n]
    BY <1>0, <1>8
  <1>10. Runs(g, f[DOMAIN list], list, kind, base, by)
    BY <1>6, <1>7, <1>9 DEF Runs
  <1> QED
    BY <1>10

\* The folds of the model, an element at a time.
LEMMA SortSteps ==
  ASSUME NEW S, NEW list \in Seq(S), NEW by
  PROVE  \E g : /\ g[0] = <<>>
                /\ \A k \in 0..(Len(list) - 1) : g[k + 1] = Inserted(g[k], list[k + 1], by)
                /\ StableSort(list, by) = g[Len(list)]
  <1> DEFINE Is(f) == f = [s \in SUBSET DOMAIN list |->
                             IF s = {} THEN <<>> ELSE Inserted(f[s \ {Max(s)}], list[Max(s)], by)]
             h == CHOOSE f : Is(f)
  <1>1. StableSort(list, by) = h[DOMAIN list]
    BY DEF StableSort, FoldLeft, MapThenFoldSet, Inserted
  <1>2. ASSUME NEW f PROVE Is(f) <=> FoldsAs(f, SUBSET DOMAIN list, list, "sort", <<>>, by)
    BY Zenon DEF FoldsAs, FoldStep, Folded
  <1>3. \E f : Is(f)
    <2> HIDE DEF Is
    <2> QED
      BY <1>2, FoldExists
  <1>4. Is(h)
    BY <1>3, Zenon
  <1> HIDE DEF Is, h
  <1>5. FoldsAs(h, SUBSET DOMAIN list, list, "sort", <<>>, by)
    BY <1>2, <1>4
  <1>6. PICK g : Runs(g, h[DOMAIN list], list, "sort", <<>>, by)
    BY <1>5, FoldRuns
  <1>7. \A k \in 0..(Len(list) - 1) : g[k + 1] = Inserted(g[k], list[k + 1], by)
    BY <1>6, Zenon DEF Folded, Runs
  <1>8. g[0] = <<>> /\ h[DOMAIN list] = g[Len(list)]
    BY <1>6 DEF Runs
  <1> QED
    BY <1>1, <1>7, <1>8, Zenon

LEMMA TextSteps ==
  ASSUME NEW S, NEW list \in Seq(S)
  PROVE  \E g : /\ g[0] = <<>>
                /\ \A k \in 0..(Len(list) - 1) : g[k + 1] = Joined(g[k], list[k + 1])
                /\ Separated(list) = g[Len(list)]
  <1> DEFINE Is(f) == f = [s \in SUBSET DOMAIN list |->
                             IF s = {} THEN <<>> ELSE Joined(f[s \ {Max(s)}], list[Max(s)])]
             h == CHOOSE f : Is(f)
  <1>1. Separated(list) = h[DOMAIN list]
    BY DEF Separated, FoldLeft, MapThenFoldSet
  <1>2. ASSUME NEW f PROVE Is(f) <=> FoldsAs(f, SUBSET DOMAIN list, list, "text", <<>>, 0)
    BY Zenon DEF FoldsAs, FoldStep, Folded
  <1>3. \E f : Is(f)
    <2> HIDE DEF Is
    <2> QED
      BY <1>2, FoldExists
  <1>4. Is(h)
    BY <1>3, Zenon
  <1> HIDE DEF Is, h
  <1>5. FoldsAs(h, SUBSET DOMAIN list, list, "text", <<>>, 0)
    BY <1>2, <1>4
  <1>6. PICK g : Runs(g, h[DOMAIN list], list, "text", <<>>, 0)
    BY <1>5, FoldRuns
  <1>7. \A k \in 0..(Len(list) - 1) : g[k + 1] = Joined(g[k], list[k + 1])
    BY <1>6, Zenon DEF Folded, Runs
  <1>8. g[0] = <<>> /\ h[DOMAIN list] = g[Len(list)]
    BY <1>6 DEF Runs
  <1> QED
    BY <1>1, <1>7, <1>8, Zenon

LEMMA KeepSteps ==
  ASSUME NEW S, NEW list \in Seq(S), NEW by
  PROVE  \E g : /\ g[0] = <<>>
                /\ \A k \in 0..(Len(list) - 1) : g[k + 1] = (IF list[k + 1] \in by THEN Append(g[k], list[k + 1]) ELSE g[k])
                /\ Kept(list, by) = g[Len(list)]
  <1> DEFINE Is(f) == f = [s \in SUBSET DOMAIN list |->
                             IF s = {} THEN <<>> ELSE (IF list[Max(s)] \in by THEN Append(f[s \ {Max(s)}], list[Max(s)]) ELSE f[s \ {Max(s)}])]
             h == CHOOSE f : Is(f)
  <1>1. Kept(list, by) = h[DOMAIN list]
    BY DEF Kept, FoldLeft, MapThenFoldSet
  <1>2. ASSUME NEW f PROVE Is(f) <=> FoldsAs(f, SUBSET DOMAIN list, list, "keep", <<>>, by)
    BY Zenon DEF FoldsAs, FoldStep, Folded
  <1>3. \E f : Is(f)
    <2> HIDE DEF Is
    <2> QED
      BY <1>2, FoldExists
  <1>4. Is(h)
    BY <1>3, Zenon
  <1> HIDE DEF Is, h
  <1>5. FoldsAs(h, SUBSET DOMAIN list, list, "keep", <<>>, by)
    BY <1>2, <1>4
  <1>6. PICK g : Runs(g, h[DOMAIN list], list, "keep", <<>>, by)
    BY <1>5, FoldRuns
  <1>7. \A k \in 0..(Len(list) - 1) : g[k + 1] = (IF list[k + 1] \in by THEN Append(g[k], list[k + 1]) ELSE g[k])
    BY <1>6, Zenon DEF Folded, Runs
  <1>8. g[0] = <<>> /\ h[DOMAIN list] = g[Len(list)]
    BY <1>6 DEF Runs
  <1> QED
    BY <1>1, <1>7, <1>8, Zenon

LEMMA FilterSteps ==
  ASSUME NEW S, NEW list \in Seq(S), NEW by, NEW all
  PROVE  \E g : /\ g[0] = [rows |-> all, refused |-> FALSE]
                /\ \A k \in 0..(Len(list) - 1) : g[k + 1] = Narrowed(g[k], list[k + 1], by)
                /\ Filtered(all, list, by) = g[Len(list)]
  <1> DEFINE Is(f) == f = [s \in SUBSET DOMAIN list |->
                             IF s = {} THEN [rows |-> all, refused |-> FALSE] ELSE Narrowed(f[s \ {Max(s)}], list[Max(s)], by)]
             h == CHOOSE f : Is(f)
  <1>1. Filtered(all, list, by) = h[DOMAIN list]
    BY DEF Filtered, FoldLeft, MapThenFoldSet, Narrowed
  <1>2. ASSUME NEW f PROVE Is(f) <=> FoldsAs(f, SUBSET DOMAIN list, list, "filter", [rows |-> all, refused |-> FALSE], by)
    BY Zenon DEF FoldsAs, FoldStep, Folded
  <1>3. \E f : Is(f)
    <2> HIDE DEF Is
    <2> QED
      BY <1>2, FoldExists
  <1>4. Is(h)
    BY <1>3, Zenon
  <1> HIDE DEF Is, h
  <1>5. FoldsAs(h, SUBSET DOMAIN list, list, "filter", [rows |-> all, refused |-> FALSE], by)
    BY <1>2, <1>4
  <1>6. PICK g : Runs(g, h[DOMAIN list], list, "filter", [rows |-> all, refused |-> FALSE], by)
    BY <1>5, FoldRuns
  <1>7. \A k \in 0..(Len(list) - 1) : g[k + 1] = Narrowed(g[k], list[k + 1], by)
    BY <1>6, Zenon DEF Folded, Runs
  <1>8. g[0] = [rows |-> all, refused |-> FALSE] /\ h[DOMAIN list] = g[Len(list)]
    BY <1>6 DEF Runs
  <1> QED
    BY <1>1, <1>7, <1>8, Zenon

LEMMA OrderSteps ==
  ASSUME NEW S, NEW list \in Seq(S), NEW by, NEW all
  PROVE  \E g : /\ g[0] = all
                /\ \A k \in 0..(Len(list) - 1) : g[k + 1] = StableSort(g[k], by[list[k + 1]])
                /\ Sorted(all, list, by) = g[Len(list)]
  <1> DEFINE Is(f) == f = [s \in SUBSET DOMAIN list |->
                             IF s = {} THEN all ELSE StableSort(f[s \ {Max(s)}], by[list[Max(s)]])]
             h == CHOOSE f : Is(f)
  <1>1. Sorted(all, list, by) = h[DOMAIN list]
    BY DEF Sorted, FoldLeft, MapThenFoldSet
  <1>2. ASSUME NEW f PROVE Is(f) <=> FoldsAs(f, SUBSET DOMAIN list, list, "order", all, by)
    BY Zenon DEF FoldsAs, FoldStep, Folded
  <1>3. \E f : Is(f)
    <2> HIDE DEF Is
    <2> QED
      BY <1>2, FoldExists
  <1>4. Is(h)
    BY <1>3, Zenon
  <1> HIDE DEF Is, h
  <1>5. FoldsAs(h, SUBSET DOMAIN list, list, "order", all, by)
    BY <1>2, <1>4
  <1>6. PICK g : Runs(g, h[DOMAIN list], list, "order", all, by)
    BY <1>5, FoldRuns
  <1>7. \A k \in 0..(Len(list) - 1) : g[k + 1] = StableSort(g[k], by[list[k + 1]])
    BY <1>6, Zenon DEF Folded, Runs
  <1>8. g[0] = all /\ h[DOMAIN list] = g[Len(list)]
    BY <1>6 DEF Runs
  <1> QED
    BY <1>1, <1>7, <1>8, Zenon

LEMMA ReadSteps ==
  ASSUME NEW S, NEW list \in Seq(S), NEW by
  PROVE  \E g : /\ g[0] = Start
                /\ \A k \in 0..(Len(list) - 1) : g[k + 1] = Consume(g[k], list[k + 1], by)
                /\ Read(list, by) = g[Len(list)]
  <1> DEFINE Is(f) == f = [s \in SUBSET DOMAIN list |->
                             IF s = {} THEN Start ELSE Consume(f[s \ {Max(s)}], list[Max(s)], by)]
             h == CHOOSE f : Is(f)
  <1>1. Read(list, by) = h[DOMAIN list]
    BY DEF Read, FoldLeft, MapThenFoldSet
  <1>2. ASSUME NEW f PROVE Is(f) <=> FoldsAs(f, SUBSET DOMAIN list, list, "read", Start, by)
    BY Zenon DEF FoldsAs, FoldStep, Folded
  <1>3. \E f : Is(f)
    <2> HIDE DEF Is
    <2> QED
      BY <1>2, FoldExists
  <1>4. Is(h)
    BY <1>3, Zenon
  <1> HIDE DEF Is, h
  <1>5. FoldsAs(h, SUBSET DOMAIN list, list, "read", Start, by)
    BY <1>2, <1>4
  <1>6. PICK g : Runs(g, h[DOMAIN list], list, "read", Start, by)
    BY <1>5, FoldRuns
  <1>7. \A k \in 0..(Len(list) - 1) : g[k + 1] = Consume(g[k], list[k + 1], by)
    BY <1>6, Zenon DEF Folded, Runs
  <1>8. g[0] = Start /\ h[DOMAIN list] = g[Len(list)]
    BY <1>6 DEF Runs
  <1> QED
    BY <1>1, <1>7, <1>8, Zenon
\* The element is in its place and the others are where they were or one on.
LEMMA InsertedAt ==
  ASSUME NEW S, NEW s \in Seq(S), NEW e \in S, NEW i \in 1..(Len(s) + 1)
  PROVE  /\ InsertAt(s, i, e) \in Seq(S)
         /\ Len(InsertAt(s, i, e)) = Len(s) + 1
         /\ \A j \in 1..(Len(s) + 1) :
              InsertAt(s, i, e)[j] = IF j < i THEN s[j] ELSE IF j = i THEN e ELSE s[j - 1]
  <1>0. Len(s) \in Nat /\ \A j \in 1..Len(s) : s[j] \in S
    BY LenProperties, ElementOfSeq
  <1> DEFINE a == SubSeq(s, 1, i - 1)
             b == SubSeq(s, i, Len(s))
             m == a \o <<e>>
  <1>1. /\ a \in Seq(S) /\ Len(a) = i - 1
        /\ \A j \in 1..(i - 1) : a[j] = s[j]
    <2>1. \A j \in 1..(i - 1) : s[j] \in S
      BY <1>0
    <2>2. /\ a \in Seq(S)
          /\ Len(a) = IF 1 <= i - 1 THEN (i - 1) - 1 + 1 ELSE 0
          /\ \A j \in 1..((i - 1) - 1 + 1) : a[j] = s[1 + j - 1]
      <3>1. 1 \in Int /\ i - 1 \in Int
        OBVIOUS
      <3> HIDE DEF a
      <3> QED
        BY <2>1, <3>1, SubSeqProperties DEF a
    <2> HIDE DEF a
    <2> QED
      BY <1>0, <2>2
  <1>2. /\ b \in Seq(S) /\ Len(b) = Len(s) - i + 1
        /\ \A j \in 1..(Len(s) - i + 1) : b[j] = s[i + j - 1]
    <2>1. \A j \in i..Len(s) : s[j] \in S
      BY <1>0
    <2>2. /\ b \in Seq(S)
          /\ Len(b) = IF i <= Len(s) THEN Len(s) - i + 1 ELSE 0
          /\ \A j \in 1..(Len(s) - i + 1) : b[j] = s[i + j - 1]
      <3>1. Len(s) \in Int /\ i \in Int
        BY <1>0
      <3> QED
        BY <2>1, <3>1, SubSeqProperties
    <2> HIDE DEF b
    <2> QED
      BY <1>0, <2>2
  <1> HIDE DEF a, b
  <1>3. <<e>> \in Seq(S) /\ Len(<<e>>) = 1 /\ <<e>>[1] = e
    OBVIOUS
  <1>4. /\ m \in Seq(S) /\ Len(m) = i
        /\ \A j \in 1..i : m[j] = IF j < i THEN s[j] ELSE e
    <2>1. /\ m \in Seq(S) /\ Len(m) = Len(a) + Len(<<e>>)
          /\ \A j \in 1..(Len(a) + Len(<<e>>)) : m[j] = IF j <= Len(a) THEN a[j] ELSE <<e>>[j - Len(a)]
      BY <1>1, <1>3, ConcatProperties
    <2> HIDE DEF m
    <2>2. ASSUME NEW j \in 1..i PROVE m[j] = IF j < i THEN s[j] ELSE e
      <3>1. m[j] = IF j <= Len(a) THEN a[j] ELSE <<e>>[j - Len(a)]
        <4>1. Len(a) + Len(<<e>>) = i
          BY <1>1, <1>3
        <4> QED
          BY <2>1, <4>1
      <3>2. CASE j < i
        BY <1>1, <3>1, <3>2
      <3>3. CASE ~(j < i)
        <4>1. j = i /\ j - Len(a) = 1 /\ ~(j <= Len(a))
          BY <1>1, <3>3
        <4> QED
          BY <1>3, <3>1, <3>3, <4>1
      <3> QED
        BY <3>2, <3>3
    <2> QED
      BY <1>1, <1>3, <2>1, <2>2
  <1> HIDE DEF m
  <1>5. InsertAt(s, i, e) = m \o b
    BY Zenon DEF InsertAt, a, b, m
  <1>6. /\ m \o b \in Seq(S) /\ Len(m \o b) = Len(s) + 1
        /\ \A j \in 1..(Len(s) + 1) : (m \o b)[j] = IF j <= i THEN m[j] ELSE b[j - i]
    <2>1. /\ m \o b \in Seq(S) /\ Len(m \o b) = Len(m) + Len(b)
          /\ \A j \in 1..(Len(m) + Len(b)) : (m \o b)[j] = IF j <= Len(m) THEN m[j] ELSE b[j - Len(m)]
      BY <1>2, <1>4, ConcatProperties
    <2>2. Len(m) + Len(b) = Len(s) + 1 /\ Len(m) = i
      BY <1>0, <1>2, <1>4
    <2> QED
      BY <2>1, <2>2
  <1>7. ASSUME NEW j \in 1..(Len(s) + 1)
        PROVE  (m \o b)[j] = IF j < i THEN s[j] ELSE IF j = i THEN e ELSE s[j - 1]
    <2>1. CASE j <= i
      <3>1. j \in 1..i
        BY <2>1
      <3> QED
        BY <1>4, <1>6, <2>1, <3>1
    <2>2. CASE ~(j <= i)
      <3>1. j - i \in 1..(Len(s) - i + 1) /\ i + (j - i) - 1 = j - 1
        BY <1>0, <2>2
      <3>2. b[j - i] = s[j - 1]
        BY <1>2, <3>1
      <3> QED
        BY <1>6, <2>2, <3>2
    <2> QED
      BY <2>1, <2>2
  <1> QED
    BY <1>5, <1>6, <1>7

LEMMA InitialSegment ==
  ASSUME NEW k \in Nat, NEW D \in SUBSET (1..k),
         \A i \in D : \A j \in 1..(i - 1) : j \in D
  PROVE  Cardinality(D) \in 0..k /\ D = 1..Cardinality(D)
  <1>1. CASE D = {}
    <2>1. Cardinality(D) = 0
      BY <1>1, FS_EmptySet
    <2> QED
      BY <1>1, <2>1
  <1>2. CASE D # {}
    <2> DEFINE c == Max(D)
    <2>1. c \in D /\ \A y \in D : y <= c
      BY <1>2, MaxOf
    <2> HIDE DEF c
    <2>2. D = 1..c /\ c \in 0..k
      <3>1. c \in 1..k /\ \A y \in D : y \in 1..k /\ y <= c
        BY <2>1
      <3>2. \A y \in D : y \in 1..c
        BY <3>1
      <3>3. ASSUME NEW j \in 1..c PROVE j \in D
        <4>1. j = c \/ j \in 1..(c - 1)
          BY <3>1
        <4> QED
          BY <2>1, <4>1
      <3>4. D = 1..c
        BY <3>2, <3>3
      <3> QED
        BY <3>1, <3>4
    <2>3. Cardinality(1..c) = c
      <3>1. 1 \in Int /\ c \in Int /\ ~(1 > c) /\ c - 1 + 1 = c
        BY <2>1
      <3> QED
        BY <3>1, FS_Interval
    <2> QED
      BY <2>2, <2>3
  <1> QED
    BY <1>1, <1>2

----------------------------------------------------------------------------
(* Sorts *)

\* A strict weak order: what std::stable_sort asks of a comparison.
Weak(rel, S) ==
  /\ \A a, b \in S : <<a, b>> \in rel => <<b, a>> \notin rel
  /\ \A a, b, c \in S : <<a, b>> \notin rel /\ <<b, c>> \notin rel => <<a, c>> \notin rel

Ahead(rel, tie, a, b) == <<a, b>> \in rel \/ (<<b, a>> \notin rel /\ <<a, b>> \in tie)

Ascending(s, rel, tie) == \A i, j \in 1..Len(s) : i < j => Ahead(rel, tie, s[i], s[j])

\* Inserting after all that it does not precede keeps a list sorted.
LEMMA InsertedInOrder ==
  ASSUME NEW S, NEW s \in Seq(S), NEW r \in S, NEW rel, NEW tie,
         Weak(rel, S), Ascending(s, rel, tie), \A i \in 1..Len(s) : <<s[i], r>> \in tie
  PROVE  /\ Inserted(s, r, rel) \in Seq(S)
         /\ Len(Inserted(s, r, rel)) = Len(s) + 1
         /\ ToSet(Inserted(s, r, rel)) = ToSet(s) \cup {r}
         /\ Ascending(Inserted(s, r, rel), rel, tie)
  <1> DEFINE n == Len(s)
             D == {i \in DOMAIN s : <<r, s[i]>> \notin rel}
             c == Cardinality(D)
             t == Inserted(s, r, rel)
  <1>0. n \in Nat /\ DOMAIN s = 1..n /\ \A i \in 1..n : s[i] \in S
    BY LenProperties, ElementOfSeq
  <1>1. c \in 0..n /\ D = 1..c
    <2>1. D \in SUBSET (1..n)
      BY <1>0
    <2>2. ASSUME NEW i \in D, NEW j \in 1..(i - 1) PROVE j \in D
      <3>1. i \in 1..n /\ j \in 1..n /\ j < i
        BY <2>1
      <3>2. <<r, s[i]>> \notin rel
        OBVIOUS
      <3>3. s[i] \in S /\ s[j] \in S
        BY <1>0, <3>1
      <3>4. <<s[i], s[j]>> \notin rel
        BY <3>1, <3>3 DEF Ascending, Ahead, Weak
      <3>5. <<r, s[j]>> \notin rel
        BY <3>2, <3>3, <3>4 DEF Weak
      <3> QED
        BY <1>0, <3>1, <3>5
    <2> HIDE DEF D
    <2> QED
      BY <1>0, <2>1, <2>2, InitialSegment
  <1>2. t = InsertAt(s, 1 + c, r)
    BY Zenon DEF Inserted
  <1>3. \A i \in 1..n : <<r, s[i]>> \notin rel <=> i <= c
    <2> TAKE i \in 1..n
    <2>1. i \in D <=> <<r, s[i]>> \notin rel
      BY <1>0
    <2> HIDE DEF D
    <2> QED
      BY <1>1, <2>1
  <1> HIDE DEF c, D, t
  <1>4. /\ t \in Seq(S) /\ Len(t) = n + 1
        /\ \A j \in 1..(n + 1) : t[j] = IF j < 1 + c THEN s[j] ELSE IF j = 1 + c THEN r ELSE s[j - 1]
    <2> DEFINE p == 1 + c
    <2>1. p \in 1..(n + 1)
      BY <1>0, <1>1
    <2> HIDE DEF p
    <2>2. /\ InsertAt(s, p, r) \in Seq(S) /\ Len(InsertAt(s, p, r)) = n + 1
          /\ \A j \in 1..(n + 1) :
               InsertAt(s, p, r)[j] = IF j < p THEN s[j] ELSE IF j = p THEN r ELSE s[j - 1]
      BY <2>1, InsertedAt
    <2>3. t = InsertAt(s, p, r)
      BY <1>2 DEF p
    <2> QED
      BY <2>2, <2>3, Zenon DEF p
  <1>5. DOMAIN t = 1..(n + 1)
    BY <1>4, LenProperties
  <1>6. ToSet(t) = ToSet(s) \cup {r}
    <2>1. ASSUME NEW j \in 1..(n + 1) PROVE t[j] = r \/ \E i \in 1..n : t[j] = s[i]
      <3>1. CASE j < 1 + c
        <4>1. j \in 1..n
          BY <1>0, <1>1, <3>1
        <4> QED
          BY <1>4, <3>1, <4>1
      <3>2. CASE j = 1 + c
        BY <1>1, <1>4, <3>2
      <3>3. CASE j > 1 + c
        <4>1. j - 1 \in 1..n /\ ~(j < 1 + c) /\ ~(j = 1 + c)
          BY <1>0, <1>1, <3>3
        <4> QED
          BY <1>4, <4>1
      <3> QED
        BY <1>1, <3>1, <3>2, <3>3
    <2>2. ASSUME NEW i \in 1..n PROVE \E j \in 1..(n + 1) : t[j] = s[i]
      <3>1. CASE i < 1 + c
        <4>1. i \in 1..(n + 1)
          BY <1>0
        <4> QED
          BY <1>4, <3>1, <4>1
      <3>2. CASE ~(i < 1 + c)
        <4>1. i + 1 \in 1..(n + 1) /\ ~(i + 1 < 1 + c) /\ ~(i + 1 = 1 + c) /\ (i + 1) - 1 = i
          BY <1>0, <1>1, <3>2
        <4>2. t[i + 1] = s[(i + 1) - 1]
          BY <1>4, <4>1
        <4> QED
          BY <4>1, <4>2
      <3> QED
        BY <3>1, <3>2
    <2>3. 1 + c \in 1..(n + 1) /\ t[1 + c] = r
      <3>1. 1 + c \in 1..(n + 1) /\ ~(1 + c < 1 + c)
        BY <1>0, <1>1
      <3> QED
        BY <1>4, <3>1
    <2>4. ToSet(s) = {s[i] : i \in 1..n} /\ ToSet(t) = {t[j] : j \in 1..(n + 1)}
      BY <1>0, <1>5, Zenon DEF ToSet
    <2> QED
      BY <2>1, <2>2, <2>3, <2>4
  <1>7. ASSUME NEW i \in 1..(n + 1), NEW j \in 1..(n + 1), i < j
        PROVE  Ahead(rel, tie, t[i], t[j])
    <2>1. CASE j < 1 + c
      <3>1. i \in 1..n /\ j \in 1..n /\ i < 1 + c
        BY <1>0, <1>1, <1>7, <2>1
      <3>2. t[i] = s[i] /\ t[j] = s[j]
        BY <1>4, <2>1, <3>1
      <3> QED
        BY <1>7, <3>1, <3>2 DEF Ascending
    <2>2. CASE j = 1 + c
      <3>1. i \in 1..n /\ i < 1 + c /\ i <= c /\ ~(j < 1 + c)
        BY <1>0, <1>1, <1>7, <2>2
      <3>2. t[i] = s[i] /\ t[j] = r
        BY <1>4, <2>2, <3>1
      <3>3. <<r, s[i]>> \notin rel /\ <<s[i], r>> \in tie
        BY <1>3, <3>1
      <3> QED
        BY <3>2, <3>3 DEF Ahead
    <2>3. CASE j > 1 + c
      <3>1. j - 1 \in 1..n /\ ~(j < 1 + c) /\ ~(j = 1 + c) /\ ~(j - 1 <= c)
        BY <1>0, <1>1, <2>3
      <3>2. t[j] = s[j - 1]
        BY <1>4, <3>1
      <3>3. CASE i < 1 + c
        <4>1. i \in 1..n /\ i < j - 1
          BY <1>0, <1>1, <1>7, <2>3, <3>3
        <4>2. t[i] = s[i]
          BY <1>4, <3>3
        <4> QED
          BY <3>1, <3>2, <4>1, <4>2 DEF Ascending
      <3>4. CASE i = 1 + c
        <4>1. t[i] = r
          <5>1. ~(i < 1 + c)
            BY <1>1, <3>4
          <5> QED
            BY <1>4, <3>4, <5>1
        <4>2. <<r, s[j - 1]>> \in rel
          BY <1>3, <3>1
        <4> QED
          BY <3>2, <4>1, <4>2 DEF Ahead
      <3>5. CASE i > 1 + c
        <4>1. i - 1 \in 1..n /\ ~(i < 1 + c) /\ ~(i = 1 + c) /\ i - 1 < j - 1
          BY <1>0, <1>1, <1>7, <3>5
        <4>2. t[i] = s[i - 1]
          BY <1>4, <4>1
        <4> QED
          BY <3>1, <3>2, <4>1, <4>2 DEF Ascending
      <3> QED
        BY <1>1, <3>3, <3>4, <3>5
    <2> QED
      BY <1>1, <2>1, <2>2, <2>3
  <1>8. Ascending(t, rel, tie)
    <2> HIDE DEF n
    <2>1. Len(t) = n + 1
      BY <1>4
    <2> QED
      BY <1>7, <2>1 DEF Ascending
  <1> QED
    BY <1>4, <1>6, <1>8 DEF t

\* Whatever strict weak order it is given, the sort answers a permutation in
\* that order in which those it leaves together are in the order they came in:
\* what the code asks of std::stable_sort (store.cpp, query and index.search).
THEOREM SortsStably ==
  ASSUME NEW S, NEW list \in Seq(S), NEW rel, NEW tie, Weak(rel, S),
         \A i, j \in 1..Len(list) : i < j => <<list[i], list[j]>> \in tie
  PROVE  /\ StableSort(list, rel) \in Seq(S)
         /\ Len(StableSort(list, rel)) = Len(list)
         /\ ToSet(StableSort(list, rel)) = ToSet(list)
         /\ Ascending(StableSort(list, rel), rel, tie)
  <1> DEFINE n == Len(list)
  <1>0. n \in Nat /\ DOMAIN list = 1..n /\ \A i \in 1..n : list[i] \in S
    BY LenProperties, ElementOfSeq
  <1>1. PICK g : /\ g[0] = <<>>
                 /\ \A k \in 0..(n - 1) : g[k + 1] = Inserted(g[k], list[k + 1], rel)
                 /\ StableSort(list, rel) = g[n]
    BY SortSteps
  <1> DEFINE Good(k) == /\ g[k] \in Seq(S) /\ Len(g[k]) = k
                        /\ ToSet(g[k]) = {list[i] : i \in 1..k}
                        /\ Ascending(g[k], rel, tie)
             T == {k \in Nat : k <= n => Good(k)}
  <1>2. 0 \in T
    <2>1. <<>> \in Seq(S) /\ Len(<<>>) = 0 /\ ToSet(<<>>) = {}
      BY DEF ToSet
    <2>2. Ascending(<<>>, rel, tie)
      BY DEF Ascending
    <2>3. {list[i] : i \in 1..0} = {}
      OBVIOUS
    <2>4. Good(0)
      BY <1>1, <2>1, <2>2, <2>3, Zenon
    <2> HIDE DEF Good
    <2> QED
      BY <2>4
  <1>3. ASSUME NEW k \in Nat, k \in T PROVE k + 1 \in T
    <2>1. SUFFICES ASSUME k + 1 <= n PROVE Good(k + 1)
      <3> HIDE DEF Good
      <3> QED
        OBVIOUS
    <2>2. Good(k)
      <3> HIDE DEF Good
      <3> QED
        BY <1>0, <1>3, <2>1
    <2>3. k \in 0..(n - 1) /\ k + 1 \in 1..n
      BY <1>0, <2>1
    <2> DEFINE s == g[k]
               r == list[k + 1]
    <2>4. s \in Seq(S) /\ Len(s) = k /\ ToSet(s) = {list[i] : i \in 1..k} /\ Ascending(s, rel, tie)
      BY <2>2
    <2>5. r \in S
      BY <1>0, <2>3
    <2>6. g[k + 1] = Inserted(s, r, rel)
      BY <1>1, <2>3
    <2> HIDE DEF s
    <2>7. \A i \in 1..Len(s) : <<s[i], r>> \in tie
      <3> TAKE i \in 1..Len(s)
      <3>1. s[i] \in ToSet(s)
        BY <2>4, LenProperties DEF ToSet
      <3>2. PICK m \in 1..k : s[i] = list[m]
        BY <2>4, <3>1
      <3>3. m \in 1..n /\ m < k + 1
        BY <1>0, <2>3
      <3> QED
        BY <2>3, <3>2, <3>3
    <2> HIDE DEF r
    <2>8. /\ Inserted(s, r, rel) \in Seq(S)
          /\ Len(Inserted(s, r, rel)) = Len(s) + 1
          /\ ToSet(Inserted(s, r, rel)) = ToSet(s) \cup {r}
          /\ Ascending(Inserted(s, r, rel), rel, tie)
      BY <2>4, <2>5, <2>7, InsertedInOrder
    <2>9. {list[i] : i \in 1..k} \cup {r} = {list[i] : i \in 1..(k + 1)}
      <3>1. 1..(k + 1) = 1..k \cup {k + 1}
        OBVIOUS
      <3> QED
        BY <3>1, Zenon DEF r
    <2>10. Len(g[k + 1]) = k + 1
      BY <2>4, <2>6, <2>8
    <2>11. ToSet(g[k + 1]) = {list[i] : i \in 1..(k + 1)}
      BY <2>4, <2>6, <2>8, <2>9, Zenon
    <2> QED
      BY <2>6, <2>8, <2>10, <2>11, Zenon
  <1>4. n \in T
    <2> HIDE DEF T
    <2> QED
      BY <1>0, <1>2, <1>3, SetInduction
  <1>5. Good(n)
    <2> HIDE DEF Good
    <2> QED
      BY <1>0, <1>4
  <1>6. ToSet(list) = {list[i] : i \in 1..n}
    BY <1>0, Zenon DEF ToSet
  <1> QED
    BY <1>1, <1>5, <1>6, Zenon

----------------------------------------------------------------------------
(* Texts *)

\* FlattenSeq joins the sequences from the first to the last.
LEMMA FlattenSteps ==
  ASSUME NEW S, NEW seqs \in Seq(S), seqs # <<>>
  PROVE  \E g : /\ g[1] = seqs[1]
                /\ \A k \in 1..(Len(seqs) - 1) : g[k + 1] = g[k] \o seqs[k + 1]
                /\ FlattenSeq(seqs) = g[Len(seqs)]
  <1> DEFINE n == Len(seqs)
             Body(f, i) == IF i = 1 THEN seqs[i] ELSE f[i - 1] \o seqs[i]
             Is(f) == f = [i \in 1..n |-> Body(f, i)]
             h == CHOOSE f : Is(f)
  <1>0. n \in Nat /\ n # 0
    BY EmptySeq, LenProperties
  <1>1. FlattenSeq(seqs) = h[n]
    BY <1>0, Zenon DEF FlattenSeq
  <1>2. \E f : Is(f)
    <2> DEFINE T == {k \in Nat : \E f : f = [i \in 1..k |-> Body(f, i)]}
    <2>1. 0 \in T
      <3>1. [i \in 1..0 |-> 0] = [i \in 1..0 |-> Body([j \in 1..0 |-> 0], i)]
        OBVIOUS
      <3> QED
        BY <3>1
    <2>2. ASSUME NEW k \in Nat, k \in T PROVE k + 1 \in T
      <3>1. PICK f : f = [i \in 1..k |-> Body(f, i)]
        BY <2>2
      <3> DEFINE e == [i \in 1..(k + 1) |-> Body(f, i)]
      <3>2. ASSUME NEW i \in 1..(k + 1) PROVE Body(f, i) = Body(e, i)
        <4>1. CASE i = 1
          BY <4>1
        <4>2. CASE i # 1
          <5>1. i - 1 \in 1..k /\ i - 1 \in 1..(k + 1)
            BY <4>2
          <5>2. f[i - 1] = Body(f, i - 1) /\ e[i - 1] = Body(f, i - 1)
            <6> HIDE DEF Body
            <6> QED
              BY <3>1, <5>1
          <5> HIDE DEF e
          <5> QED
            BY <4>2, <5>2
        <4> QED
          BY <4>1, <4>2
      <3>3. e = [i \in 1..(k + 1) |-> Body(e, i)]
        <4> HIDE DEF Body
        <4> QED
          BY <3>2, Zenon
      <3> HIDE DEF Body, e
      <3>4. \E d : d = [i \in 1..(k + 1) |-> Body(d, i)]
        BY <3>3, Zenon
      <3> QED
        BY <3>4
    <2>3. n \in T
      <3> HIDE DEF T
      <3> QED
        BY <1>0, <2>1, <2>2, SetInduction
    <2> HIDE DEF Body
    <2> QED
      BY <2>3
  <1>3. h = [i \in 1..n |-> Body(h, i)]
    <2> HIDE DEF Body
    <2> QED
      BY <1>2, Zenon
  <1> HIDE DEF h
  <1>4. h[1] = seqs[1]
    <2>1. 1 \in 1..n
      BY <1>0
    <2>2. h[1] = Body(h, 1)
      <3> HIDE DEF Body
      <3> QED
        BY <1>3, <2>1, Zenon
    <2> QED
      BY <2>2
  <1>5. ASSUME NEW k \in 1..(n - 1) PROVE h[k + 1] = h[k] \o seqs[k + 1]
    <2>1. k + 1 \in 1..n /\ (k + 1) - 1 = k /\ k + 1 # 1
      BY <1>0
    <2>2. h[k + 1] = Body(h, k + 1)
      <3> HIDE DEF Body
      <3> QED
        BY <1>3, <2>1, Zenon
    <2> QED
      BY <2>1, <2>2
  <1> QED
    BY <1>1, <1>4, <1>5

LEMMA FlattenTyped ==
  ASSUME NEW S, NEW seqs \in Seq(Seq(S))
  PROVE  FlattenSeq(seqs) \in Seq(S)
  <1> DEFINE n == Len(seqs)
  <1>0. n \in Nat /\ \A i \in 1..n : seqs[i] \in Seq(S)
    BY LenProperties, ElementOfSeq
  <1>1. CASE seqs = <<>>
    <2>1. FlattenSeq(seqs) = seqs
      BY <1>1, EmptySeq DEF FlattenSeq
    <2> QED
      BY <1>1, <2>1, EmptySeq
  <1>2. CASE seqs # <<>>
    <2>1. PICK g : /\ g[1] = seqs[1]
                   /\ \A k \in 1..(n - 1) : g[k + 1] = g[k] \o seqs[k + 1]
                   /\ FlattenSeq(seqs) = g[n]
      BY <1>2, FlattenSteps
    <2>2. n >= 1
      BY <1>0, <1>2, EmptySeq
    <2> DEFINE T == {k \in Nat : k + 1 <= n => g[k + 1] \in Seq(S)}
    <2>3. 0 \in T
      <3>1. 1 \in 1..n
        BY <1>0, <2>2
      <3> QED
        BY <1>0, <2>1, <3>1
    <2>4. ASSUME NEW k \in Nat, k \in T PROVE k + 1 \in T
      <3>1. SUFFICES ASSUME (k + 1) + 1 <= n PROVE g[(k + 1) + 1] \in Seq(S)
        OBVIOUS
      <3>2. k + 1 \in 1..(n - 1) /\ (k + 1) + 1 \in 1..n /\ k + 1 <= n
        BY <1>0, <3>1
      <3>3. g[k + 1] \in Seq(S)
        BY <2>4, <3>2
      <3>4. g[(k + 1) + 1] = g[k + 1] \o seqs[(k + 1) + 1]
        BY <2>1, <3>2
      <3>5. seqs[(k + 1) + 1] \in Seq(S)
        BY <1>0, <3>2
      <3> QED
        BY <3>3, <3>4, <3>5, ConcatProperties
    <2>5. n - 1 \in Nat /\ (n - 1) + 1 = n
      BY <1>0, <2>2
    <2>6. n - 1 \in T
      <3> HIDE DEF T
      <3> QED
        BY <2>3, <2>4, <2>5, SetInduction
    <2> QED
      BY <2>1, <2>5, <2>6
  <1> QED
    BY <1>1, <1>2

LEMMA ScalarCases ==
  ASSUME NEW v \in ScalarValues
  PROVE  /\ v \in Token
         /\ \/ v = Null /\ v.kind = "null"
            \/ v.kind = "boolean" /\ v.truth \in BOOLEAN /\ v = Bool(v.truth)
            \/ v.kind = "number" /\ v.halves \in Int /\ v = Number(v.halves)
            \/ v.kind = "string" /\ v.chars \in Seq(Int) /\ v = String(v.chars)
  <1>1. v \in Token
    BY DEF Token
  <1>2. CASE v \in {Null}
    BY <1>1, <1>2 DEF Null
  <1>3. CASE v \in {Bool(b) : b \in BOOLEAN}
    BY <1>1, <1>3 DEF Bool
  <1>4. CASE v \in [kind : {"number"}, halves : Int]
    BY <1>1, <1>4 DEF Number
  <1>5. CASE v \in [kind : {"string"}, chars : Seq(Int)]
    BY <1>1, <1>5 DEF String
  <1> QED
    BY <1>2, <1>3, <1>4, <1>5 DEF ScalarValues

LEMMA TokenCases ==
  ASSUME NEW t \in Token
  PROVE  \/ t.kind \in {"[", "]", "{", "}", ",", ":"}
         \/ t = Null /\ t.kind = "null"
         \/ t.kind = "boolean" /\ t.truth \in BOOLEAN /\ t = Bool(t.truth)
         \/ t.kind = "number" /\ t.halves \in Int /\ t = Number(t.halves)
         \/ t.kind = "string" /\ t.chars \in Seq(Int) /\ t = String(t.chars)
  <1>1. CASE t \in Marks
    <2>1. PICK c \in {"[", "]", "{", "}", ",", ":"} : t = [kind |-> c]
      BY <1>1 DEF Marks, Mark
    <2> QED
      BY <2>1
  <1>2. CASE t \in ScalarValues
    BY <1>2, ScalarCases, Zenon
  <1> QED
    BY <1>1, <1>2 DEF Token

\* The digits of a number are characters, and there is one at least.
LEMMA DigitsTyped ==
  ASSUME NEW n \in Nat
  PROVE  Digits(n) \in Seq(Int) /\ Digits(n) # <<>>
  <1> DEFINE Body(f, m) == IF m < 10 THEN <<48 + m>> ELSE Append(f[m \div 10], 48 + (m % 10))
             Is(f) == f = [m \in 0..n |-> Body(f, m)]
             h == CHOOSE f : Is(f)
             U == {s \in Seq(Int) : s # <<>>}
  <1>1. Digits(n) = h[n]
    BY Zenon DEF Digits
  <1>2. \A m \in Nat : m >= 10 => m \div 10 \in Nat /\ m \div 10 < m
    OBVIOUS
  <1>3. \E f : Is(f)
    <2> DEFINE T == {k \in Nat : \E f : f = [m \in 0..k |-> Body(f, m)]}
    <2>1. 0 \in T
      <3> DEFINE e == [m \in 0..0 |-> <<48 + m>>]
      <3>1. \A m \in 0..0 : Body(e, m) = <<48 + m>>
        <4> TAKE m \in 0..0
        <4>1. m < 10
          OBVIOUS
        <4> QED
          BY <4>1, Zenon
      <3>2. e = [m \in 0..0 |-> Body(e, m)]
        <4> HIDE DEF Body
        <4> QED
          BY <3>1, Zenon
      <3> HIDE DEF Body, e
      <3>3. \E d : d = [m \in 0..0 |-> Body(d, m)]
        BY <3>2, Zenon
      <3> QED
        BY <3>3
    <2>2. ASSUME NEW k \in Nat, k \in T PROVE k + 1 \in T
      <3>1. PICK f : f = [m \in 0..k |-> Body(f, m)]
        BY <2>2
      <3> DEFINE e == [m \in 0..(k + 1) |-> Body(f, m)]
      <3>2. ASSUME NEW m \in 0..(k + 1) PROVE Body(f, m) = Body(e, m)
        <4>1. CASE m < 10
          BY <4>1, Zenon
        <4>2. CASE ~(m < 10)
          <5>1. m \div 10 \in 0..k /\ m \div 10 \in 0..(k + 1)
            BY <1>2, <4>2
          <5>2. f[m \div 10] = Body(f, m \div 10) /\ e[m \div 10] = Body(f, m \div 10)
            <6> HIDE DEF Body
            <6> QED
              BY <3>1, <5>1
          <5> HIDE DEF e
          <5>3. f[m \div 10] = e[m \div 10]
            <6> HIDE DEF Body
            <6> QED
              BY <5>2, Zenon
          <5> QED
            BY <4>2, <5>3, Zenon
        <4> QED
          BY <4>1, <4>2
      <3>3. e = [m \in 0..(k + 1) |-> Body(e, m)]
        <4> HIDE DEF Body
        <4> QED
          BY <3>2, Zenon
      <3> HIDE DEF Body, e
      <3>4. \E d : d = [m \in 0..(k + 1) |-> Body(d, m)]
        BY <3>3, Zenon
      <3> QED
        BY <3>4
    <2>3. n \in T
      <3> HIDE DEF T
      <3> QED
        BY <2>1, <2>2, SetInduction
    <2> HIDE DEF Body
    <2> QED
      BY <2>3
  <1>4. h = [m \in 0..n |-> Body(h, m)]
    <2> HIDE DEF Body
    <2> QED
      BY <1>3, Zenon
  <1> HIDE DEF h
  <1>5. ASSUME NEW m \in 0..n PROVE h[m] = Body(h, m)
    <2> HIDE DEF Body
    <2> QED
      BY <1>4, <1>5, Zenon
  <1>6. ASSUME NEW m \in 0..n, m < 10 PROVE h[m] \in U
    <2>1. h[m] = <<48 + m>>
      BY <1>5, <1>6, Zenon
    <2>2. <<48 + m>> \in U
      BY <1>6
    <2> QED
      BY <2>1, <2>2, Zenon
  <1>7. ASSUME NEW m \in 0..n, ~(m < 10), h[m \div 10] \in U PROVE h[m] \in U
    <2> DEFINE s == h[m \div 10]
               e == 48 + (m % 10)
    <2>1. h[m] = Append(s, e)
      BY <1>5, <1>7, Zenon
    <2>2. e \in Int /\ s \in Seq(Int)
      BY <1>7
    <2> HIDE DEF s, e
    <2>3. Append(s, e) \in Seq(Int) /\ Append(s, e) # <<>>
      BY <2>2, AppendProperties
    <2> QED
      BY <2>1, <2>3
  <1> DEFINE T == {k \in Nat : \A m \in 0..k : m <= n => h[m] \in U}
  <1> HIDE DEF Body, U
  <1>8. 0 \in T
    BY <1>6
  <1>9. ASSUME NEW k \in Nat, k \in T PROVE k + 1 \in T
    <2>1. \A m \in 0..k : m <= n => h[m] \in U
      BY <1>9
    <2>2. ASSUME NEW m \in 0..(k + 1), m <= n PROVE h[m] \in U
      <3>1. m \in 0..n
        BY <2>2
      <3>2. CASE m < 10
        BY <1>6, <3>1, <3>2
      <3>3. CASE ~(m < 10)
        <4>1. m \div 10 \in 0..k /\ m \div 10 <= n
          BY <1>2, <2>2, <3>3
        <4>2. h[m \div 10] \in U
          BY <2>1, <4>1
        <4> QED
          BY <1>7, <3>1, <3>3, <4>2
      <3> QED
        BY <3>2, <3>3
    <2> QED
      BY <2>2
  <1>10. n \in T
    <2> HIDE DEF T
    <2> QED
      BY <1>8, <1>9, SetInduction
  <1>11. h[n] \in U
    BY <1>10
  <1> QED
    BY <1>1, <1>11 DEF U

LEMMA DecimalTyped ==
  ASSUME NEW n \in Nat
  PROVE  Decimal(n) \in Seq(Int)
  <1>1. n \div 2 \in Nat
    OBVIOUS
  <1>2. <<>> \in Seq(Int) /\ <<46, 53>> \in Seq(Int)
    OBVIOUS
  <1>3. (IF n % 2 = 0 THEN <<>> ELSE <<46, 53>>) \in Seq(Int)
    BY <1>2, Zenon
  <1>4. Digits(n \div 2) \in Seq(Int)
    BY <1>1, DigitsTyped
  <1> QED
    BY <1>3, <1>4, ConcatProperties DEF Decimal

LEMMA ScientificTyped ==
  ASSUME NEW s \in Seq(Int), s # <<>>
  PROVE  Scientific(s) \in Seq(Int)
  <1> DEFINE n == Len(s)
             k == Significant(s)
             rest == SubSeq(s, 2, k)
             exponent == Digits(n - 1)
             tail == IF k = 1 THEN <<>> ELSE <<46>> \o rest
             zero == IF Len(exponent) = 1 THEN <<48>> ELSE <<>>
  <1>1. n \in Nat /\ n >= 1 /\ DOMAIN s = 1..n /\ \A i \in 1..n : s[i] \in Int
    BY EmptySeq, LenProperties, ElementOfSeq
  <1>2. k \in Nat /\ k <= n
    <2> DEFINE P == {i \in 1..n : \E j \in i..n : s[j] # 48}
    <2>1. P \in SUBSET (1..n)
      OBVIOUS
    <2>2. k = Cardinality(P)
      BY <1>1, Zenon DEF Significant
    <2> HIDE DEF P, n, k
    <2> QED
      BY <1>1, <2>1, <2>2, SubsetOfRange
  <1> HIDE DEF k
  <1>3. rest \in Seq(Int)
    <2>1. CASE k >= 2
      <3>1. 2 \in 1..(Len(s) + 1) /\ k \in (2 - 1)..Len(s)
        BY <1>1, <1>2, <2>1
      <3> QED
        BY <3>1, SubSeqProperties
    <2>2. CASE ~(k >= 2)
      <3>1. k < 2 /\ k \in Int /\ 2 \in Int
        BY <1>2, <2>2
      <3>2. rest = <<>>
        BY <3>1, SubSeqEmpty
      <3>3. <<>> \in Seq(Int)
        OBVIOUS
      <3> HIDE DEF rest
      <3> QED
        BY <3>2, <3>3, Zenon
    <2> QED
      BY <2>1, <2>2
  <1>4. exponent \in Seq(Int)
    <2>1. n - 1 \in Nat
      BY <1>1
    <2> QED
      BY <2>1, DigitsTyped
  <1>5. s[1] \in Int
    BY <1>1
  <1>6. <<s[1]>> \in Seq(Int)
    <2> DEFINE d == s[1]
    <2>1. d \in Int
      BY <1>5
    <2> HIDE DEF d
    <2>2. <<d>> \in Seq(Int)
      BY <2>1
    <2> QED
      BY <2>2 DEF d
  <1> HIDE DEF rest, exponent
  <1>7. <<46>> \in Seq(Int) /\ <<101, 43>> \in Seq(Int) /\ <<48>> \in Seq(Int) /\ <<>> \in Seq(Int)
    OBVIOUS
  <1>8. <<46>> \o rest \in Seq(Int)
    BY <1>3, <1>7, ConcatProperties
  <1>9. tail \in Seq(Int) /\ zero \in Seq(Int)
    BY <1>7, <1>8, Zenon
  <1>10. Scientific(s) = <<s[1]>> \o tail \o <<101, 43>> \o zero \o exponent
    BY Zenon DEF Scientific, k, rest, exponent, n
  <1> HIDE DEF tail, zero
  <1>11. <<s[1]>> \o tail \in Seq(Int)
    BY <1>6, <1>9, ConcatProperties
  <1>12. <<s[1]>> \o tail \o <<101, 43>> \in Seq(Int)
    BY <1>7, <1>11, ConcatProperties
  <1>13. <<s[1]>> \o tail \o <<101, 43>> \o zero \in Seq(Int)
    BY <1>9, <1>12, ConcatProperties
  <1>14. <<s[1]>> \o tail \o <<101, 43>> \o zero \o exponent \in Seq(Int)
    BY <1>4, <1>13, ConcatProperties
  <1> QED
    BY <1>10, <1>14, Zenon

\* The size and the sign of a number.
LEMMA SizeTyped ==
  ASSUME NEW n \in Int
  PROVE  Size(n) \in Nat /\ Minus(n) \in Seq(Int)
  <1>1. Size(n) \in Nat
    BY DEF Size
  <1>2. <<45>> \in Seq(Int) /\ <<>> \in Seq(Int)
    OBVIOUS
  <1>3. Minus(n) \in Seq(Int)
    BY <1>2, Zenon DEF Minus
  <1> QED
    BY <1>1, <1>3

LEMMA NumberTyped ==
  ASSUME NEW n \in Nat
  PROVE  NumberText(n) \in Seq(Int)
  <1>1. n \div 2 \in Nat
    OBVIOUS
  <1>2. Scientific(Digits(n \div 2)) \in Seq(Int)
    BY <1>1, DigitsTyped, ScientificTyped
  <1>3. Decimal(n) \in Seq(Int)
    BY DecimalTyped
  <1> QED
    BY <1>2, <1>3, Zenon DEF NumberText

\* Letter gives every mark a character.
LEMMA LetterTyped ==
  \A c \in {"[", "]", "{", "}", ",", ":"} : Letter(c) \in Int
  <1>1. Letter("[") \in Int
    <2>1. Letter("[") = 91
      BY Zenon DEF Letter
    <2>2. 91 \in Int
      OBVIOUS
    <2> QED
      BY <2>1, <2>2, Zenon
  <1>2. Letter("]") \in Int
    <2>1. Letter("]") = 93
      BY Zenon DEF Letter
    <2>2. 93 \in Int
      OBVIOUS
    <2> QED
      BY <2>1, <2>2, Zenon
  <1>3. Letter("{") \in Int
    <2>1. Letter("{") = 123
      BY Zenon DEF Letter
    <2>2. 123 \in Int
      OBVIOUS
    <2> QED
      BY <2>1, <2>2, Zenon
  <1>4. Letter("}") \in Int
    <2>1. Letter("}") = 125
      BY Zenon DEF Letter
    <2>2. 125 \in Int
      OBVIOUS
    <2> QED
      BY <2>1, <2>2, Zenon
  <1>5. Letter(",") \in Int
    <2>1. Letter(",") = 44
      BY Zenon DEF Letter
    <2>2. 44 \in Int
      OBVIOUS
    <2> QED
      BY <2>1, <2>2, Zenon
  <1>6. Letter(":") \in Int
    <2>1. Letter(":") = 58
      BY Zenon DEF Letter
    <2>2. 58 \in Int
      OBVIOUS
    <2> QED
      BY <2>1, <2>2, Zenon
  <1> QED
    BY <1>1, <1>2, <1>3, <1>4, <1>5, <1>6, Zenon

LEMMA SpelledTyped ==
  ASSUME NEW t \in Token
  PROVE  Spelled(t) \in Seq(Int)
  <1>1. CASE t.kind = "string"
    <2>1. t.chars \in Seq(Int)
      BY <1>1, TokenCases DEF Null
    <2>2. <<34>> \in Seq(Int)
      OBVIOUS
    <2>3. <<34>> \o t.chars \o <<34>> \in Seq(Int)
      BY <2>1, <2>2, ConcatProperties
    <2> QED
      BY <1>1, <2>3 DEF Spelled
  <1>2. CASE t.kind = "number"
    <2>1. t.halves \in Int
      BY <1>2, TokenCases DEF Null
    <2>2. Minus(t.halves) \in Seq(Int) /\ NumberText(Size(t.halves)) \in Seq(Int)
      BY <2>1, SizeTyped, NumberTyped
    <2>3. Minus(t.halves) \o NumberText(Size(t.halves)) \in Seq(Int)
      BY <2>2, ConcatProperties
    <2>4. Spelled(t) = Minus(t.halves) \o NumberText(Size(t.halves))
      BY <1>2 DEF Spelled
    <2> QED
      BY <2>3, <2>4, Zenon
  <1>3. CASE t.kind = "boolean"
    <2>1. TrueText \in Seq(Int) /\ FalseText \in Seq(Int)
      BY DEF TrueText, FalseText
    <2>2. Spelled(t) = IF t.truth THEN TrueText ELSE FalseText
      BY <1>3 DEF Spelled
    <2> QED
      BY <2>1, <2>2, Zenon
  <1>4. CASE t.kind = "null"
    <2>1. NullText \in Seq(Int)
      BY DEF NullText
    <2>2. Spelled(t) = NullText
      BY <1>4 DEF Spelled
    <2> QED
      BY <2>1, <2>2, Zenon
  <1>5. CASE t.kind \in {"[", "]", "{", "}", ",", ":"}
    <2>2. Spelled(t) = <<Letter(t.kind)>>
      BY <1>5 DEF Spelled
    <2>3. Letter(t.kind) \in Int
      BY <1>5, LetterTyped, Zenon
    <2>4. <<Letter(t.kind)>> \in Seq(Int)
      <3> DEFINE n == Letter(t.kind)
      <3>1. n \in Int
        BY <2>3
      <3> HIDE DEF n
      <3>2. <<n>> \in Seq(Int)
        BY <3>1
      <3> QED
        BY <3>2 DEF n
    <2> QED
      BY <2>2, <2>4, Zenon
  <1> QED
    BY <1>1, <1>2, <1>3, <1>4, <1>5, TokenCases, Zenon

LEMMA CharactersTyped ==
  ASSUME NEW text \in Seq(Token)
  PROVE  Characters(text) \in Seq(Int)
  <1> DEFINE seqs == [i \in DOMAIN text |-> Spelled(text[i])]
  <1>1. seqs \in Seq(Seq(Int))
    <2>1. \A i \in 1..Len(text) : Spelled(text[i]) \in Seq(Int)
      BY ElementOfSeq, SpelledTyped
    <2>2. DOMAIN text = 1..Len(text) /\ Len(text) \in Nat
      BY LenProperties
    <2>3. seqs = [i \in 1..Len(text) |-> Spelled(text[i])]
      BY <2>2
    <2>4. [i \in 1..Len(text) |-> Spelled(text[i])] \in Seq(Seq(Int))
      BY <2>1, <2>2
    <2> QED
      BY <2>3, <2>4
  <1>2. FlattenSeq(seqs) \in Seq(Int)
    <2> HIDE DEF seqs
    <2> QED
      BY <1>1, FlattenTyped
  <1> QED
    BY <1>2 DEF Characters

\* The text of a value is a sequence of tokens.
LEMMA DumpTyped ==
  ASSUME NEW v, IsValue(v)
  PROVE  Dump(v) \in Seq(Token) /\ v.kind \in Kinds
  <1>1. Null \in Token
    BY DEF Token, ScalarValues
  <1>2. <<Null>> \in Seq(Token)
    BY <1>1
  <1>3. CASE v \in ScalarValues
    <2>1. v \in Token /\ v.kind \in {"null", "boolean", "number", "string"}
      BY <1>3, ScalarCases
    <2>2. <<v>> \in Seq(Token)
      BY <2>1
    <2>3. Dump(v) = <<Null>> \/ Dump(v) = <<v>>
      BY <2>1 DEF Dump
    <2>4. v.kind \in Kinds
      BY <2>1 DEF Kinds
    <2> QED
      BY <1>2, <2>2, <2>3, <2>4, Zenon
  <1>4. CASE v.kind \in {"array", "object"} /\ v.dump \in Seq(Token)
    <2>1. v # Infinite
      BY <1>4 DEF Infinite, Number
    <2>2. Dump(v) = v.dump
      BY <1>4, <2>1 DEF Dump
    <2>3. v.kind \in Kinds
      BY <1>4 DEF Kinds
    <2> QED
      BY <1>4, <2>2, <2>3
  <1> QED
    BY <1>3, <1>4 DEF IsValue

\* Every value can be compared, compound values by the characters of their
\* text: CompareIsAnOrder and ConditionsAreComplementary are of all values
\* (store.cpp, rankOf and compareValues; json.hpp, dumpTo).
THEOREM ValuesComparable ==
  ASSUME NEW v, IsValue(v)
  PROVE  Comparable(v)
  <1>1. v.kind \in Kinds /\ Dump(v) \in Seq(Token)
    BY DumpTyped
  <1>2. CASE v \in ScalarValues
    <2>1. CASE v.kind = "null"
      <3>1. Weight(v) = <<>>
        BY <2>1 DEF Weight
      <3> QED
        BY <1>1, <3>1 DEF Comparable
    <2>2. CASE v.kind = "boolean"
      <3>1. Weight(v) = <<1>> \/ Weight(v) = <<0>>
        BY <2>2 DEF Weight
      <3>2. <<1>> \in Seq(Int) /\ <<0>> \in Seq(Int)
        OBVIOUS
      <3> QED
        BY <1>1, <3>1, <3>2 DEF Comparable
    <2>3. CASE v.kind = "number"
      <3>1. Weight(v) = <<v.halves>>
        BY <2>3 DEF Weight
      <3>2. v.halves \in Int
        BY <1>2, <2>3, ScalarCases DEF Null
      <3> QED
        BY <1>1, <3>1, <3>2 DEF Comparable
    <2>4. CASE v.kind = "string"
      <3>1. Weight(v) = v.chars
        BY <2>4 DEF Weight
      <3>2. v.chars \in Seq(Int)
        BY <1>2, <2>4, ScalarCases DEF Null
      <3> QED
        BY <1>1, <3>1, <3>2 DEF Comparable
    <2> QED
      BY <1>2, <2>1, <2>2, <2>3, <2>4, ScalarCases
  <1>3. CASE v.kind \in {"array", "object"}
    <2>1. Weight(v) = Characters(Dump(v))
      BY <1>3 DEF Weight
    <2> QED
      BY <1>1, <2>1, CharactersTyped DEF Comparable
  <1> QED
    BY <1>2, <1>3 DEF IsValue

----------------------------------------------------------------------------
(* index.search *)

LEMMA HitsAreWeak ==
  ASSUME Keyed(entries), \A k \in DOMAIN entries : entries[k] \in Int,
         NEW found, ToSet(found) \subseteq DOMAIN entries,
         NEW rel, rel = {p \in Pairs(found) : HitPrecedes(p[1], p[2])}
  PROVE  /\ Weak(rel, ToSet(found))
         /\ \A a, b \in ToSet(found) : <<a, b>> \in rel <=> HitPrecedes(a, b)
         /\ \A a, b \in ToSet(found) : a # b => HitPrecedes(a, b) \/ HitPrecedes(b, a)
  <1> DEFINE S == ToSet(found)
  <1>1. \A a \in S : a \in Seq(Int) /\ entries[a] \in Int
    BY DEF Keyed
  <1>2. \A a, b \in S : <<a, b>> \in rel <=> HitPrecedes(a, b)
    BY DEF Pairs
  <1> HIDE DEF S
  <1>3. \A a, b \in S : a # b => HitPrecedes(a, b) \/ HitPrecedes(b, a)
    BY <1>1, BeforeTotal DEF HitPrecedes
  <1>4. \A a, b \in S : HitPrecedes(a, b) => ~HitPrecedes(b, a)
    BY <1>1, BeforeAsymmetric DEF HitPrecedes
  <1>5. \A a, b, c \in S : HitPrecedes(a, b) /\ HitPrecedes(b, c) => HitPrecedes(a, c)
    BY <1>1, BeforeTransitive DEF HitPrecedes
  <1>6. Weak(rel, S)
    BY <1>2, <1>3, <1>4, <1>5 DEF Weak
  <1> QED
    BY <1>2, <1>3, <1>6 DEF S

\* The answers of vec0, in the order in which the engine sorts them.
LEMMA HitsInOrder ==
  ASSUME Keyed(entries), \A k \in DOMAIN entries : entries[k] \in Int,
         NEW found, NEW D, D \in SUBSET DOMAIN entries, found \in SetToSeqs(D)
  PROVE  /\ Len(Hits(found)) = Len(found) /\ Len(found) = Cardinality(D)
         /\ Hits(found) \in Seq(D) /\ ToSet(Hits(found)) = ToSet(found)
         /\ \A i, j \in 1..Len(Hits(found)) : i < j => HitPrecedes(Hits(found)[i], Hits(found)[j])
  <1> DEFINE n == Cardinality(D)
             S == ToSet(found)
             rel == {p \in Pairs(found) : HitPrecedes(p[1], p[2])}
             tie == {p \in S \X S : p[1] # p[2]}
             hits == StableSort(found, rel)
  <1>1. n \in Nat
    BY FS_Subset, FS_CardinalityType DEF Keyed
  <1>2. found \in [1..n -> D] /\ \A i, j \in 1..n : i # j => found[i] # found[j]
    BY DEF SetToSeqs
  <1>3. found \in Seq(D) /\ Len(found) = n /\ DOMAIN found = 1..n
    <2> HIDE DEF n
    <2> QED
      BY <1>1, <1>2
  <1>4. S = {found[i] : i \in 1..n} /\ S \subseteq D
    BY <1>2, <1>3, Zenon DEF ToSet
  <1>5. found \in Seq(S)
    <2>1. found \in [1..n -> S]
      BY <1>2, <1>4
    <2> HIDE DEF S, n
    <2> QED
      BY <1>1, <2>1
  <1>6. \A i, j \in 1..Len(found) : i < j => <<found[i], found[j]>> \in tie
    BY <1>1, <1>2, <1>3, <1>4
  <1>7. S \subseteq DOMAIN entries
    BY <1>4
  <1> HIDE DEF n, rel
  <1>8. /\ Weak(rel, S)
        /\ \A a, b \in S : <<a, b>> \in rel <=> HitPrecedes(a, b)
        /\ \A a, b \in S : a # b => HitPrecedes(a, b) \/ HitPrecedes(b, a)
    BY <1>7, HitsAreWeak DEF rel
  <1> HIDE DEF tie, S
  <1>9. /\ hits \in Seq(S) /\ Len(hits) = Len(found) /\ ToSet(hits) = ToSet(found)
        /\ Ascending(hits, rel, tie)
    BY <1>5, <1>6, <1>8, SortsStably
  <1>10. Hits(found) = hits
    BY DEF Hits, rel
  <1> HIDE DEF hits
  <1>11. ASSUME NEW i \in 1..Len(hits), NEW j \in 1..Len(hits), i < j
         PROVE  HitPrecedes(hits[i], hits[j])
    <2>1. hits[i] \in S /\ hits[j] \in S
      BY <1>9, ElementOfSeq
    <2>2. Ahead(rel, tie, hits[i], hits[j])
      BY <1>9, <1>11 DEF Ascending
    <2>3. <<hits[i], hits[j]>> \in tie => hits[i] # hits[j]
      BY DEF tie
    <2> QED
      BY <1>8, <2>1, <2>2, <2>3 DEF Ahead
  <1>12. hits \in Seq(D)
    BY <1>4, <1>9, SeqMonotonic
  <1> QED
    BY <1>3, <1>9, <1>10, <1>11, <1>12 DEF n

\* What a search needs of the index, and what it answers.
EntriesTyped == Keyed(entries) /\ \A k \in DOMAIN entries : entries[k] \in Int

LEMMA IntsAreIntegers ==
  ASSUME NEW v, IsValue(v)
  PROVE  Ints(v) \subseteq Int
  <1>1. CASE v.kind = "number"
    <2>1. v.halves \in Int
      BY <1>1, ScalarCases DEF IsValue, Null
    <2> QED
      BY <1>1, <2>1 DEF Ints
  <1>2. CASE v.kind # "number"
    BY <1>2 DEF Ints, Infinite, Number
  <1> QED
    BY <1>1, <1>2

\* A sequence without repetition is as long as the set of its elements.
LEMMA DistinctCounted ==
  ASSUME NEW S, NEW s \in Seq(S), \A i, j \in 1..Len(s) : i < j => s[i] # s[j]
  PROVE  IsFiniteSet(ToSet(s)) /\ Cardinality(ToSet(s)) = Len(s)
  <1> DEFINE n == Len(s)
             T == ToSet(s)
  <1>1. n \in Nat /\ DOMAIN s = 1..n
    BY LenProperties
  <1>2. T = {s[i] : i \in 1..n}
    BY <1>1, Zenon DEF ToSet
  <1>3. s \in [1..n -> T]
    <2>1. s = [i \in 1..n |-> s[i]]
      BY <1>1, LenProperties
    <2> QED
      BY <1>2, <2>1
  <1>4. IsInjective(s)
    <2>1. \A i, j \in 1..n : s[i] = s[j] => i = j
      BY <1>1
    <2> QED
      BY <1>1, <2>1, Zenon DEF IsInjective
  <1>5. \A t \in T : \E i \in 1..n : s[i] = t
    BY <1>2
  <1> HIDE DEF n, T
  <1>6. s \in Bijection(1..n, T)
    BY <1>3, <1>4, <1>5 DEF Bijection, Injection, Surjection
  <1>7. ExistsBijection(1..n, T)
    BY <1>6 DEF ExistsBijection
  <1>8. IsFiniteSet(T)
    BY <1>1, <1>7, FS_NatBijection
  <1>9. Cardinality(T) = n
    BY <1>1, <1>7, FS_CountingElements
  <1> QED
    BY <1>8, <1>9 DEF n, T

\* Asked for too many, vec0 answers the one sequence of no entries.
LEMMA NoneNearest ==
  ASSUME NEW D, IsFiniteSet(D)
  PROVE  <<>> \in SetToAllKPermutations(D) /\ DOMAIN <<>> = {}
  <1>1. {} \in SUBSET D
    OBVIOUS
  <1>2. Cardinality({}) = 0
    BY FS_EmptySet
  <1>3. <<>> \in SetToSeqs({})
    BY <1>2 DEF SetToSeqs
  <1> QED
    BY <1>1, <1>3 DEF SetToAllKPermutations

\* Wherever the reading of neighbours ends, it has those nearest.
LEMMA ReadsNearest ==
  ASSUME EntriesTyped, NEW E, E \in SUBSET DOMAIN entries, NEW found \in SetToSeqs(E),
         \A i \in DOMAIN found :
           /\ \A j \in 1..(i - 1) : entries[found[j]] <= entries[found[i]]
           /\ \A e \in DOMAIN entries \ ToSet(found) : entries[found[i]] <= entries[e],
         NEW read \in Reads(found)
  PROVE  \E F \in SUBSET E :
           /\ read \in SetToSeqs(F)
           /\ \A i \in DOMAIN read : i \in DOMAIN found /\ read[i] = found[i]
           /\ \A i \in DOMAIN read, e \in DOMAIN entries \ ToSet(read) : entries[read[i]] <= entries[e]
  <1> DEFINE n == Cardinality(E)
  <1>1. n \in Nat /\ IsFiniteSet(E)
    BY FS_Subset, FS_CardinalityType DEF EntriesTyped, Keyed
  <1>2. found \in [1..n -> E] /\ \A i, j \in 1..n : i # j => found[i] # found[j]
    BY DEF SetToSeqs
  <1> HIDE DEF n
  <1>3. Len(found) = n /\ DOMAIN found = 1..n /\ found \in Seq(E)
    BY <1>1, <1>2
  <1>4. PICK l \in 0..n : read = SubSeq(found, 1, l)
    <2>1. CASE read = SubSeq(found, 1, n)
      BY <1>1, <2>1
    <2>2. SubSeq(found, 1, n) = found
      BY <1>1, <1>2, <1>3
    <2>3. Reads(found) \subseteq Prefixes(found) \cup {found}
      BY Zenon DEF Reads
    <2> QED
      BY <1>3, <2>1, <2>2, <2>3 DEF Prefixes
  <1>5. l \in Nat /\ l <= n /\ \A i \in 1..l : i \in 1..n
    BY <1>1
  <1>6. read = [i \in 1..l |-> found[i]]
    BY <1>3, <1>4, <1>5
  <1> DEFINE F == {found[i] : i \in 1..l}
  <1>7. F \in SUBSET E
    BY <1>2, <1>5
  <1>8. ToSet(read) = F /\ DOMAIN read = 1..l /\ \A i \in 1..l : read[i] = found[i]
    BY <1>6 DEF ToSet
  <1>9. Cardinality(F) = l
    <2>1. read \in Seq(F) /\ Len(read) = l
      BY <1>5, <1>6
    <2>2. \A i, j \in 1..Len(read) : i < j => read[i] # read[j]
      BY <1>2, <1>5, <1>8, <2>1
    <2> HIDE DEF F
    <2> QED
      BY <1>8, <2>1, <2>2, DistinctCounted
  <1>10. read \in SetToSeqs(F)
    <2>1. read \in [1..l -> F]
      BY <1>6
    <2>2. \A i, j \in 1..l : i # j => read[i] # read[j]
      BY <1>2, <1>5, <1>8
    <2> HIDE DEF F
    <2> QED
      BY <1>9, <2>1, <2>2 DEF SetToSeqs
  <1>11. ASSUME NEW i \in DOMAIN read, NEW e \in DOMAIN entries \ ToSet(read)
         PROVE  entries[read[i]] <= entries[e]
    <2>1. i \in 1..l /\ read[i] = found[i] /\ i \in DOMAIN found
      BY <1>3, <1>5, <1>8
    <2>2. CASE e \notin ToSet(found)
      BY <2>1, <2>2
    <2>3. CASE e \in ToSet(found)
      <3>1. PICK k \in 1..n : e = found[k]
        BY <1>3, <2>3 DEF ToSet
      <3>2. ~(k <= l)
        <4> SUFFICES ASSUME k <= l PROVE FALSE
          OBVIOUS
        <4>1. k \in 1..l
          BY <1>1, <1>5
        <4>2. e \in ToSet(read)
          BY <1>8, <3>1, <4>1
        <4> QED
          BY <4>2
      <3>3. k \in DOMAIN found /\ i \in 1..(k - 1)
        BY <1>3, <1>5, <2>1, <3>2
      <3> QED
        BY <2>1, <3>1, <3>3
    <2> QED
      BY <2>2, <2>3
  <1> QED
    BY <1>3, <1>5, <1>7, <1>8, <1>10, <1>11

\* What a search answers, of any entries and any k.
LEMMA SearchIsExact ==
  ASSUME EntriesTyped, NEW count \in Counts, Search(count)
  PROVE  SearchExact'
  <1>1. PICK k \in Ints(count) : \E found \in Nearest(Wanted(k)) :
              \E read \in Reads(found) :
                answer' = [op |-> "search", wanted |-> Wanted(k), failed |-> read # found,
                           hits |-> Hits(read)]
    BY DEF Search, Answers
  <1>2. PICK found \in Nearest(Wanted(k)) : \E read \in Reads(found) :
                answer' = [op |-> "search", wanted |-> Wanted(k), failed |-> read # found,
                           hits |-> Hits(read)]
    BY <1>1
  <1>3. PICK read \in Reads(found) :
                answer' = [op |-> "search", wanted |-> Wanted(k), failed |-> read # found,
                           hits |-> Hits(read)]
    BY <1>2
  <1> DEFINE D == DOMAIN entries
             w == Wanted(k)
  <1>4. entries' = entries
    BY DEF Search
  <1>5. w \in Int /\ Cardinality(D) \in Nat
    <2>1. k \in Int
      BY CountsAssumption, IntsAreIntegers
    <2>2. Cardinality(D) \in Nat
      BY FS_CardinalityType DEF EntriesTyped, Keyed
    <2> QED
      BY <2>1, <2>2 DEF Wanted
  <1> HIDE DEF w
  <1>6. answer'.wanted = w /\ (~answer'.failed => read = found) /\ answer'.hits = Hits(read)
    BY <1>3 DEF w
  <1>7. /\ found \in SetToAllKPermutations(D)
        /\ w <= MaxK => Len(found) = Min({w, Cardinality(D)})
        /\ \A i \in DOMAIN found :
             /\ \A j \in 1..(i - 1) : entries[found[j]] <= entries[found[i]]
             /\ \A e \in D \ ToSet(found) : entries[found[i]] <= entries[e]
    <2>1. found \in Nearest(w)
      BY <1>2 DEF w
    <2>2. CASE w > MaxK
      <3>1. found = <<>>
        BY <2>1, <2>2, Zenon DEF Nearest
      <3>2. found \in SetToAllKPermutations(D) /\ DOMAIN found = {}
        BY <3>1, NoneNearest, FS_Subset DEF EntriesTyped, Keyed
      <3>3. ~(w <= MaxK)
        BY <1>5, <2>2, MaxKAssumption
      <3> QED
        BY <3>2, <3>3
    <2>3. CASE ~(w > MaxK)
      BY <2>1, <2>3 DEF Nearest
    <2> QED
      BY <2>2, <2>3
  <1>8. PICK E \in SUBSET D : found \in SetToSeqs(E)
    BY <1>7 DEF SetToAllKPermutations
  <1>9. PICK F \in SUBSET E :
           /\ read \in SetToSeqs(F)
           /\ \A i \in DOMAIN read : i \in DOMAIN found /\ read[i] = found[i]
           /\ \A i \in DOMAIN read, e \in D \ ToSet(read) : entries[read[i]] <= entries[e]
    BY <1>3, <1>7, <1>8, ReadsNearest
  <1> DEFINE hits == Hits(read)
  <1>10. /\ Len(hits) = Len(read) /\ hits \in Seq(F) /\ ToSet(hits) = ToSet(read)
         /\ \A i, j \in 1..Len(hits) : i < j => HitPrecedes(hits[i], hits[j])
    BY <1>8, <1>9, HitsInOrder DEF EntriesTyped
  <1> HIDE DEF hits
  <1>11. DOMAIN hits = 1..Len(hits)
    BY <1>10, LenProperties
  <1>12. ToSet(hits) \subseteq D
    <2>1. \A i \in DOMAIN hits : hits[i] \in F
      BY <1>10, <1>11, ElementOfSeq
    <2> QED
      BY <1>8, <1>9, <2>1, Zenon DEF ToSet
  <1>13. ASSUME NEW i \in DOMAIN hits, NEW e \in D \ ToSet(hits)
         PROVE  entries[hits[i]] <= entries[e]
    <2>1. hits[i] \in ToSet(read)
      BY <1>10 DEF ToSet
    <2>2. PICK m \in DOMAIN read : hits[i] = read[m]
      BY <2>1 DEF ToSet
    <2> QED
      BY <1>9, <1>10, <2>2
  <1>14. \A i, j \in DOMAIN hits : i < j => HitPrecedes(hits[i], hits[j])
    BY <1>10, <1>11
  <1>15. ~answer'.failed /\ w <= MaxK => Len(hits) = Min({w, Cardinality(D)})
    BY <1>6, <1>7, <1>10
  <1>16. answer'.hits = hits
    BY <1>6 DEF hits
  <1>17. SUFFICES
           /\ ToSet(answer'.hits) \subseteq D
           /\ \A i, j \in DOMAIN answer'.hits :
                i < j => HitPrecedes(answer'.hits[i], answer'.hits[j])
           /\ \A i \in DOMAIN answer'.hits, e \in D \ ToSet(answer'.hits) :
                entries[answer'.hits[i]] <= entries[e]
           /\ ~answer'.failed /\ answer'.wanted <= MaxK =>
                Len(answer'.hits) = Min({answer'.wanted, Cardinality(D)})
    BY <1>4 DEF SearchExact, HitPrecedes
  <1> QED
    BY <1>6, <1>12, <1>13, <1>14, <1>15, <1>16

\* What a query computes of the rows it has read.
MeetsOf(read, q) ==
  [c \in ToSet(q.where) |->
     {r \in ToSet(read) : matchesCondition(Field(r.value, c.field), c.op, c.operand)}]

PrecedesOf(read, q) ==
  [c \in ToSet(q.order) |-> {p \in Pairs(read) : ClausePrecedes(c, p[1], p[2])}]

LeftOf(read, q) == Filtered(read, Conditions(q.where), MeetsOf(read, q))

\* The answer of Query in these terms.
LEMMA QueryAnswers ==
  ASSUME NEW q, Query(q)
  PROVE  \E read \in Reads(Selected) :
           IF LeftOf(read, q).refused
           THEN answer' = [op |-> "query", query |-> q, read |-> read, ok |-> FALSE]
           ELSE \E found \in Limited(Ordered(LeftOf(read, q).rows, q.order, PrecedesOf(read, q)), q.limit) :
                  answer' = [op |-> "query", query |-> q, read |-> read, ok |-> TRUE, rows |-> found]
  BY Zenon DEF Query, Answers, MeetsOf, PrecedesOf, LeftOf

LEMMA QueryIdle ==
  ASSUME NEW q, Query(q)
  PROVE  call' = Idle /\ rows' = rows
  <1>1. rows' = rows
    BY Zenon DEF Query
  <1>2. call' = Idle
    BY Zenon DEF Query, Answers
  <1> QED
    BY <1>1, <1>2

LEMMA QueryIsNoSearch ==
  ASSUME NEW q, Query(q)
  PROVE  answer'.op = "query"
  <1>1. PICK read \in Reads(Selected) :
           IF LeftOf(read, q).refused
           THEN answer' = [op |-> "query", query |-> q, read |-> read, ok |-> FALSE]
           ELSE \E found \in Limited(Ordered(LeftOf(read, q).rows, q.order, PrecedesOf(read, q)), q.limit) :
                  answer' = [op |-> "query", query |-> q, read |-> read, ok |-> TRUE, rows |-> found]
    BY QueryAnswers
  <1> QED
    BY <1>1

SearchInv == EntriesTyped /\ SearchExact

LEMMA SearchKept ==
  ASSUME SearchInv, [Next]_vars
  PROVE  SearchInv'
  <1>1. EntriesTyped'
    <2>1. entries' = entries
      BY DEF Next, vars, Return, BeginPut, Type, InvalidRequest, Put, Get, Query, Search
    <2> QED
      BY <2>1 DEF SearchInv, EntriesTyped
  <1>2. SearchExact'
    <2>1. ASSUME answer' = answer, entries' = entries PROVE SearchExact'
      BY <2>1 DEF SearchInv, SearchExact, HitPrecedes
    <2>2. ASSUME answer'.op # "search" PROVE SearchExact'
      BY <2>2 DEF SearchExact
    <2>3. CASE Return
      <3>1. answer'.op # "search"
        BY <2>3 DEF Return, Silent
      <3> QED
        BY <2>2, <3>1
    <2>4. CASE BeginPut \/ Type \/ UNCHANGED vars
      BY <2>1, <2>4 DEF BeginPut, Type, vars
    <2>5. CASE InvalidRequest \/ (\E k \in PutKeys : Put(k)) \/ (\E k \in DOMAIN rows : Get(k))
      <3>1. answer'.op # "search"
        BY <2>5 DEF InvalidRequest, Put, Get, Answers
      <3> QED
        BY <2>2, <3>1
    <2>6. CASE \E q \in Queries : Query(q)
      <3>1. answer'.op # "search"
        BY <2>6, QueryIsNoSearch
      <3> QED
        BY <2>2, <3>1
    <2>7. CASE \E c \in Counts : Search(c)
      BY <2>7, SearchIsExact DEF SearchInv
    <2> QED
      BY <2>3, <2>4, <2>5, <2>6, <2>7 DEF Next
  <1> QED
    BY <1>1, <1>2 DEF SearchInv

\* For any index and any k, and wherever the reading ends, a search answers
\* entries of the index, nearest first and then by key, and leaves out none that
\* is nearer than one it answers; of at most MaxK that are wanted it answers as
\* many as there are, unless the reading failed (store.cpp, index.search).
THEOREM SearchesAreExact == Spec => []SearchExact
  <1>1. Init => SearchInv
    <2>1. ASSUME Init PROVE EntriesTyped
      <3>1. CASE entries \in Entries
        BY <3>1, EntriesAssumption DEF EntriesTyped
      <3>2. CASE entries = <<>>
        <4>1. DOMAIN entries = {}
          BY <3>2
        <4> QED
          BY <4>1, FS_EmptySet DEF EntriesTyped, Keyed
      <3> QED
        BY <2>1, <3>1, <3>2 DEF Init
    <2>2. ASSUME Init PROVE SearchExact
      BY <2>2 DEF Init, SearchExact, Silent
    <2> QED
      BY <2>1, <2>2 DEF SearchInv
  <1>2. SearchInv /\ [Next]_vars => SearchInv'
    BY SearchKept
  <1>3. SearchInv => SearchExact
    BY DEF SearchInv
  <1> QED
    BY <1>1, <1>2, <1>3, PTL DEF Spec

----------------------------------------------------------------------------
(* Names in order *)

LEMMA SetInSequence ==
  ASSUME NEW S, IsFiniteSet(S)
  PROVE  /\ SetToSeq(S) \in Seq(S) /\ Len(SetToSeq(S)) = Cardinality(S)
         /\ ToSet(SetToSeq(S)) = S
         /\ \A i, j \in 1..Cardinality(S) : i < j => SetToSeq(S)[i] # SetToSeq(S)[j]
  <1> DEFINE n == Cardinality(S)
             s == SetToSeq(S)
  <1>1. n \in Nat
    BY FS_CardinalityType
  <1>2. \E f \in [1..n -> S] : IsInjective(f)
    <2>1. PICK m \in Nat : ExistsBijection(1..m, S)
      BY FS_NatBijection
    <2>2. n = m
      BY <2>1, FS_CountingElements
    <2> QED
      BY <2>1, <2>2 DEF ExistsBijection, Bijection, Injection
  <1>3. s \in [1..n -> S] /\ IsInjective(s)
    BY <1>2, Zenon DEF SetToSeq
  <1> HIDE DEF s
  <1>4. s \in Seq(S) /\ Len(s) = n /\ DOMAIN s = 1..n
    <2> HIDE DEF n
    <2> QED
      BY <1>1, <1>3
  <1>5. \A i, j \in 1..n : i < j => s[i] # s[j]
    BY <1>1, <1>3, <1>4 DEF IsInjective
  <1>6. Cardinality(ToSet(s)) = n
    <2> HIDE DEF n
    <2> QED
      BY <1>4, <1>5, DistinctCounted
  <1>7. ToSet(s) \subseteq S
    BY <1>3, <1>4 DEF ToSet
  <1>8. ToSet(s) = S
    BY <1>6, <1>7, FS_Subset
  <1> QED
    BY <1>4, <1>5, <1>8 DEF s

\* The names of a std::map, and the keys of a SELECT: each once, ascending.
LEMMA NamesInOrder ==
  ASSUME NEW names \in SUBSET Seq(Int), IsFiniteSet(names)
  PROVE  /\ InOrder(names) \in Seq(names) /\ ToSet(InOrder(names)) = names
         /\ \A i, j \in 1..Len(InOrder(names)) : i < j => Before(InOrder(names)[i], InOrder(names)[j])
  <1> DEFINE rel == {p \in names \X names : Before(p[1], p[2])}
             tie == {p \in names \X names : p[1] # p[2]}
             list == SetToSeq(names)
             s == StableSort(list, rel)
  <1>1. /\ list \in Seq(names) /\ ToSet(list) = names
        /\ \A i, j \in 1..Len(list) : i < j => list[i] # list[j]
    BY SetInSequence
  <1>2. \A a, b \in names : <<a, b>> \in rel <=> Before(a, b)
    OBVIOUS
  <1>3. Weak(rel, names)
    <2> HIDE DEF rel
    <2>1. \A a, b \in names : Before(a, b) => ~Before(b, a)
      BY BeforeAsymmetric
    <2>2. \A a, b, c \in names : Before(a, b) /\ Before(b, c) => Before(a, c)
      BY BeforeTransitive
    <2>3. \A a, b \in names : a # b => Before(a, b) \/ Before(b, a)
      BY BeforeTotal
    <2> QED
      BY <1>2, <2>1, <2>2, <2>3 DEF Weak
  <1>4. \A i, j \in 1..Len(list) : i < j => <<list[i], list[j]>> \in tie
    BY <1>1, ElementOfSeq
  <1> HIDE DEF list, rel, tie
  <1>5. s \in Seq(names) /\ ToSet(s) = names /\ Ascending(s, rel, tie)
    BY <1>1, <1>3, <1>4, SortsStably
  <1>6. InOrder(names) = s
    BY DEF InOrder, list, rel
  <1> HIDE DEF s
  <1>7. ASSUME NEW i \in 1..Len(s), NEW j \in 1..Len(s), i < j PROVE Before(s[i], s[j])
    <2>1. s[i] \in names /\ s[j] \in names
      BY <1>5, ElementOfSeq
    <2>2. Ahead(rel, tie, s[i], s[j])
      BY <1>5, <1>7 DEF Ascending
    <2>3. <<s[i], s[j]>> \in tie => s[i] # s[j]
      BY DEF tie
    <2> QED
      BY <1>2, <2>1, <2>2, <2>3, BeforeTotal DEF Ahead
  <1> QED
    BY <1>5, <1>6, <1>7

----------------------------------------------------------------------------
(* What the parser makes *)

LEMMA JoinedTyped ==
  ASSUME NEW s \in Seq(Token), NEW t \in Seq(Token)
  PROVE  Joined(s, t) \in Seq(Token)
  <1>1. Mark(",") \in Token
    BY Zenon DEF Token, Marks
  <1> DEFINE comma == Mark(",")
  <1>2. comma \in Token
    BY <1>1
  <1>3. Joined(s, t) = IF s = <<>> THEN t ELSE s \o <<comma>> \o t
    BY Zenon DEF Joined
  <1> HIDE DEF comma
  <1>4. <<comma>> \in Seq(Token)
    BY <1>2
  <1>5. s \o <<comma>> \o t \in Seq(Token)
    BY <1>4, ConcatProperties
  <1> QED
    BY <1>3, <1>5, Zenon

LEMMA SeparatedTyped ==
  ASSUME NEW list \in Seq(Seq(Token))
  PROVE  Separated(list) \in Seq(Token)
  <1>1. PICK g : /\ g[0] = <<>>
                 /\ \A k \in 0..(Len(list) - 1) : g[k + 1] = Joined(g[k], list[k + 1])
                 /\ Separated(list) = g[Len(list)]
    BY TextSteps
  <1> DEFINE T == {k \in Nat : k <= Len(list) => g[k] \in Seq(Token)}
  <1>2. 0 \in T
    <2>1. <<>> \in Seq(Token)
      OBVIOUS
    <2> QED
      BY <1>1, <2>1
  <1>3. ASSUME NEW k \in Nat, k \in T PROVE k + 1 \in T
    <2>1. SUFFICES ASSUME k + 1 <= Len(list) PROVE g[k + 1] \in Seq(Token)
      OBVIOUS
    <2>2. k \in 0..(Len(list) - 1) /\ k + 1 \in 1..Len(list) /\ k <= Len(list)
      BY <2>1, LenProperties
    <2>3. g[k] \in Seq(Token)
      BY <1>3, <2>2
    <2>4. list[k + 1] \in Seq(Token)
      BY <2>2, ElementOfSeq
    <2>5. Joined(g[k], list[k + 1]) \in Seq(Token)
      BY <2>3, <2>4, JoinedTyped
    <2> QED
      BY <1>1, <2>2, <2>5
  <1>4. Len(list) \in T
    <2> HIDE DEF T
    <2> QED
      BY <1>2, <1>3, SetInduction, LenProperties
  <1> QED
    BY <1>1, <1>4, LenProperties

Values(s) == Sequence(s) /\ \A i \in 1..Len(s) : IsValue(s[i])
Members(f) == Keyed(f) /\ \A n \in DOMAIN f : IsValue(f[n])

\* A value whose members are values too.
Regular(v) == IsValue(v) /\ (v.kind = "object" => Members(v.fields))

LEMMA ArrayTyped ==
  ASSUME NEW items, Values(items)
  PROVE  Regular(Array(items))
  <1> DEFINE texts == [i \in DOMAIN items |-> Dump(items[i])]
             opening == Mark("[")
             closing == Mark("]")
  <1>1. texts \in Seq(Seq(Token))
    <2>1. DOMAIN items = 1..Len(items) /\ Len(items) \in Nat
      BY LenProperties DEF Values, Sequence
    <2>2. \A i \in 1..Len(items) : Dump(items[i]) \in Seq(Token)
      BY DumpTyped DEF Values
    <2>3. [i \in 1..Len(items) |-> Dump(items[i])] \in Seq(Seq(Token))
      BY <2>1, <2>2
    <2> QED
      BY <2>1, <2>3
  <1> HIDE DEF texts
  <1>2. opening \in Token /\ closing \in Token
    BY Zenon DEF Token, Marks
  <1>3. Array(items).dump = <<opening>> \o Separated(texts) \o <<closing>>
    BY DEF Array, texts
  <1>4. Array(items).kind = "array"
    BY DEF Array
  <1> HIDE DEF opening, closing
  <1>5. <<opening>> \in Seq(Token) /\ <<closing>> \in Seq(Token)
    BY <1>2
  <1>6. <<opening>> \o Separated(texts) \o <<closing>> \in Seq(Token)
    BY <1>1, <1>5, SeparatedTyped, ConcatProperties
  <1> QED
    BY <1>3, <1>4, <1>6 DEF Regular, IsValue

LEMMA ObjectTyped ==
  ASSUME NEW fields, Members(fields)
  PROVE  Regular(Object(fields))
  <1> DEFINE names == InOrder(DOMAIN fields)
             colon == Mark(":")
             opening == Mark("{")
             closing == Mark("}")
             member(n) == <<String(n), colon>> \o Dump(fields[n])
             texts == [i \in DOMAIN names |-> member(names[i])]
             o == Object(fields)
  <1>1. names \in Seq(DOMAIN fields) /\ DOMAIN fields \subseteq Seq(Int)
    BY NamesInOrder DEF Members, Keyed
  <1>2. colon \in Token /\ opening \in Token /\ closing \in Token
    BY Zenon DEF Token, Marks
  <1>3. o.kind = "object" /\ o.fields = fields /\ o.dump = <<opening>> \o Separated(texts) \o <<closing>>
    BY Zenon DEF Object
  <1> HIDE DEF colon, opening, closing, o, names
  <1>4. ASSUME NEW n \in DOMAIN fields PROVE member(n) \in Seq(Token)
    <2>1. String(n) \in Token
      BY <1>1 DEF String, Token, ScalarValues
    <2>2. <<String(n), colon>> \in Seq(Token)
      BY <1>2, <2>1
    <2>3. Dump(fields[n]) \in Seq(Token)
      BY DumpTyped DEF Members
    <2> QED
      BY <2>2, <2>3, ConcatProperties
  <1>5. texts \in Seq(Seq(Token))
    <2> HIDE DEF member
    <2>1. DOMAIN names = 1..Len(names) /\ Len(names) \in Nat
      BY <1>1, LenProperties
    <2>2. \A i \in 1..Len(names) : member(names[i]) \in Seq(Token)
      BY <1>1, <1>4, ElementOfSeq
    <2>3. [i \in 1..Len(names) |-> member(names[i])] \in Seq(Seq(Token))
      BY <2>1, <2>2
    <2> QED
      BY <2>1, <2>3
  <1> HIDE DEF texts
  <1>6. <<opening>> \in Seq(Token) /\ <<closing>> \in Seq(Token)
    BY <1>2
  <1>7. <<opening>> \o Separated(texts) \o <<closing>> \in Seq(Token)
    BY <1>5, <1>6, SeparatedTyped, ConcatProperties
  <1> QED
    BY <1>3, <1>7 DEF Regular, IsValue, o

\* What is open: an array or an object, with what it holds so far.
OpenArray(e) == \E items : Values(items) /\ e = [kind |-> "array", items |-> items]
OpenObject(e) ==
  \E fields, name :
    Members(fields) /\ name \in Seq(Int) /\ e = [kind |-> "object", fields |-> fields, name |-> name]
Open(e) == OpenArray(e) \/ OpenObject(e)
Stack(s) == Sequence(s) /\ \A i \in 1..Len(s) : Open(s[i])

Inside == {"first value", "first name", "name", "colon", "more"}

ParserTyped(p) ==
  /\ Stack(p.stack)
  /\ p.want \in Inside => p.stack # <<>>
  /\ p.want \in {"first name", "name"} => OpenObject(Last(p.stack))
  /\ p.want = "end" => Regular(p.value)

LEMMA LastAndFront ==
  ASSUME NEW s, Sequence(s), s # <<>>
  PROVE  /\ Len(s) \in Nat /\ Len(s) \in 1..Len(s)
         /\ Sequence(Front(s)) /\ Len(Front(s)) = Len(s) - 1
         /\ \A i \in 1..Len(Front(s)) : i \in 1..Len(s) /\ Front(s)[i] = s[i]
  <1>1. PICK S : s \in Seq(S)
    BY DEF Sequence
  <1>2. Len(s) \in Nat /\ Len(s) > 0
    BY <1>1, EmptySeq, LenProperties
  <1>3. \A i \in 1..(Len(s) - 1) : s[i] \in S
    BY <1>1, <1>2, ElementOfSeq
  <1> DEFINE n == Len(s) - 1
  <1>4. n \in Int /\ 1 \in Int
    BY <1>2
  <1>5. Front(s) = SubSeq(s, 1, n)
    BY DEF Front
  <1> HIDE DEF n
  <1>6. /\ SubSeq(s, 1, n) \in Seq(S)
        /\ Len(SubSeq(s, 1, n)) = IF 1 <= n THEN n - 1 + 1 ELSE 0
        /\ \A i \in 1..(n - 1 + 1) : SubSeq(s, 1, n)[i] = s[1 + i - 1]
    BY <1>3, <1>4, SubSeqProperties DEF n
  <1>7. n = Len(s) - 1
    BY DEF n
  <1>8. \A i \in 1..n : SubSeq(s, 1, n)[i] = s[i]
    BY <1>4, <1>6
  <1>9. Len(SubSeq(s, 1, n)) = n
    BY <1>2, <1>4, <1>6, <1>7
  <1>10. Sequence(Front(s))
    BY <1>5, <1>6 DEF Sequence
  <1> QED
    BY <1>2, <1>5, <1>7, <1>8, <1>9, <1>10

LEMMA AppendedElements ==
  ASSUME NEW s, Sequence(s), NEW e
  PROVE  /\ Sequence(Append(s, e)) /\ Len(Append(s, e)) = Len(s) + 1 /\ Len(s) \in Nat
         /\ \A i \in 1..Len(s) : Append(s, e)[i] = s[i]
         /\ Append(s, e)[Len(s) + 1] = e /\ Last(Append(s, e)) = e /\ Append(s, e) # <<>>
  <1>1. PICK S : s \in Seq(S)
    BY DEF Sequence
  <1>2. s \in Seq(S \cup {e}) /\ e \in S \cup {e}
    BY <1>1, SeqMonotonic
  <1>3. /\ Append(s, e) \in Seq(S \cup {e}) /\ Len(Append(s, e)) = Len(s) + 1 /\ Append(s, e) # <<>>
        /\ \A i \in 1..Len(s) : Append(s, e)[i] = s[i]
        /\ Append(s, e)[Len(s) + 1] = e
    BY <1>2, AppendProperties
  <1>4. Len(s) \in Nat
    BY <1>1, LenProperties
  <1> QED
    BY <1>3, <1>4 DEF Sequence, Last

LEMMA StackGrows ==
  ASSUME NEW s, Stack(s), NEW e, Open(e)
  PROVE  Stack(Append(s, e)) /\ Append(s, e) # <<>> /\ Last(Append(s, e)) = e
  <1>1. \A i \in 1..Len(Append(s, e)) : Open(Append(s, e)[i])
    <2> TAKE i \in 1..Len(Append(s, e))
    <2>1. i \in 1..Len(s) \/ i = Len(s) + 1
      BY AppendedElements DEF Stack
    <2> QED
      BY <2>1, AppendedElements DEF Stack
  <1> QED
    BY <1>1, AppendedElements DEF Stack

LEMMA StackShrinks ==
  ASSUME NEW s, Stack(s), s # <<>>
  PROVE  Stack(Front(s)) /\ Open(Last(s))
  BY LastAndFront DEF Stack, Last

LEMMA ValuesGrow ==
  ASSUME NEW s, Values(s), NEW v, IsValue(v)
  PROVE  Values(Append(s, v))
  <1>1. \A i \in 1..Len(Append(s, v)) : IsValue(Append(s, v)[i])
    <2> TAKE i \in 1..Len(Append(s, v))
    <2>1. i \in 1..Len(s) \/ i = Len(s) + 1
      BY AppendedElements DEF Values
    <2> QED
      BY <2>1, AppendedElements DEF Values
  <1> QED
    BY <1>1, AppendedElements DEF Values

LEMMA MembersGrow ==
  ASSUME NEW f, Members(f), NEW n \in Seq(Int), NEW v, IsValue(v)
  PROVE  Members(Updated(f, n, v))
  <1>1. DOMAIN Updated(f, n, v) = DOMAIN f \cup {n}
    BY DEF Updated
  <1>2. IsFiniteSet(DOMAIN f \cup {n})
    BY FS_AddElement DEF Members, Keyed
  <1>3. \A k \in DOMAIN f \cup {n} : IsValue(Updated(f, n, v)[k])
    <2> TAKE k \in DOMAIN f \cup {n}
    <2>1. Updated(f, n, v)[k] = IF k = n THEN v ELSE f[k]
      BY DEF Updated
    <2> QED
      BY <2>1 DEF Members
  <1> QED
    BY <1>1, <1>2, <1>3 DEF Members, Keyed

LEMMA NoMembers == Members(<<>>) /\ Values(<<>>)
  <1>1. DOMAIN <<>> = {} /\ IsFiniteSet({}) /\ Len(<<>>) = 0
    BY FS_EmptySet
  <1>2. Sequence(<<>>)
    BY EmptyBounded
  <1>3. Members(<<>>)
    BY <1>1 DEF Members, Keyed
  <1>4. Values(<<>>)
    BY <1>1, <1>2 DEF Values
  <1> QED
    BY <1>3, <1>4

LEMMA DeliveredTyped ==
  ASSUME NEW s, Stack(s), NEW v, Regular(v)
  PROVE  ParserTyped(Delivered(s, v))
  <1>1. CASE s = <<>>
    <2>1. Delivered(s, v) = Whole(v)
      BY <1>1 DEF Delivered
    <2>2. Whole(v).stack = <<>> /\ Whole(v).want = "end" /\ Whole(v).value = v
      BY DEF Whole
    <2>3. Stack(<<>>)
      BY <1>1
    <2> QED
      BY <2>1, <2>2, <2>3 DEF ParserTyped, Inside
  <1>2. CASE s # <<>>
    <2> DEFINE top == Last(s)
               kept == IF top.kind = "array"
                       THEN [top EXCEPT !.items = Append(@, v)]
                       ELSE [top EXCEPT !.fields = Updated(@, top.name, v)]
    <2>1. Stack(Front(s)) /\ Open(top)
      BY <1>2, StackShrinks
    <2>2. IsValue(v)
      BY DEF Regular
    <2>3. Open(kept)
      <3>1. CASE OpenArray(top)
        <4>1. PICK items : Values(items) /\ top = [kind |-> "array", items |-> items]
          BY <3>1 DEF OpenArray
        <4> HIDE DEF top
        <4>2. [top EXCEPT !.items = Append(@, v)] = [kind |-> "array", items |-> Append(items, v)]
          BY <4>1
        <4>3. top.kind = "array"
          BY <4>1
        <4>4. Values(Append(items, v))
          BY <2>2, <4>1, ValuesGrow
        <4> QED
          BY <4>2, <4>3, <4>4 DEF Open, OpenArray
      <3>2. CASE OpenObject(top)
        <4>1. PICK fields, name : /\ Members(fields) /\ name \in Seq(Int)
                                  /\ top = [kind |-> "object", fields |-> fields, name |-> name]
          BY <3>2 DEF OpenObject
        <4> HIDE DEF top
        <4>2. top.kind # "array" /\ top.name = name /\ top.fields = fields
          BY <4>1
        <4> DEFINE more == Updated(fields, name, v)
        <4>3. Members(more)
          BY <2>2, <4>1, MembersGrow
        <4>4. [top EXCEPT !.fields = Updated(@, top.name, v)] = [top EXCEPT !.fields = more]
          BY <4>2, Zenon
        <4> HIDE DEF more
        <4>5. [top EXCEPT !.fields = more] = [kind |-> "object", fields |-> more, name |-> name]
          BY <4>1
        <4>6. kept = [kind |-> "object", fields |-> more, name |-> name]
          BY <4>2, <4>4, <4>5, Zenon
        <4> HIDE DEF kept
        <4>7. OpenObject(kept)
          BY <4>1, <4>3, <4>6, Zenon DEF OpenObject
        <4> QED
          BY <4>7 DEF Open
      <3> QED
        BY <2>1, <3>1, <3>2 DEF Open
    <2>4. Delivered(s, v) = At(Append(Front(s), kept), "more")
      BY <1>2, Zenon DEF Delivered
    <2> HIDE DEF kept, top
    <2>5. Stack(Append(Front(s), kept)) /\ Append(Front(s), kept) # <<>>
      BY <2>1, <2>3, StackGrows
    <2> QED
      BY <2>4, <2>5 DEF ParserTyped, At, Inside
  <1> QED
    BY <1>1, <1>2

LEMMA ClosedTyped ==
  ASSUME NEW s, Stack(s), s # <<>>
  PROVE  ParserTyped(Closed(s))
  <1> DEFINE top == Last(s)
             v == IF top.kind = "array" THEN Array(top.items) ELSE Object(top.fields)
  <1>1. Stack(Front(s)) /\ Open(top)
    BY StackShrinks
  <1>2. Regular(v)
    <2>1. CASE OpenArray(top)
      <3>1. PICK items : Values(items) /\ top = [kind |-> "array", items |-> items]
        BY <2>1 DEF OpenArray
      <3> HIDE DEF top
      <3>2. top.kind = "array" /\ top.items = items
        BY <3>1
      <3> QED
        BY <3>1, <3>2, ArrayTyped
    <2>2. CASE OpenObject(top)
      <3>1. PICK fields, name : /\ Members(fields) /\ name \in Seq(Int)
                                /\ top = [kind |-> "object", fields |-> fields, name |-> name]
        BY <2>2 DEF OpenObject
      <3> HIDE DEF top
      <3>2. top.kind # "array" /\ top.fields = fields
        BY <3>1
      <3> QED
        BY <3>1, <3>2, ObjectTyped
    <2> QED
      BY <1>1, <2>1, <2>2 DEF Open
  <1>3. Closed(s) = Delivered(Front(s), v)
    BY Zenon DEF Closed
  <1> QED
    BY <1>1, <1>2, <1>3, DeliveredTyped

LEMMA MarksAreNoKinds ==
  \A c \in {"[", "]", "{", "}", ",", ":"} : c \notin Kinds
  <1>1. "[" \notin Kinds
    BY Zenon DEF Kinds
  <1>2. "]" \notin Kinds
    BY Zenon DEF Kinds
  <1>3. "{" \notin Kinds
    BY Zenon DEF Kinds
  <1>4. "}" \notin Kinds
    BY Zenon DEF Kinds
  <1>5. "," \notin Kinds
    BY Zenon DEF Kinds
  <1>6. ":" \notin Kinds
    BY Zenon DEF Kinds
  <1> QED
    BY <1>1, <1>2, <1>3, <1>4, <1>5, <1>6, Zenon

LEMMA StartsScalar ==
  ASSUME NEW t \in Token, StartsValue(t), t.kind \notin {"[", "{"}
  PROVE  t \in ScalarValues
  <1>1. t.kind \in Kinds
    BY Zenon DEF StartsValue
  <1>2. ASSUME t \in Marks PROVE FALSE
    <2>1. PICK c \in {"[", "]", "{", "}", ",", ":"} : t = Mark(c)
      BY <1>2, Zenon DEF Marks
    <2>2. t.kind = c
      <3> HIDE DEF Marks
      <3>1. Mark(c).kind = c
        BY Zenon DEF Mark
      <3> QED
        BY <2>1, <3>1, Zenon
    <2> QED
      BY <1>1, <2>1, <2>2, MarksAreNoKinds, Zenon
  <1> QED
    BY <1>2, Zenon DEF Token

LEMMA ScalarRegular ==
  ASSUME NEW v \in ScalarValues
  PROVE  Regular(v)
  <1>1. v.kind # "object"
    BY ScalarCases
  <1> QED
    BY <1>1 DEF Regular, IsValue

LEMMA OpenedTyped ==
  ASSUME NEW s, Stack(s), NEW c
  PROVE  ParserTyped(Opened(s, c))
  <1> DEFINE a == [kind |-> "array", items |-> <<>>]
             o == [kind |-> "object", fields |-> <<>>, name |-> <<>>]
  <1>1. Opened(s, c) = At(Append(s, a), "first value") \/ Opened(s, c) = At(Append(s, o), "first name")
    BY Zenon DEF Opened
  <1>2. OpenArray(a)
    BY NoMembers DEF OpenArray
  <1>3. OpenObject(o)
    <2>1. <<>> \in Seq(Int)
      OBVIOUS
    <2> QED
      BY <2>1, NoMembers DEF OpenObject
  <1> HIDE DEF a, o
  <1>4. Stack(Append(s, a)) /\ Append(s, a) # <<>>
    BY <1>2, StackGrows DEF Open
  <1>5. Stack(Append(s, o)) /\ Append(s, o) # <<>> /\ Last(Append(s, o)) = o
    BY <1>3, StackGrows DEF Open
  <1>6. ParserTyped(At(Append(s, a), "first value"))
    BY <1>4 DEF ParserTyped, At, Inside
  <1>7. ParserTyped(At(Append(s, o), "first name"))
    BY <1>3, <1>5 DEF ParserTyped, At, Inside
  <1> QED
    BY <1>1, <1>6, <1>7

LEMMA RefusalTyped == ParserTyped(Refusal) /\ ParserTyped(Start)
  <1>1. Stack(<<>>)
    <2>1. Len(<<>>) = 0
      OBVIOUS
    <2> QED
      BY <2>1, EmptyBounded DEF Stack
  <1> QED
    BY <1>1 DEF ParserTyped, Refusal, Start, At, Inside

LEMMA WithinTyped ==
  ASSUME NEW p, ParserTyped(p), NEW t \in Token
  PROVE  ParserTyped(Within(p, t))
  <1> DEFINE named == At(Append(Front(p.stack), [Last(p.stack) EXCEPT !.name = t.chars]), "colon")
  <1>1. \/ Shuts(p, t) /\ Within(p, t) = Closed(p.stack)
        \/ Names(p, t) /\ Within(p, t) = named
        \/ p.want = "colon" /\ Within(p, t) = At(p.stack, "value")
        \/ p.want = "more" /\ Last(p.stack).kind = "array" /\ Within(p, t) = At(p.stack, "value")
        \/ p.want = "more" /\ Last(p.stack).kind # "array" /\ Within(p, t) = At(p.stack, "name")
        \/ Within(p, t) = Refusal
    <2> DEFINE colon == p.want = "colon" /\ t.kind = ":"
               comma == p.want = "more" /\ t.kind = ","
    <2>1. Within(p, t) =
            CASE Shuts(p, t) -> Closed(p.stack)
              [] Names(p, t) -> named
              [] colon -> At(p.stack, "value")
              [] comma -> At(p.stack, IF Last(p.stack).kind = "array" THEN "value" ELSE "name")
              [] OTHER -> Refusal
      BY Zenon DEF Within
    <2>2. (colon => p.want = "colon") /\ (comma => p.want = "more")
      BY Zenon
    <2> HIDE DEF colon, comma, named
    <2> QED
      BY <2>1, <2>2
  <1>2. Stack(p.stack) /\ (p.want \in Inside => p.stack # <<>>)
    BY DEF ParserTyped
  <1>3. CASE Shuts(p, t) /\ Within(p, t) = Closed(p.stack)
    <2>1. p.want \in Inside
      BY <1>3, Zenon DEF Shuts, Inside
    <2> QED
      BY <1>2, <1>3, <2>1, ClosedTyped
  <1>4. CASE Names(p, t) /\ Within(p, t) = named
    <2> DEFINE top == Last(p.stack)
               e == [top EXCEPT !.name = t.chars]
    <2>1. p.want \in {"first name", "name"} /\ t.kind = "string"
      BY <1>4 DEF Names
    <2>2. p.stack # <<>> /\ OpenObject(top)
      BY <1>2, <2>1 DEF ParserTyped, Inside
    <2>3. t.chars \in Seq(Int)
      <3>1. CASE t \in ScalarValues
        BY <2>1, <3>1, ScalarCases
      <3>2. CASE t \in Marks
        <4>1. PICK c \in {"[", "]", "{", "}", ",", ":"} : t = Mark(c)
          BY <3>2, Zenon DEF Marks
        <4>2. t.kind = c
          BY <4>1, Zenon DEF Mark
        <4>3. "string" \in Kinds
          BY Zenon DEF Kinds
        <4> QED
          BY <2>1, <4>1, <4>2, <4>3, MarksAreNoKinds, Zenon
      <3> QED
        BY <3>1, <3>2, Zenon DEF Token
    <2>4. PICK fields, name : /\ Members(fields) /\ name \in Seq(Int)
                              /\ top = [kind |-> "object", fields |-> fields, name |-> name]
      BY <2>2 DEF OpenObject
    <2> HIDE DEF top
    <2>5. e = [kind |-> "object", fields |-> fields, name |-> t.chars]
      BY <2>4
    <2> HIDE DEF e
    <2>6. Open(e)
      BY <2>3, <2>4, <2>5 DEF Open, OpenObject
    <2>7. Stack(Front(p.stack))
      BY <1>2, <2>2, StackShrinks
    <2>8. Stack(Append(Front(p.stack), e)) /\ Append(Front(p.stack), e) # <<>>
      BY <2>6, <2>7, StackGrows
    <2>9. ParserTyped(At(Append(Front(p.stack), e), "colon"))
      BY <2>8 DEF ParserTyped, At, Inside
    <2> QED
      BY <1>4, <2>9 DEF e, top
  <1>5. CASE Within(p, t) = At(p.stack, "value")
    <2>1. ParserTyped(At(p.stack, "value"))
      BY <1>2 DEF ParserTyped, At, Inside
    <2> QED
      BY <1>5, <2>1, Zenon
  <1>6. CASE p.want = "more" /\ Last(p.stack).kind # "array" /\ Within(p, t) = At(p.stack, "name")
    <2>1. p.stack # <<>>
      BY <1>2, <1>6 DEF Inside
    <2> DEFINE top == Last(p.stack)
    <2>2. Open(top) /\ top.kind # "array"
      BY <1>2, <1>6, <2>1, StackShrinks
    <2> HIDE DEF top
    <2>3. OpenObject(top)
      BY <2>2 DEF Open, OpenArray
    <2>4. ParserTyped(At(p.stack, "name"))
      BY <1>2, <2>1, <2>3 DEF ParserTyped, At, Inside, top
    <2> QED
      BY <1>6, <2>4, Zenon
  <1> QED
    BY <1>1, <1>3, <1>4, <1>5, <1>6, RefusalTyped, Zenon

\* A token makes of values a value.
LEMMA ConsumeTyped ==
  ASSUME NEW p, ParserTyped(p), NEW t \in Token, NEW levels
  PROVE  ParserTyped(Consume(p, t, levels))
  <1>1. \/ Consume(p, t, levels) = Refusal
        \/ Consume(p, t, levels) = Opened(p.stack, t.kind)
        \/ StartsValue(t) /\ t.kind \notin {"[", "{"} /\ Consume(p, t, levels) = Delivered(p.stack, t)
        \/ Consume(p, t, levels) = Within(p, t)
    BY Zenon DEF Consume
  <1>2. Stack(p.stack)
    BY DEF ParserTyped
  <1>3. ASSUME StartsValue(t), t.kind \notin {"[", "{"} PROVE ParserTyped(Delivered(p.stack, t))
    <2>1. t \in ScalarValues
      BY <1>3, StartsScalar, Zenon
    <2>2. Regular(t)
      BY <2>1, ScalarRegular
    <2> QED
      BY <1>2, <2>2, DeliveredTyped
  <1>4. ParserTyped(Opened(p.stack, t.kind))
    BY <1>2, OpenedTyped
  <1>5. ParserTyped(Within(p, t))
    BY WithinTyped
  <1> QED
    BY <1>1, <1>3, <1>4, <1>5, RefusalTyped, Zenon

\* Whatever text is read, what parse answers is a value all of whose members
\* are values: a row can always be filtered, sorted and written again
\* (json.hpp, Parser; store.cpp, query).
THEOREM ParsedTyped ==
  ASSUME NEW text \in Seq(Token), NEW levels
  PROVE  Regular(Parsed(text, levels))
  <1>1. PICK g : /\ g[0] = Start
                 /\ \A k \in 0..(Len(text) - 1) : g[k + 1] = Consume(g[k], text[k + 1], levels)
                 /\ Read(text, levels) = g[Len(text)]
    BY ReadSteps
  <1> DEFINE T == {k \in Nat : k <= Len(text) => ParserTyped(g[k])}
  <1>2. 0 \in T
    BY <1>1, RefusalTyped
  <1>3. ASSUME NEW k \in Nat, k \in T PROVE k + 1 \in T
    <2>1. SUFFICES ASSUME k + 1 <= Len(text) PROVE ParserTyped(g[k + 1])
      OBVIOUS
    <2>2. k \in 0..(Len(text) - 1) /\ k + 1 \in 1..Len(text) /\ k <= Len(text)
      BY <2>1, LenProperties
    <2>3. ParserTyped(g[k])
      BY <1>3, <2>2
    <2>4. text[k + 1] \in Token
      BY <2>2, ElementOfSeq
    <2>5. ParserTyped(Consume(g[k], text[k + 1], levels))
      BY <2>3, <2>4, ConsumeTyped
    <2>6. g[k + 1] = Consume(g[k], text[k + 1], levels)
      BY <1>1, <2>2
    <2> QED
      BY <2>5, <2>6
  <1>4. Len(text) \in T
    <2> HIDE DEF T
    <2> QED
      BY <1>2, <1>3, SetInduction, LenProperties
  <1>5. ParserTyped(Read(text, levels))
    BY <1>1, <1>4, LenProperties
  <1>6. Regular(Null)
    BY ScalarRegular DEF ScalarValues
  <1> QED
    BY <1>5, <1>6 DEF Parsed, ParserTyped

\* A field of such a value is a value, and null if it is not there.
LEMMA FieldTyped ==
  ASSUME NEW v, Regular(v), NEW name
  PROVE  IsValue(Field(v, name))
  <1>1. IsValue(Null)
    BY DEF IsValue, ScalarValues
  <1> QED
    BY <1>1 DEF Field, Regular, Members

----------------------------------------------------------------------------
(* What is in the rows *)

DataTyped ==
  /\ Keyed(rows) /\ \A k \in DOMAIN rows : rows[k] \in Seq(Token)
  /\ call.op = "put" => ParserTyped(call.parser)

LEMMA StoredTyped ==
  ASSUME NEW v, IsValue(v)
  PROVE  Stored(v) \in Seq(Token)
  <1>1. IsValue(Object(<<>>))
    BY NoMembers, ObjectTyped DEF Regular
  <1> QED
    BY <1>1, DumpTyped DEF Stored

\* At first every row holds the text of a value.
LEMMA DataInit ==
  ASSUME Init
  PROVE  DataTyped
  <1>1. Keyed(given) /\ \A k \in DOMAIN given : IsValue(given[k])
    <2>1. CASE given \in Contents
      BY <2>1, ContentsAssumption
    <2>2. CASE given = <<>>
      <3>1. DOMAIN given = {}
        BY <2>2
      <3> QED
        BY <3>1, FS_EmptySet DEF Keyed
    <2> QED
      BY <2>1, <2>2 DEF Init
  <1>2. DOMAIN rows = DOMAIN given /\ \A k \in DOMAIN given : rows[k] = Stored(given[k])
    BY DEF Init
  <1>3. call.op # "put"
    BY DEF Init, Idle
  <1> QED
    BY <1>1, <1>2, <1>3, StoredTyped DEF DataTyped, Keyed

LEMMA PutTyped ==
  ASSUME DataTyped, NEW k \in PutKeys, Put(k)
  PROVE  DataTyped'
  <1> DEFINE value == Field(Arguments, ValueName)
  <1>1. rows' = Updated(rows, k, Stored(value)) /\ call' = Idle /\ call.op = "put"
    BY DEF Put, Answers
  <1>2. Regular(Arguments)
    <2>1. Regular(Null)
      BY ScalarRegular DEF ScalarValues
    <2> QED
      BY <1>1, <2>1 DEF Arguments, DataTyped, ParserTyped
  <1>3. IsValue(value)
    BY <1>2, FieldTyped
  <1> HIDE DEF value
  <1> DEFINE text == Stored(value)
  <1>4. text \in Seq(Token)
    BY <1>3, StoredTyped
  <1>5. k \in Seq(Int)
    BY KeysAssumption
  <1> HIDE DEF text
  <1>6. DOMAIN rows' = DOMAIN rows \cup {k}
    BY <1>1 DEF Updated
  <1>7. \A i \in DOMAIN rows \cup {k} : rows'[i] \in Seq(Token)
    <2> TAKE i \in DOMAIN rows \cup {k}
    <2>1. rows'[i] = IF i = k THEN text ELSE rows[i]
      BY <1>1 DEF Updated, text
    <2> QED
      BY <1>4, <2>1 DEF DataTyped
  <1>8. IsFiniteSet(DOMAIN rows \cup {k}) /\ DOMAIN rows \cup {k} \subseteq Seq(Int)
    BY <1>5, FS_AddElement DEF DataTyped, Keyed
  <1>9. Keyed(rows')
    BY <1>6, <1>8 DEF Keyed
  <1>10. call'.op # "put"
    BY <1>1 DEF Idle
  <1> QED
    BY <1>6, <1>7, <1>9, <1>10 DEF DataTyped, Keyed

\* What is kept and what is being read stay texts of values.
LEMMA DataKept ==
  ASSUME DataTyped, [Next]_vars
  PROVE  DataTyped'
  <1>1. ASSUME rows' = rows, call' = call \/ call'.op # "put" PROVE DataTyped'
    BY <1>1 DEF DataTyped, Keyed
  <1>2. CASE Return
    BY <1>1, <1>2 DEF Return
  <1>3. CASE BeginPut
    <2>1. rows' = rows /\ call'.parser = Start
      BY <1>3 DEF BeginPut
    <2> QED
      BY <2>1, RefusalTyped DEF DataTyped, Keyed
  <1>4. CASE Type
    <2>1. PICK t \in Tokens : /\ rows' = rows /\ call.op = "put"
                              /\ call'.parser = Consume(call.parser, t, MaxDepth)
      BY <1>4 DEF Type
    <2>2. t \in Token
      BY TokensAssumption
    <2>3. ParserTyped(call'.parser)
      BY <2>1, <2>2, ConsumeTyped DEF DataTyped
    <2> QED
      BY <2>1, <2>3 DEF DataTyped, Keyed
  <1>5. CASE InvalidRequest
    <2>1. rows' = rows /\ call' = Idle
      BY <1>5 DEF InvalidRequest, Answers
    <2> QED
      BY <1>1, <2>1 DEF Idle
  <1>6. CASE \E k \in PutKeys : Put(k)
    BY <1>6, PutTyped
  <1>7. CASE \E k \in DOMAIN rows : Get(k)
    <2>1. rows' = rows /\ call' = Idle
      BY <1>7 DEF Get, Answers
    <2> QED
      BY <1>1, <2>1 DEF Idle
  <1>8. CASE \E q \in Queries : Query(q)
    <2>1. PICK q \in Queries : Query(q)
      BY <1>8
    <2>2. rows' = rows /\ call' = Idle
      BY <2>1, QueryIdle
    <2> QED
      BY <1>1, <2>2 DEF Idle
  <1>9. CASE \E c \in Counts : Search(c)
    <2>1. rows' = rows /\ call' = Idle
      BY <1>9 DEF Search, Answers
    <2> QED
      BY <1>1, <2>1 DEF Idle
  <1>10. CASE UNCHANGED vars
    BY <1>1, <1>10 DEF vars
  <1> QED
    BY <1>2, <1>3, <1>4, <1>5, <1>6, <1>7, <1>8, <1>9, <1>10 DEF Next

----------------------------------------------------------------------------
(* What a query reads *)

RowsTyped(read) ==
  /\ read \in Seq(ToSet(read))
  /\ \A r \in ToSet(read) : r.key \in Seq(Int) /\ Regular(r.value)
  /\ \A i, j \in 1..Len(read) : i < j => Before(read[i].key, read[j].key)

\* A query reads rows with distinct keys, in their order, and with values.
LEMMA SelectedTyped ==
  ASSUME DataTyped
  PROVE  RowsTyped(Selected)
  <1> DEFINE keys == InOrder(DOMAIN rows)
             row(i) == [key |-> keys[i], value |-> Parsed(rows[keys[i]], MaxDepth)]
             S == ToSet(Selected)
             n == Len(keys)
  <1>1. /\ keys \in Seq(DOMAIN rows) /\ DOMAIN rows \subseteq Seq(Int)
        /\ \A i, j \in 1..n : i < j => Before(keys[i], keys[j])
    BY NamesInOrder DEF DataTyped, Keyed
  <1>2. Selected = [i \in DOMAIN keys |-> row(i)]
    BY Zenon DEF Selected
  <1> HIDE DEF keys
  <1>3. DOMAIN keys = 1..n /\ n \in Nat
    BY <1>1, LenProperties
  <1>4. \A i \in 1..n : row(i).key = keys[i] /\ row(i).key \in Seq(Int) /\ Regular(row(i).value)
    <2> TAKE i \in 1..n
    <2>1. keys[i] \in DOMAIN rows
      BY <1>1, ElementOfSeq
    <2>2. rows[keys[i]] \in Seq(Token)
      BY <2>1 DEF DataTyped
    <2>3. Regular(Parsed(rows[keys[i]], MaxDepth))
      BY <2>2, ParsedTyped
    <2>4. keys[i] \in Seq(Int)
      BY <1>1, <2>1
    <2> QED
      BY <2>3, <2>4
  <1> HIDE DEF row, n
  <1>5. DOMAIN Selected = 1..n /\ \A i \in 1..n : Selected[i] = row(i)
    BY <1>2, <1>3
  <1>6. S = {row(i) : i \in 1..n}
    BY <1>5 DEF ToSet
  <1> HIDE DEF S
  <1>7. Selected \in [1..n -> S]
    BY <1>2, <1>3, <1>6
  <1>8. Selected \in Seq(S) /\ Len(Selected) = n
    BY <1>3, <1>7
  <1>9. \A r \in S : r.key \in Seq(Int) /\ Regular(r.value)
    BY <1>4, <1>6
  <1>10. \A i, j \in 1..n : i < j => Before(Selected[i].key, Selected[j].key)
    BY <1>1, <1>4, <1>5 DEF n
  <1> QED
    BY <1>8, <1>9, <1>10 DEF RowsTyped, S

LEMMA PrefixTyped ==
  ASSUME NEW s, RowsTyped(s), NEW l \in 0..Len(s)
  PROVE  RowsTyped(SubSeq(s, 1, l))
  <1> DEFINE t == SubSeq(s, 1, l)
             S == ToSet(t)
  <1>1. Len(s) \in Nat /\ DOMAIN s = 1..Len(s)
    BY LenProperties DEF RowsTyped
  <1>2. l \in Nat /\ \A i \in 1..l : i \in 1..Len(s)
    BY <1>1
  <1>3. t = [i \in 1..l |-> s[i]]
    BY <1>1, <1>2
  <1> HIDE DEF t
  <1>4. S = {s[i] : i \in 1..l} /\ S \subseteq ToSet(s)
    BY <1>1, <1>2, <1>3 DEF ToSet
  <1> HIDE DEF S
  <1>5. t \in [1..l -> S]
    BY <1>3, <1>4
  <1>6. t \in Seq(S) /\ Len(t) = l
    BY <1>2, <1>5
  <1>7. \A i, j \in 1..l : i < j => Before(t[i].key, t[j].key)
    BY <1>2, <1>3 DEF RowsTyped
  <1> QED
    BY <1>4, <1>6, <1>7 DEF RowsTyped, S, t

LEMMA ReadsTyped ==
  ASSUME DataTyped, NEW read, read \in Reads(Selected)
  PROVE  RowsTyped(read)
  BY SelectedTyped, PrefixTyped DEF Reads, Prefixes

----------------------------------------------------------------------------
(* Filters *)

Linked(s, tie) == \A i, j \in 1..Len(s) : i < j => <<s[i], s[j]>> \in tie

LEMMA LinkGrows ==
  ASSUME NEW S, NEW s \in Seq(S), NEW e \in S, NEW tie,
         Linked(s, tie), \A i \in 1..Len(s) : <<s[i], e>> \in tie
  PROVE  Linked(Append(s, e), tie)
  <1> DEFINE t == Append(s, e)
  <1>1. /\ Len(t) = Len(s) + 1 /\ Len(s) \in Nat
        /\ \A i \in 1..Len(s) : t[i] = s[i]
        /\ t[Len(s) + 1] = e
    BY AppendProperties, LenProperties
  <1> HIDE DEF t
  <1>2. ASSUME NEW i \in 1..Len(t), NEW j \in 1..Len(t), i < j PROVE <<t[i], t[j]>> \in tie
    <2>1. i \in 1..Len(s) /\ (j \in 1..Len(s) \/ j = Len(s) + 1)
      BY <1>1, <1>2
    <2> QED
      BY <1>1, <1>2, <2>1 DEF Linked
  <1> QED
    BY <1>2 DEF Linked, t

\* A filter leaves the rows that are met, in their order.
LEMMA KeptInOrder ==
  ASSUME NEW S, NEW list \in Seq(S), NEW met, NEW tie, Linked(list, tie)
  PROVE  /\ Kept(list, met) \in Seq(S) /\ Linked(Kept(list, met), tie)
         /\ ToSet(Kept(list, met)) = ToSet(list) \cap met
  <1> DEFINE n == Len(list)
             upto(k) == {list[i] : i \in 1..k}
  <1>0. n \in Nat /\ DOMAIN list = 1..n /\ \A i \in 1..n : list[i] \in S
    BY LenProperties, ElementOfSeq
  <1>1. PICK g : /\ g[0] = <<>>
                 /\ \A k \in 0..(n - 1) : g[k + 1] = (IF list[k + 1] \in met THEN Append(g[k], list[k + 1]) ELSE g[k])
                 /\ Kept(list, met) = g[n]
    BY KeepSteps
  <1> DEFINE Good(k) == g[k] \in Seq(S) /\ Linked(g[k], tie) /\ ToSet(g[k]) = upto(k) \cap met
             T == {k \in Nat : k <= n => Good(k)}
  <1>2. 0 \in T
    <2>1. <<>> \in Seq(S) /\ ToSet(<<>>) = {} /\ Linked(<<>>, tie)
      BY DEF ToSet, Linked
    <2>2. upto(0) = {}
      OBVIOUS
    <2>3. Good(0)
      BY <1>1, <2>1, <2>2
    <2> HIDE DEF Good
    <2> QED
      BY <2>3
  <1>3. ASSUME NEW k \in Nat, k \in T PROVE k + 1 \in T
    <2>1. SUFFICES ASSUME k + 1 <= n PROVE Good(k + 1)
      <3> HIDE DEF Good
      <3> QED
        OBVIOUS
    <2>2. Good(k)
      <3> HIDE DEF Good
      <3> QED
        BY <1>0, <1>3, <2>1
    <2>3. k \in 0..(n - 1) /\ k + 1 \in 1..n
      BY <1>0, <2>1
    <2> DEFINE s == g[k]
               e == list[k + 1]
    <2>4. s \in Seq(S) /\ Linked(s, tie) /\ ToSet(s) = upto(k) \cap met
      BY <2>2
    <2>5. e \in S
      BY <1>0, <2>3
    <2>6. upto(k + 1) = upto(k) \cup {e}
      <3>1. 1..(k + 1) = 1..k \cup {k + 1}
        OBVIOUS
      <3> QED
        BY <3>1, Zenon
    <2>7. CASE e \in met
      <3>1. g[k + 1] = Append(s, e)
        BY <1>1, <2>3, <2>7
      <3> HIDE DEF s
      <3>2. DOMAIN s = 1..Len(s) /\ Len(s) \in Nat
        BY <2>4, LenProperties
      <3>3. \A i \in 1..Len(s) : <<s[i], e>> \in tie
        <4> TAKE i \in 1..Len(s)
        <4>1. s[i] \in upto(k)
          BY <2>4, <3>2 DEF ToSet
        <4>2. PICK m \in 1..k : s[i] = list[m]
          BY <4>1
        <4>3. m \in 1..n /\ m < k + 1
          BY <1>0, <2>3
        <4> QED
          BY <2>3, <4>2, <4>3 DEF Linked
      <3> HIDE DEF e, upto
      <3>4. Append(s, e) \in Seq(S) /\ Linked(Append(s, e), tie)
        BY <2>4, <2>5, <3>3, LinkGrows, AppendProperties
      <3>5. ToSet(Append(s, e)) = ToSet(s) \cup {e}
        <4> DEFINE t == Append(s, e)
        <4>1. /\ Len(t) = Len(s) + 1 /\ t \in Seq(S)
              /\ \A i \in 1..Len(s) : t[i] = s[i]
              /\ t[Len(s) + 1] = e
          BY <2>4, <2>5, AppendProperties
        <4> HIDE DEF t
        <4>2. DOMAIN t = 1..(Len(s) + 1)
          BY <4>1, LenProperties
        <4>3. 1..(Len(s) + 1) = 1..Len(s) \cup {Len(s) + 1}
          BY <3>2
        <4>4. \A x : x \in ToSet(t) <=> x \in ToSet(s) \/ x = e
          BY <3>2, <4>1, <4>2, <4>3 DEF ToSet
        <4> QED
          BY <4>4 DEF t
      <3>6. ToSet(Append(s, e)) = upto(k + 1) \cap met
        BY <2>4, <2>6, <2>7, <3>5
      <3> QED
        BY <3>1, <3>4, <3>6
    <2>8. CASE e \notin met
      <3>1. g[k + 1] = s
        BY <1>1, <2>3, <2>8
      <3> HIDE DEF s, e, upto
      <3> QED
        BY <2>4, <2>6, <2>8, <3>1
    <2> QED
      BY <2>7, <2>8
  <1>4. n \in T
    <2> HIDE DEF T
    <2> QED
      BY <1>0, <1>2, <1>3, SetInduction
  <1>5. Good(n)
    <2> HIDE DEF Good
    <2> QED
      BY <1>0, <1>4
  <1>6. upto(n) = ToSet(list)
    BY <1>0, Zenon DEF ToSet
  <1> HIDE DEF upto
  <1> QED
    BY <1>1, <1>5, <1>6

Filters(left, S, list, tie, where, meets) ==
  /\ left \in Seq(S) /\ Linked(left, tie)
  /\ ToSet(left) = {r \in ToSet(list) : \A i \in 1..Len(where) : r \in meets[where[i]]}

\* Filters one after another leave the rows that meet every condition, in
\* their order, unless one of them refused the query.
LEMMA FilteredInOrder ==
  ASSUME NEW S, NEW list \in Seq(S), NEW tie, Linked(list, tie),
         NEW where, Listed(where), NEW meets,
         ~Filtered(list, where, meets).refused
  PROVE  Filters(Filtered(list, where, meets).rows, S, list, tie, where, meets)
  <1> DEFINE n == Len(where)
             met(k) == {r \in ToSet(list) : \A i \in 1..k : r \in meets[where[i]]}
  <1>0. n \in Nat /\ where \in Seq(ToSet(where))
    BY LenProperties DEF Listed
  <1>1. PICK g : /\ g[0] = [rows |-> list, refused |-> FALSE]
                 /\ \A k \in 0..(n - 1) : g[k + 1] = Narrowed(g[k], where[k + 1], meets)
                 /\ Filtered(list, where, meets) = g[n]
    BY <1>0, FilterSteps
  <1> DEFINE Sound(k) == g[k].rows \in Seq(S) /\ Linked(g[k].rows, tie) /\ ToSet(g[k].rows) = met(k)
             Good(k) == g[k] = [rows |-> g[k].rows, refused |-> g[k].refused] /\ (~g[k].refused => Sound(k))
             T == {k \in Nat : k <= n => Good(k)}
  <1>2. 0 \in T
    <2>1. met(0) = ToSet(list)
      OBVIOUS
    <2>2. g[0].rows = list
      BY <1>1
    <2> HIDE DEF met
    <2>3. Sound(0)
      BY <2>1, <2>2
    <2> HIDE DEF Sound
    <2>4. g[0] = [rows |-> g[0].rows, refused |-> g[0].refused]
      BY <1>1
    <2>5. Good(0)
      BY <2>3, <2>4
    <2> HIDE DEF Good
    <2> QED
      BY <2>5
  <1>3. ASSUME NEW k \in Nat, k \in T PROVE k + 1 \in T
    <2>1. SUFFICES ASSUME k + 1 <= n PROVE Good(k + 1)
      <3> HIDE DEF Good
      <3> QED
        OBVIOUS
    <2>2. Good(k)
      <3> HIDE DEF Good
      <3> QED
        BY <1>0, <1>3, <2>1
    <2> DEFINE p == g[k]
               c == where[k + 1]
               m == g[k + 1]
    <2>3. m = Narrowed(p, c, meets)
      <3>1. k \in 0..(n - 1)
        BY <1>0, <2>1
      <3> QED
        BY <1>1, <3>1
    <2>4. met(k + 1) = {r \in met(k) : r \in meets[c]}
      <3>1. 1..(k + 1) = 1..k \cup {k + 1}
        OBVIOUS
      <3> QED
        BY <3>1, Zenon
    <2>5. p = [rows |-> p.rows, refused |-> p.refused]
      BY <2>2
    <2>6. ~p.refused => p.rows \in Seq(S) /\ Linked(p.rows, tie) /\ ToSet(p.rows) = met(k)
      BY <2>2
    <2> HIDE DEF p, c, met
    <2> SUFFICES /\ m = [rows |-> m.rows, refused |-> m.refused]
                 /\ ~m.refused => m.rows \in Seq(S) /\ Linked(m.rows, tie) /\ ToSet(m.rows) = met(k + 1)
      OBVIOUS
    <2> HIDE DEF m
    <2>7. CASE p.refused
      <3>1. m = p
        BY <2>3, <2>7 DEF Narrowed
      <3> QED
        BY <2>5, <2>7, <3>1
    <2>8. CASE ~p.refused /\ c.op \notin Operators
      <3> DEFINE some == p.rows # <<>>
      <3>1. m = [p EXCEPT !.refused = some]
        BY <2>3, <2>8 DEF Narrowed
      <3> HIDE DEF some
      <3>2. m.rows = p.rows /\ m.refused = some /\ m = [rows |-> m.rows, refused |-> m.refused]
        BY <2>5, <3>1
      <3>3. ASSUME ~some PROVE ToSet(p.rows) = {}
        <4>1. p.rows = <<>>
          BY <3>3 DEF some
        <4> QED
          BY <4>1 DEF ToSet
      <3>4. ~some => met(k) = {} /\ met(k + 1) = {}
        BY <2>4, <2>6, <2>8, <3>3
      <3> QED
        BY <2>6, <2>8, <3>2, <3>3, <3>4
    <2>9. CASE ~p.refused /\ c.op \in Operators
      <3> DEFINE kept == Kept(p.rows, meets[c])
      <3>1. m = [p EXCEPT !.rows = kept]
        BY <2>3, <2>9 DEF Narrowed
      <3>2. kept \in Seq(S) /\ Linked(kept, tie) /\ ToSet(kept) = ToSet(p.rows) \cap meets[c]
        BY <2>6, <2>9, KeptInOrder
      <3> HIDE DEF kept
      <3>3. m.rows = kept /\ m = [rows |-> m.rows, refused |-> m.refused]
        BY <2>5, <3>1
      <3>4. ToSet(kept) = met(k + 1)
        BY <2>4, <2>6, <2>9, <3>2
      <3> QED
        BY <3>2, <3>3, <3>4
    <2> QED
      BY <2>7, <2>8, <2>9
  <1>4. n \in T
    <2> HIDE DEF T
    <2> QED
      BY <1>0, <1>2, <1>3, SetInduction
  <1>5. Good(n)
    <2> HIDE DEF Good
    <2> QED
      BY <1>0, <1>4
  <1> QED
    BY <1>1, <1>5 DEF Filters

----------------------------------------------------------------------------
(* Clauses *)

LEMMA ClauseCases ==
  ASSUME NEW a, NEW b, Regular(a.value), Regular(b.value), NEW c
  PROVE  LET sign(x, y) == compareValues(Field(x.value, c.field), Field(y.value, c.field))
         IN  /\ sign(a, b) \in {-1, 0, 1} /\ sign(b, a) = -sign(a, b)
             /\ ClausePrecedes(c, a, b) <=> IF c.dir = "desc" THEN sign(a, b) > 0 ELSE sign(a, b) < 0
  <1> DEFINE x == Field(a.value, c.field)
             y == Field(b.value, c.field)
  <1>1. Comparable(x) /\ Comparable(y)
    BY FieldTyped, ValuesComparable
  <1> HIDE DEF x, y
  <1>2. compareValues(x, y) \in {-1, 0, 1} /\ compareValues(y, x) = -compareValues(x, y)
    BY <1>1, CompareSigns, CompareIsAnOrder
  <1>3. ClausePrecedes(c, a, b) <=> compareValues(x, y) * (IF c.dir = "desc" THEN -1 ELSE 1) < 0
    BY Zenon DEF ClausePrecedes, x, y
  <1>4. ClausePrecedes(c, a, b) <=>
          IF c.dir = "desc" THEN compareValues(x, y) > 0 ELSE compareValues(x, y) < 0
    BY <1>2, <1>3
  <1> QED
    BY <1>2, <1>4 DEF x, y

\* By a clause rows are in a strict weak order, whatever values they have.
LEMMA ClausesWeak ==
  ASSUME NEW S, \A r \in S : Regular(r.value), NEW c,
         NEW rel, \A a, b \in S : <<a, b>> \in rel <=> ClausePrecedes(c, a, b)
  PROVE  Weak(rel, S)
  <1> DEFINE val(x) == Field(x.value, c.field)
             sign(x, y) == compareValues(val(x), val(y))
  <1>1. \A a, b \in S :
          /\ sign(a, b) \in {-1, 0, 1} /\ sign(b, a) = -sign(a, b)
          /\ <<a, b>> \in rel <=> IF c.dir = "desc" THEN sign(a, b) > 0 ELSE sign(a, b) < 0
    <2> TAKE a, b \in S
    <2>1. Regular(a.value) /\ Regular(b.value) /\ (<<a, b>> \in rel <=> ClausePrecedes(c, a, b))
      OBVIOUS
    <2>2. /\ sign(a, b) \in {-1, 0, 1} /\ sign(b, a) = -sign(a, b)
          /\ ClausePrecedes(c, a, b) <=> IF c.dir = "desc" THEN sign(a, b) > 0 ELSE sign(a, b) < 0
      BY <2>1, ClauseCases
    <2> HIDE DEF sign, val
    <2> QED
      BY <2>1, <2>2
  <1>2. ASSUME NEW a \in S, NEW b \in S, NEW d \in S
        PROVE  sign(a, b) <= 0 /\ sign(b, d) <= 0 => sign(a, d) <= 0
    <2>1. Comparable(val(a)) /\ Comparable(val(b)) /\ Comparable(val(d))
      BY FieldTyped, ValuesComparable
    <2> HIDE DEF val
    <2> QED
      BY <2>1, CompareIsAnOrder
  <1> HIDE DEF sign, val
  <1>3. \A a, b \in S : <<a, b>> \in rel => <<b, a>> \notin rel
    BY <1>1
  <1>4. ASSUME NEW a \in S, NEW b \in S, NEW d \in S, <<a, b>> \notin rel, <<b, d>> \notin rel
        PROVE  <<a, d>> \notin rel
    <2>1. CASE c.dir = "desc"
      <3>1. sign(a, b) <= 0 /\ sign(b, d) <= 0
        BY <1>1, <1>4, <2>1
      <3>2. sign(a, d) <= 0 /\ sign(a, d) \in {-1, 0, 1}
        BY <1>1, <1>2, <3>1
      <3> QED
        BY <1>1, <2>1, <3>2
    <2>2. CASE c.dir # "desc"
      <3>1. /\ sign(b, a) = -sign(a, b) /\ sign(d, b) = -sign(b, d) /\ sign(d, a) = -sign(a, d)
            /\ sign(a, b) \in {-1, 0, 1} /\ sign(b, d) \in {-1, 0, 1} /\ sign(a, d) \in {-1, 0, 1}
        BY <1>1
      <3>2. ~(sign(a, b) < 0) /\ ~(sign(b, d) < 0)
        BY <1>1, <1>4, <2>2
      <3>3. sign(b, a) <= 0 /\ sign(d, b) <= 0
        BY <3>1, <3>2
      <3>4. sign(d, a) <= 0
        BY <1>2, <3>3
      <3>5. ~(sign(a, d) < 0)
        BY <3>1, <3>4
      <3> QED
        BY <1>1, <2>2, <3>5
    <2> QED
      BY <2>1, <2>2
  <1> QED
    BY <1>3, <1>4 DEF Weak

\* Precedes, by the clauses from l on.
PrecedesFrom(q, a, b, l) ==
  \/ \E i \in l..Len(q.order) :
       /\ Decides(q, a, b, i) /\ \A j \in l..(i - 1) : ~Decides(q, a, b, j)
       /\ ClausePrecedes(q.order[i], a, b)
  \/ /\ \A i \in l..Len(q.order) : ~Decides(q, a, b, i)
     /\ Before(a.key, b.key)

\* One more clause in front.
LEMMA ClauseInFront ==
  ASSUME NEW q, NEW a, NEW b, Regular(a.value), Regular(b.value),
         Len(q.order) \in Nat, NEW l \in 1..Len(q.order),
         \/ ClausePrecedes(q.order[l], a, b)
         \/ ~ClausePrecedes(q.order[l], b, a) /\ PrecedesFrom(q, a, b, l + 1)
  PROVE  PrecedesFrom(q, a, b, l)
  <1> DEFINE n == Len(q.order)
             c == q.order[l]
             sign(x, y) == compareValues(Field(x.value, c.field), Field(y.value, c.field))
  <1>1. /\ sign(a, b) \in {-1, 0, 1} /\ sign(b, a) = -sign(a, b)
        /\ ClausePrecedes(c, a, b) <=> IF c.dir = "desc" THEN sign(a, b) > 0 ELSE sign(a, b) < 0
        /\ ClausePrecedes(c, b, a) <=> IF c.dir = "desc" THEN sign(b, a) > 0 ELSE sign(b, a) < 0
    BY ClauseCases
  <1>2. Decides(q, a, b, l) <=> sign(a, b) # 0
    BY DEF Decides
  <1> HIDE DEF sign, n
  <1>3. n \in Nat /\ l \in 1..n /\ l \in Int
    BY DEF n
  <1>4. CASE ClausePrecedes(c, a, b)
    <2>1. Decides(q, a, b, l)
      BY <1>1, <1>2, <1>4
    <2>2. l \in l..n /\ \A j \in l..(l - 1) : FALSE
      BY <1>3
    <2> QED
      BY <1>4, <2>1, <2>2 DEF PrecedesFrom, n
  <1>5. CASE ~ClausePrecedes(c, a, b)
    <2>1. ~Decides(q, a, b, l)
      BY <1>1, <1>2, <1>5
    <2>2. PrecedesFrom(q, a, b, l + 1)
      BY <1>5
    <2>3. CASE \E i \in (l + 1)..n :
                 /\ Decides(q, a, b, i) /\ \A j \in (l + 1)..(i - 1) : ~Decides(q, a, b, j)
                 /\ ClausePrecedes(q.order[i], a, b)
      <3>1. PICK i \in (l + 1)..n :
                 /\ Decides(q, a, b, i) /\ \A j \in (l + 1)..(i - 1) : ~Decides(q, a, b, j)
                 /\ ClausePrecedes(q.order[i], a, b)
        BY <2>3
      <3>2. i \in l..n /\ \A j \in l..(i - 1) : j = l \/ j \in (l + 1)..(i - 1)
        BY <1>3
      <3>3. \A j \in l..(i - 1) : ~Decides(q, a, b, j)
        BY <2>1, <3>1, <3>2
      <3> QED
        BY <3>1, <3>2, <3>3 DEF PrecedesFrom, n
    <2>4. CASE (\A i \in (l + 1)..n : ~Decides(q, a, b, i)) /\ Before(a.key, b.key)
      <3>1. \A j \in l..n : j = l \/ j \in (l + 1)..n
        BY <1>3
      <3>2. \A j \in l..n : ~Decides(q, a, b, j)
        BY <2>1, <2>4, <3>1
      <3> QED
        BY <2>4, <3>2 DEF PrecedesFrom, n
    <2> QED
      BY <2>2, <2>3, <2>4 DEF PrecedesFrom, n
  <1> QED
    BY <1>4, <1>5

SortRuns(g, all, clauses, by) ==
  /\ g[0] = all
  /\ \A k \in 0..(Len(clauses) - 1) : g[k + 1] = StableSort(g[k], by[clauses[k + 1]])
  /\ Sorted(all, clauses, by) = g[Len(clauses)]

LEMMA SortsRun ==
  ASSUME NEW S, NEW clauses \in Seq(S), NEW by, NEW all
  PROVE  \E g : SortRuns(g, all, clauses, by)
  BY OrderSteps DEF SortRuns

Sorts(s, S, list, q) ==
  /\ s \in Seq(S) /\ Len(s) = Len(list) /\ ToSet(s) = ToSet(list)
  /\ \A i, j \in 1..Len(s) : i < j => PrecedesFrom(q, s[i], s[j], 1)

\* Sorting by the clauses from the last to the first, stably, is sorting by
\* all of them at once, the first being the primary one, and then by key.
LEMMA OrderedExactly ==
  ASSUME NEW S, \A r \in S : Regular(r.value),
         NEW list \in Seq(S), \A i, j \in 1..Len(list) : i < j => Before(list[i].key, list[j].key),
         NEW q, Listed(q.order), NEW precedes,
         \A i \in 1..Len(q.order) : \A a, b \in S :
           <<a, b>> \in precedes[q.order[i]] <=> ClausePrecedes(q.order[i], a, b)
  PROVE  Sorts(Ordered(list, q.order, precedes), S, list, q)
  <1> DEFINE order == q.order
             n == Len(order)
             back == Reverse(order)
             Tie(l) == {p \in S \X S : PrecedesFrom(q, p[1], p[2], l)}
             m == Len(list)
             C == ToSet(order)
  <1>a. order \in Seq(C)
    BY DEF Listed
  <1>0. n \in Nat /\ m \in Nat /\ \A i \in 1..m : list[i] \in S
    BY <1>a, LenProperties, ElementOfSeq
  <1>1. back \in Seq(C) /\ Len(back) = n /\ \A i \in 1..n : back[i] = order[(n - i) + 1]
    <2>1. back = [i \in 1..n |-> order[(n - i) + 1]]
      BY DEF Reverse
    <2>2. \A i \in 1..n : order[(n - i) + 1] \in C
      <3> TAKE i \in 1..n
      <3>1. (n - i) + 1 \in 1..n
        BY <1>0
      <3> QED
        BY <1>a, <3>1, ElementOfSeq
    <2> HIDE DEF back, order, n
    <2>3. back \in [1..n -> C]
      BY <2>1, <2>2
    <2>4. back \in Seq(C) /\ Len(back) = n
      BY <1>0, <2>3
    <2> QED
      BY <2>1, <2>4
  <1> HIDE DEF back
  <1>2. PICK g : /\ g[0] = list
                 /\ \A k \in 0..(n - 1) : g[k + 1] = StableSort(g[k], precedes[back[k + 1]])
                 /\ Sorted(list, back, precedes) = g[n]
    <2>1. back \in Seq(C) /\ Len(back) = n
      BY <1>1
    <2> HIDE DEF n
    <2>2. PICK g : SortRuns(g, list, back, precedes)
      BY <2>1, SortsRun
    <2>3. /\ g[0] = list
          /\ \A k \in 0..(n - 1) : g[k + 1] = StableSort(g[k], precedes[back[k + 1]])
          /\ Sorted(list, back, precedes) = g[n]
      BY <2>1, <2>2 DEF SortRuns
    <2> QED
      BY <2>3, Zenon
  <1>3. Ordered(list, order, precedes) = g[n]
    <2>1. Ordered(list, order, precedes) = Sorted(list, back, precedes)
      BY DEF Ordered, Sorted, back
    <2> QED
      BY <1>2, <2>1
  <1> HIDE DEF n, order, m, C
  <1> DEFINE Good(k) == /\ g[k] \in Seq(S) /\ Len(g[k]) = m /\ ToSet(g[k]) = ToSet(list)
                        /\ Linked(g[k], Tie((n - k) + 1))
             T == {k \in Nat : k <= n => Good(k)}
  <1>4. 0 \in T
    <2>1. ASSUME NEW i \in 1..m, NEW j \in 1..m, i < j
          PROVE  <<list[i], list[j]>> \in Tie(n + 1)
      <3>1. (n + 1)..n = {}
        BY <1>0
      <3>2. Before(list[i].key, list[j].key)
        BY <2>1 DEF m
      <3>3. PrecedesFrom(q, list[i], list[j], n + 1)
        BY <3>1, <3>2 DEF PrecedesFrom, n, order
      <3> QED
        BY <1>0, <3>3
    <2> HIDE DEF Tie
    <2>2. (n - 0) + 1 = n + 1
      BY <1>0
    <2>3. Good(0)
      BY <1>2, <2>1, <2>2 DEF Linked, m
    <2> HIDE DEF Good
    <2> QED
      BY <2>3
  <1>5. ASSUME NEW k \in Nat, k \in T PROVE k + 1 \in T
    <2>1. SUFFICES ASSUME k + 1 <= n PROVE Good(k + 1)
      <3> HIDE DEF Good
      <3> QED
        OBVIOUS
    <2>2. Good(k)
      <3> HIDE DEF Good
      <3> QED
        BY <1>0, <1>5, <2>1
    <2> DEFINE l == n - k
               s == g[k]
               t == g[k + 1]
               rel == precedes[order[l]]
    <2>3. l \in 1..n /\ k \in 0..(n - 1) /\ (n - (k + 1)) + 1 = l /\ (n - k) + 1 = l + 1
      BY <1>0, <2>1
    <2>4. t = StableSort(s, rel)
      <3>1. k + 1 \in 1..n /\ (n - (k + 1)) + 1 = l
        BY <1>0, <2>1
      <3> HIDE DEF l
      <3>2. back[k + 1] = order[l]
        BY <1>1, <3>1
      <3> QED
        BY <1>2, <2>3, <3>2
    <2>5. s \in Seq(S) /\ Len(s) = m /\ ToSet(s) = ToSet(list) /\ Linked(s, Tie(l + 1))
      <3> HIDE DEF Tie
      <3> QED
        BY <2>2, <2>3
    <2>6. \A a, b \in S : <<a, b>> \in rel <=> ClausePrecedes(order[l], a, b)
      <3> HIDE DEF l
      <3> QED
        BY <2>3 DEF order, n
    <2>7. Weak(rel, S)
      <3> HIDE DEF rel
      <3> QED
        BY <2>6, ClausesWeak
    <2> HIDE DEF rel, s, Tie
    <2>8. /\ StableSort(s, rel) \in Seq(S)
          /\ Len(StableSort(s, rel)) = Len(s)
          /\ ToSet(StableSort(s, rel)) = ToSet(s)
          /\ Ascending(StableSort(s, rel), rel, Tie(l + 1))
      BY <2>5, <2>7, SortsStably DEF Linked
    <2> HIDE DEF t
    <2>9. t \in Seq(S) /\ Len(t) = m /\ ToSet(t) = ToSet(list) /\ Ascending(t, rel, Tie(l + 1))
      BY <2>4, <2>5, <2>8
    <2>10. ASSUME NEW i \in 1..Len(t), NEW j \in 1..Len(t), i < j
           PROVE  <<t[i], t[j]>> \in Tie(l)
      <3> DEFINE a == t[i]
                 b == t[j]
      <3>1. a \in S /\ b \in S
        BY <2>9, ElementOfSeq
      <3>2. Ahead(rel, Tie(l + 1), a, b)
        BY <2>9, <2>10 DEF Ascending
      <3> HIDE DEF a, b, l
      <3>3. <<a, b>> \in Tie(l + 1) => PrecedesFrom(q, a, b, l + 1)
        BY DEF Tie
      <3>4. \/ ClausePrecedes(q.order[l], a, b)
            \/ ~ClausePrecedes(q.order[l], b, a) /\ PrecedesFrom(q, a, b, l + 1)
        BY <2>6, <3>1, <3>2, <3>3 DEF Ahead, order
      <3>5. Regular(a.value) /\ Regular(b.value) /\ Len(q.order) \in Nat /\ l \in 1..Len(q.order)
        BY <1>0, <2>3, <3>1 DEF n, order
      <3>6. PrecedesFrom(q, a, b, l)
        BY <3>4, <3>5, ClauseInFront
      <3> QED
        BY <3>1, <3>6 DEF Tie, a, b
    <2>11. Linked(t, Tie(l))
      BY <2>10 DEF Linked
    <2>12. Linked(t, Tie((n - (k + 1)) + 1))
      BY <2>3, <2>11
    <2> QED
      BY <2>9, <2>12 DEF t
  <1>6. n \in T
    <2> HIDE DEF T
    <2> QED
      BY <1>0, <1>4, <1>5, SetInduction
  <1>7. Good(n)
    <2> HIDE DEF Good
    <2> QED
      BY <1>0, <1>6
  <1>8. (n - n) + 1 = 1
    BY <1>0
  <1>9. Linked(g[n], Tie(1))
    <2> HIDE DEF Tie
    <2> QED
      BY <1>7, <1>8
  <1>10. \A i, j \in 1..Len(g[n]) : i < j => PrecedesFrom(q, g[n][i], g[n][j], 1)
    BY <1>9 DEF Linked
  <1> QED
    BY <1>3, <1>7, <1>10 DEF m, order, Sorts

----------------------------------------------------------------------------
(* query *)

LEMMA PositionIsInt ==
  ASSUME NEW op \in ToSet(Alphabetical)
  PROVE  Position(op) \in Int
  <1>1. \E i \in DOMAIN Alphabetical : Alphabetical[i] = op
    BY DEF ToSet
  <1>2. Position(op) \in DOMAIN Alphabetical
    BY <1>1, Zenon DEF Position
  <1>3. DOMAIN Alphabetical \subseteq Int
    BY DEF Alphabetical
  <1> QED
    BY <1>2, <1>3

\* The conditions of a where, in the order of its maps.
LEMMA ConditionsTyped ==
  ASSUME NEW q \in Queries
  PROVE  /\ Conditions(q.where) \in Seq(ToSet(q.where))
         /\ ToSet(Conditions(q.where)) = ToSet(q.where)
  <1> DEFINE S == ToSet(q.where)
             rel == {p \in Pairs(q.where) : ConditionPrecedes(p[1], p[2])}
             tie == S \X S
             pos(c) == Position(c.op)
  <1>1. q.where \in Seq(S)
    BY QueriesAssumption DEF Listed
  <1>2. \A c \in S : c.field \in Seq(Int) /\ pos(c) \in Int
    BY QueriesAssumption, PositionIsInt
  <1>3. \A a, b \in S : <<a, b>> \in rel <=> ConditionPrecedes(a, b)
    BY DEF Pairs
  <1>4. \A a, b \in S :
          <<a, b>> \in rel <=> IF a.field = b.field THEN pos(a) < pos(b) ELSE Before(a.field, b.field)
    BY <1>3 DEF ConditionPrecedes
  <1> HIDE DEF rel, pos, S
  <1>5. \A a, b \in S : <<a, b>> \in rel => <<b, a>> \notin rel
    BY <1>2, <1>4, BeforeAsymmetric
  <1>6. ASSUME NEW a \in S, NEW b \in S, NEW c \in S, <<a, b>> \notin rel, <<b, c>> \notin rel
        PROVE  <<a, c>> \notin rel
    <2>1. /\ a.field = b.field => pos(b) <= pos(a)
          /\ a.field # b.field => Before(b.field, a.field)
          /\ b.field = c.field => pos(c) <= pos(b)
          /\ b.field # c.field => Before(c.field, b.field)
      BY <1>2, <1>4, <1>6, BeforeTotal
    <2>2. CASE a.field = b.field /\ b.field = c.field
      BY <1>2, <1>4, <2>1, <2>2
    <2>3. CASE a.field # b.field \/ b.field # c.field
      <3>1. Before(c.field, a.field)
        <4>1. CASE a.field = b.field \/ b.field = c.field
          BY <2>1, <2>3, <4>1
        <4>2. CASE a.field # b.field /\ b.field # c.field
          BY <1>2, <2>1, <4>2, BeforeTransitive
        <4> QED
          BY <4>1, <4>2
      <3>2. ~Before(a.field, c.field) /\ c.field # a.field
        BY <1>2, <3>1, BeforeAsymmetric
      <3> QED
        BY <1>4, <3>2
    <2> QED
      BY <2>2, <2>3
  <1>7. Weak(rel, S)
    BY <1>5, <1>6 DEF Weak
  <1>8. \A i, j \in 1..Len(q.where) : i < j => <<q.where[i], q.where[j]>> \in tie
    BY <1>1, ElementOfSeq
  <1> HIDE DEF tie
  <1>9. StableSort(q.where, rel) \in Seq(S) /\ ToSet(StableSort(q.where, rel)) = S
    BY <1>1, <1>7, <1>8, SortsStably DEF S
  <1> QED
    BY <1>9 DEF Conditions, rel, S

\* What QueryExact says of an answer.
Exact(q, read, found) ==
  LET meant == {read[i] : i \in {j \in DOMAIN read : Meets(read[j], q)}}
  IN  /\ ToSet(found) \subseteq meant
      /\ \A i, j \in DOMAIN found : i < j => Precedes(q, found[i], found[j])
      /\ \A r \in meant \ ToSet(found), i \in DOMAIN found : Precedes(q, found[i], r)
      /\ \E limit \in Ints(q.limit) :
           Len(found) = IF limit > 0 THEN Min({limit, Cardinality(meant)}) ELSE Cardinality(meant)

LEMMA NothingPrecedesItself ==
  ASSUME NEW q, NEW a, Regular(a.value), a.key \in Seq(Int)
  PROVE  ~PrecedesFrom(q, a, a, 1)
  <1>1. ASSUME NEW i \in 1..Len(q.order) PROVE ~Decides(q, a, a, i)
    <2> DEFINE x == Field(a.value, q.order[i].field)
    <2>1. Comparable(x)
      BY FieldTyped, ValuesComparable
    <2> HIDE DEF x
    <2>2. compareValues(x, x) \in {-1, 0, 1} /\ compareValues(x, x) = -compareValues(x, x)
      BY <2>1, CompareSigns, CompareIsAnOrder
    <2>3. compareValues(x, x) = 0
      BY <2>2
    <2> QED
      BY <2>3 DEF Decides, x
  <1>2. ~Before(a.key, a.key)
    BY BeforeAsymmetric
  <1> QED
    BY <1>1, <1>2 DEF PrecedesFrom

LEMMA MinOfTwo ==
  ASSUME NEW a \in Int, NEW b \in Int
  PROVE  Min({a, b}) = IF a <= b THEN a ELSE b
  <1>1. \E x \in {a, b} : \A y \in {a, b} : x <= y
    OBVIOUS
  <1>2. Min({a, b}) \in {a, b} /\ \A y \in {a, b} : Min({a, b}) <= y
    BY <1>1, Zenon DEF Min
  <1> QED
    BY <1>2

\* The rows that meet every condition, in their order, are cut to the limit.
LEMMA LimitedExactly ==
  ASSUME NEW q \in Queries, NEW read, RowsTyped(read), NEW sorted \in Seq(ToSet(read)),
         ToSet(sorted) = {r \in ToSet(read) : Meets(r, q)},
         \A i, j \in 1..Len(sorted) : i < j => PrecedesFrom(q, sorted[i], sorted[j], 1),
         NEW found \in Limited(sorted, q.limit)
  PROVE  Exact(q, read, found)
  <1> DEFINE meant == {read[i] : i \in {j \in DOMAIN read : Meets(read[j], q)}}
             N == Len(sorted)
  <1>1. meant = ToSet(sorted)
    BY Zenon DEF ToSet
  <1> HIDE DEF meant
  <1>2. N \in Nat /\ DOMAIN sorted = 1..N /\ \A i \in 1..N : sorted[i] \in ToSet(read)
    BY LenProperties, ElementOfSeq
  <1>3. \A i, j \in 1..N : i < j => sorted[i] # sorted[j]
    BY <1>2, NothingPrecedesItself DEF RowsTyped
  <1>4. Cardinality(meant) = N
    BY <1>1, <1>3, DistinctCounted
  <1>5. PICK limit \in Ints(q.limit) :
          found = IF limit > 0 THEN SubSeq(sorted, 1, Min({limit, N})) ELSE sorted
    BY Zenon DEF Limited
  <1>6. limit \in Int
    BY QueriesAssumption, IntsAreIntegers
  <1> DEFINE l == IF limit > 0 THEN Min({limit, N}) ELSE N
  <1>7. l \in 0..N
    BY <1>2, <1>6, MinOfTwo
  <1> HIDE DEF N
  <1>8. Len(found) = l /\ DOMAIN found = 1..l /\ \A i \in 1..l : found[i] = sorted[i]
    <2>1. CASE limit > 0
      <3>1. found = SubSeq(sorted, 1, l)
        BY <1>5, <2>1
      <3> HIDE DEF l
      <3>2. \A i \in 1..l : i \in 1..N
        BY <1>2, <1>7
      <3>3. SubSeq(sorted, 1, l) = [i \in 1..l |-> sorted[i]]
        BY <1>2, <1>7
      <3>4. found = [i \in 1..l |-> sorted[i]] /\ l \in Nat
        BY <1>2, <1>7, <3>1, <3>3
      <3> QED
        BY <3>4
    <2>2. CASE ~(limit > 0)
      BY <1>2, <1>5, <2>2 DEF N
    <2> QED
      BY <2>1, <2>2
  <1>9. \E lim \in Ints(q.limit) :
          Len(found) = IF lim > 0 THEN Min({lim, Cardinality(meant)}) ELSE Cardinality(meant)
    BY <1>4, <1>8
  <1> HIDE DEF l
  <1>10. \A a, b : PrecedesFrom(q, a, b, 1) => Precedes(q, a, b)
    <2>1. DOMAIN q.order = 1..Len(q.order)
      BY QueriesAssumption, LenProperties DEF Listed
    <2> QED
      BY <2>1 DEF PrecedesFrom, Precedes
  <1>11. ToSet(found) \subseteq meant
    BY <1>1, <1>2, <1>7, <1>8 DEF ToSet
  <1>12. \A i, j \in DOMAIN found : i < j => Precedes(q, found[i], found[j])
    BY <1>2, <1>7, <1>8, <1>10 DEF N
  <1>13. ASSUME NEW r \in meant \ ToSet(found), NEW i \in DOMAIN found
         PROVE  Precedes(q, found[i], r)
    <2>1. PICK m \in 1..N : r = sorted[m]
      BY <1>1, <1>2 DEF ToSet
    <2>2. ~(m <= l)
      <3>1. ASSUME m \in 1..l PROVE FALSE
        <4>1. r = found[m] /\ m \in DOMAIN found
          BY <1>8, <2>1, <3>1
        <4> QED
          BY <4>1 DEF ToSet
      <3> QED
        BY <1>7, <2>1, <3>1
    <2>3. i \in 1..N /\ i < m /\ found[i] = sorted[i]
      BY <1>2, <1>7, <1>8, <2>1, <2>2
    <2> QED
      BY <1>10, <2>1, <2>3 DEF N
  <1> QED
    BY <1>9, <1>11, <1>12, <1>13 DEF Exact, meant

\* What a query answers, of any rows.
LEMMA QueryIsExact ==
  ASSUME DataTyped, NEW q \in Queries, Query(q)
  PROVE  QueryExact'
  <1>0. /\ answer'.op = "query" /\ answer'.ok => Exact(answer'.query, answer'.read, answer'.rows)
        => QueryExact'
    BY DEF QueryExact, Exact
  <1>1. PICK read \in Reads(Selected) :
           IF LeftOf(read, q).refused
           THEN answer' = [op |-> "query", query |-> q, read |-> read, ok |-> FALSE]
           ELSE \E found \in Limited(Ordered(LeftOf(read, q).rows, q.order, PrecedesOf(read, q)), q.limit) :
                  answer' = [op |-> "query", query |-> q, read |-> read, ok |-> TRUE, rows |-> found]
    BY QueryAnswers
  <1>2. CASE LeftOf(read, q).refused
    <2>1. ~answer'.ok
      BY <1>1, <1>2
    <2> QED
      BY <1>0, <2>1
  <1>3. CASE ~LeftOf(read, q).refused
    <2> DEFINE left == LeftOf(read, q).rows
               S == ToSet(read)
               conds == Conditions(q.where)
               meets == MeetsOf(read, q)
               precedes == PrecedesOf(read, q)
               sorted == Ordered(left, q.order, precedes)
               tie == {p \in S \X S : Before(p[1].key, p[2].key)}
    <2>1. /\ RowsTyped(read) /\ read \in Seq(S)
          /\ \A r \in S : r.key \in Seq(Int) /\ Regular(r.value)
      BY ReadsTyped DEF RowsTyped
    <2>2. Linked(read, tie)
      <3>1. \A i, j \in 1..Len(read) : i < j => <<read[i], read[j]>> \in tie
        BY <2>1, ElementOfSeq DEF RowsTyped
      <3> QED
        BY <3>1 DEF Linked
    <2>3. conds \in Seq(ToSet(q.where)) /\ ToSet(conds) = ToSet(q.where)
      BY ConditionsTyped
    <2>4. /\ left \in Seq(S) /\ Linked(left, tie)
          /\ ToSet(left) = {r \in S : \A i \in 1..Len(conds) : r \in meets[conds[i]]}
      <3> HIDE DEF tie, conds, S, meets
      <3>1. LeftOf(read, q) = Filtered(read, conds, meets)
        BY DEF LeftOf, conds, meets
      <3>2. ~Filtered(read, conds, meets).refused
        BY <1>3, <3>1
      <3>3. read \in Seq(S) /\ Listed(conds)
        BY <2>1, <2>3 DEF Listed
      <3>4. Filters(Filtered(read, conds, meets).rows, S, read, tie, conds, meets)
        BY <2>2, <3>2, <3>3, FilteredInOrder
      <3>5. left = Filtered(read, conds, meets).rows
        BY <3>1
      <3> HIDE DEF left
      <3> QED
        BY <3>4, <3>5 DEF S, Filters
    <2>5. ToSet(left) = {r \in S : Meets(r, q)}
      <3>1. \A r \in S : (\A i \in 1..Len(conds) : r \in meets[conds[i]]) <=> Meets(r, q)
        <4> TAKE r \in S
        <4>1. (\A i \in 1..Len(conds) : r \in meets[conds[i]]) <=> \A c \in ToSet(conds) : r \in meets[c]
          <5>1. DOMAIN conds = 1..Len(conds)
            BY <2>3, LenProperties
          <5> HIDE DEF conds, meets
          <5> QED
            BY <5>1 DEF ToSet
        <4>2. \A c \in ToSet(q.where) :
                r \in meets[c] <=> matchesCondition(Field(r.value, c.field), c.op, c.operand)
          BY Zenon DEF MeetsOf
        <4>3. Meets(r, q) <=> \A c \in ToSet(q.where) : matchesCondition(Field(r.value, c.field), c.op, c.operand)
          BY Zenon DEF Meets, ToSet
        <4> HIDE DEF conds, meets
        <4> QED
          BY <2>3, <4>1, <4>2, <4>3
      <3> HIDE DEF left, conds, meets, S
      <3> QED
        BY <2>4, <3>1
    <2>6. \A i, j \in 1..Len(left) : i < j => Before(left[i].key, left[j].key)
      <3> HIDE DEF left
      <3> QED
        BY <2>4 DEF Linked, tie
    <2>7. Listed(q.order) /\ q.order \in Seq(ToSet(q.order))
      BY QueriesAssumption DEF Listed
    <2>8. \A i \in 1..Len(q.order) : \A a, b \in S :
            <<a, b>> \in precedes[q.order[i]] <=> ClausePrecedes(q.order[i], a, b)
      <3> TAKE i \in 1..Len(q.order)
      <3>1. q.order[i] \in ToSet(q.order)
        BY <2>7, ElementOfSeq
      <3>2. precedes[q.order[i]] = {p \in Pairs(read) : ClausePrecedes(q.order[i], p[1], p[2])}
        BY <3>1, Zenon DEF PrecedesOf
      <3> QED
        BY <3>2 DEF Pairs
    <2> HIDE DEF left, S, precedes
    <2>9. /\ sorted \in Seq(S) /\ ToSet(sorted) = ToSet(left)
          /\ \A i, j \in 1..Len(sorted) : i < j => PrecedesFrom(q, sorted[i], sorted[j], 1)
      <3>1. \A r \in S : Regular(r.value)
        BY <2>1
      <3>2. left \in Seq(S)
        BY <2>4
      <3>3. Sorts(Ordered(left, q.order, precedes), S, left, q)
        BY <2>6, <2>7, <2>8, <3>1, <3>2, OrderedExactly
      <3> QED
        BY <3>3 DEF Sorts
    <2>10. PICK found \in Limited(sorted, q.limit) :
             answer' = [op |-> "query", query |-> q, read |-> read, ok |-> TRUE, rows |-> found]
      BY <1>1, <1>3 DEF left, precedes
    <2> HIDE DEF sorted
    <2>11. Exact(q, read, found)
      BY <2>1, <2>5, <2>9, <2>10, LimitedExactly DEF S
    <2> QED
      BY <1>0, <2>10, <2>11
  <1> QED
    BY <1>2, <1>3

QueryInv == DataTyped /\ QueryExact

LEMMA QueryKept ==
  ASSUME QueryInv, [Next]_vars
  PROVE  QueryInv'
  <1>1. DataTyped'
    BY DataKept DEF QueryInv
  <1>2. QueryExact'
    <2>1. ASSUME answer' = answer PROVE QueryExact'
      BY <2>1 DEF QueryInv, QueryExact
    <2>2. ASSUME answer'.op # "query" PROVE QueryExact'
      BY <2>2 DEF QueryExact
    <2>3. CASE Return
      <3>1. answer'.op # "query"
        BY <2>3 DEF Return, Silent
      <3> QED
        BY <2>2, <3>1
    <2>4. CASE BeginPut \/ Type \/ UNCHANGED vars
      BY <2>1, <2>4 DEF BeginPut, Type, vars
    <2>5. CASE InvalidRequest \/ (\E k \in PutKeys : Put(k)) \/ (\E k \in DOMAIN rows : Get(k))
      <3>1. answer'.op # "query"
        BY <2>5 DEF InvalidRequest, Put, Get, Answers
      <3> QED
        BY <2>2, <3>1
    <2>6. CASE \E q \in Queries : Query(q)
      BY <2>6, QueryIsExact DEF QueryInv
    <2>7. CASE \E c \in Counts : Search(c)
      <3>1. answer'.op # "query"
        BY <2>7 DEF Search, Answers
      <3> QED
        BY <2>2, <3>1
    <2> QED
      BY <2>3, <2>4, <2>5, <2>6, <2>7 DEF Next
  <1> QED
    BY <1>1, <1>2 DEF QueryInv

\* For any rows, conditions, clauses and limit, a query that answers ok answers
\* exactly the rows it read that meet every condition, by the clauses from the
\* first to the last and then by key, and of them the first ones up to the
\* limit: a stable sort per clause, from the last to the first, is the order by
\* all of them (store.cpp, query).
THEOREM QueriesAreExact == Spec => []QueryExact
  <1>1. Init => QueryInv
    <2>1. Init => QueryExact
      BY DEF Init, QueryExact, Silent
    <2> QED
      BY <2>1, DataInit DEF QueryInv
  <1>2. QueryInv /\ [Next]_vars => QueryInv'
    BY QueryKept
  <1>3. QueryInv => QueryExact
    BY DEF QueryInv
  <1> QED
    BY <1>1, <1>2, <1>3, PTL DEF Spec

----------------------------------------------------------------------------
(* One order of rows *)

\* As many rows precede one as stand in front of it.
LEMMA PlaceCounted ==
  ASSUME NEW S, NEW s \in Seq(S), NEW tie, Linked(s, tie),
         \A a, b \in S : <<a, b>> \in tie => <<b, a>> \notin tie,
         NEW i \in 1..Len(s)
  PROVE  Cardinality({x \in ToSet(s) : <<x, s[i]>> \in tie}) = i - 1
  <1> DEFINE n == Len(s)
             t == SubSeq(s, 1, i - 1)
  <1>1. n \in Nat /\ DOMAIN s = 1..n /\ \A j \in 1..n : s[j] \in S
    BY LenProperties, ElementOfSeq
  <1>2. i \in Int /\ i >= 1 /\ i <= n /\ i - 1 \in Nat
    BY <1>1
  <1>3. \A j \in 1..(i - 1) : j \in 1..n
    BY <1>1, <1>2
  <1>4. t = [j \in 1..(i - 1) |-> s[j]]
    BY <1>1, <1>2
  <1> HIDE DEF t
  <1>5. t \in Seq(S) /\ Len(t) = i - 1 /\ DOMAIN t = 1..(i - 1)
    BY <1>1, <1>2, <1>3, <1>4
  <1>6. \A j, k \in 1..Len(t) : j < k => t[j] # t[k]
    <2>1. \A j, k \in 1..n : j < k => s[j] # s[k]
      BY <1>1 DEF Linked
    <2> QED
      BY <1>3, <1>4, <1>5, <2>1
  <1>7. Cardinality(ToSet(t)) = i - 1
    BY <1>5, <1>6, DistinctCounted
  <1>8. ToSet(t) = {s[j] : j \in 1..(i - 1)}
    BY <1>4, <1>5 DEF ToSet
  <1>9. ToSet(s) = {s[j] : j \in 1..n}
    BY <1>1 DEF ToSet
  <1>10. ASSUME NEW j \in 1..n PROVE <<s[j], s[i]>> \in tie <=> j \in 1..(i - 1)
    <2>1. CASE j < i
      BY <1>1, <1>2, <2>1 DEF Linked
    <2>2. CASE j = i
      BY <1>1, <1>2, <2>2
    <2>3. CASE i < j
      <3>1. <<s[i], s[j]>> \in tie
        BY <1>1, <2>3 DEF Linked
      <3> QED
        BY <1>1, <1>2, <2>3, <3>1
    <2> QED
      BY <1>2, <2>1, <2>2, <2>3
  <1>11. {x \in ToSet(s) : <<x, s[i]>> \in tie} = ToSet(t)
    <2> HIDE DEF n
    <2> QED
      BY <1>3, <1>8, <1>9, <1>10
  <1> QED
    BY <1>7, <1>11

\* The same rows in the same order are the same sequence.
LEMMA OneOrder ==
  ASSUME NEW S, NEW s \in Seq(S), NEW t \in Seq(S), NEW tie, Linked(s, tie), Linked(t, tie),
         \A a, b \in S : <<a, b>> \in tie => <<b, a>> \notin tie,
         ToSet(s) = ToSet(t)
  PROVE  s = t
  <1> DEFINE place(x) == Cardinality({y \in ToSet(s) : <<y, x>> \in tie})
  <1>1. /\ Len(s) \in Nat /\ DOMAIN s = 1..Len(s) /\ \A j \in 1..Len(s) : s[j] \in S
        /\ Len(t) \in Nat /\ DOMAIN t = 1..Len(t) /\ \A j \in 1..Len(t) : t[j] \in S
    BY LenProperties, ElementOfSeq
  <1>2. Len(s) = Len(t)
    <2>1. \A i, j \in 1..Len(s) : i < j => s[i] # s[j]
      BY <1>1 DEF Linked
    <2>2. \A i, j \in 1..Len(t) : i < j => t[i] # t[j]
      BY <1>1 DEF Linked
    <2>3. Cardinality(ToSet(s)) = Len(s) /\ Cardinality(ToSet(t)) = Len(t)
      BY <2>1, <2>2, DistinctCounted
    <2> QED
      BY <2>3
  <1>3. \A i \in 1..Len(s) : place(s[i]) = i - 1
    BY PlaceCounted
  <1>4. \A i \in 1..Len(t) : place(t[i]) = i - 1
    BY PlaceCounted
  <1> HIDE DEF place
  <1>5. ASSUME NEW i \in 1..Len(s) PROVE s[i] = t[i]
    <2>1. s[i] \in ToSet(t)
      BY <1>1 DEF ToSet
    <2>2. PICK k \in 1..Len(t) : s[i] = t[k]
      BY <1>1, <2>1 DEF ToSet
    <2>3. i - 1 = k - 1
      BY <1>3, <1>4, <2>2
    <2>4. i = k
      BY <1>1, <2>3
    <2> QED
      BY <2>2, <2>4
  <1> QED
    BY <1>1, <1>2, <1>5, SeqEqual

LEMMA KeptNone ==
  ASSUME NEW met
  PROVE  Kept(<<>>, met) = <<>>
  <1>1. <<>> \in Seq({}) /\ Len(<<>>) = 0
    OBVIOUS
  <1> DEFINE list == <<>>
  <1>2. list \in Seq({}) /\ Len(list) = 0
    BY <1>1
  <1> HIDE DEF list
  <1>3. PICK g : g[0] = <<>> /\ Kept(list, met) = g[Len(list)]
    BY <1>2, KeepSteps
  <1> QED
    BY <1>2, <1>3 DEF list

\* A query is refused for nothing but an operator that is unknown and a row to
\* try it on.
LEMMA NothingRefused ==
  ASSUME NEW S, NEW list \in Seq(S), NEW where, Listed(where), NEW meets,
         list = <<>> \/ \A c \in ToSet(where) : c.op \in Operators
  PROVE  ~Filtered(list, where, meets).refused
  <1> DEFINE n == Len(where)
  <1>0. n \in Nat /\ where \in Seq(ToSet(where)) /\ \A i \in 1..n : where[i] \in ToSet(where)
    BY LenProperties, ElementOfSeq DEF Listed
  <1>1. PICK g : /\ g[0] = [rows |-> list, refused |-> FALSE]
                 /\ \A k \in 0..(n - 1) : g[k + 1] = Narrowed(g[k], where[k + 1], meets)
                 /\ Filtered(list, where, meets) = g[n]
    BY <1>0, FilterSteps
  <1> DEFINE Good(k) == /\ g[k] = [rows |-> g[k].rows, refused |-> g[k].refused]
                        /\ ~g[k].refused
                        /\ list = <<>> => g[k].rows = <<>>
             T == {k \in Nat : k <= n => Good(k)}
  <1>2. 0 \in T
    <2>1. g[0].rows = list
      BY <1>1
    <2>2. g[0] = [rows |-> g[0].rows, refused |-> g[0].refused] /\ ~g[0].refused
      BY <1>1
    <2> QED
      BY <2>1, <2>2
  <1>3. ASSUME NEW k \in Nat, k \in T PROVE k + 1 \in T
    <2>1. SUFFICES ASSUME k + 1 <= n PROVE Good(k + 1)
      <3> HIDE DEF Good
      <3> QED
        OBVIOUS
    <2>2. Good(k)
      <3> HIDE DEF Good
      <3> QED
        BY <1>0, <1>3, <2>1
    <2> DEFINE p == g[k]
               c == where[k + 1]
               m == g[k + 1]
    <2>3. m = Narrowed(p, c, meets) /\ c \in ToSet(where)
      <3>1. k \in 0..(n - 1) /\ k + 1 \in 1..n
        BY <1>0, <2>1
      <3> QED
        BY <1>0, <1>1, <3>1
    <2>4. p = [rows |-> p.rows, refused |-> p.refused] /\ ~p.refused /\ (list = <<>> => p.rows = <<>>)
      BY <2>2
    <2> HIDE DEF p, c
    <2> SUFFICES m = [rows |-> m.rows, refused |-> m.refused] /\ ~m.refused /\ (list = <<>> => m.rows = <<>>)
      OBVIOUS
    <2> HIDE DEF m
    <2>5. ~p.refused
      BY <2>4
    <2>6. CASE c.op \in Operators
      <3> DEFINE kept == Kept(p.rows, meets[c])
      <3>1. m = [p EXCEPT !.rows = kept]
        BY <2>3, <2>5, <2>6 DEF Narrowed
      <3>2. list = <<>> => kept = <<>>
        BY <2>4, KeptNone
      <3> HIDE DEF kept
      <3>3. m.rows = kept /\ m.refused = p.refused /\ m = [rows |-> m.rows, refused |-> m.refused]
        BY <2>4, <3>1
      <3> QED
        BY <2>4, <3>2, <3>3
    <2>7. CASE c.op \notin Operators
      <3> DEFINE some == p.rows # <<>>
      <3>1. m = [p EXCEPT !.refused = some]
        BY <2>3, <2>5, <2>7 DEF Narrowed
      <3>2. ~some
        BY <2>3, <2>4, <2>7
      <3> HIDE DEF some
      <3>3. m.rows = p.rows /\ m.refused = some /\ m = [rows |-> m.rows, refused |-> m.refused]
        BY <2>4, <3>1
      <3> QED
        BY <2>4, <3>2, <3>3
    <2> QED
      BY <2>6, <2>7
  <1>4. n \in T
    <2> HIDE DEF T
    <2> QED
      BY <1>0, <1>2, <1>3, SetInduction
  <1>5. Good(n)
    <2> HIDE DEF Good
    <2> QED
      BY <1>0, <1>4
  <1> QED
    BY <1>1, <1>5

----------------------------------------------------------------------------
(* Two vocabularies *)

Singles(seqs, s) == Len(seqs) = Len(s) /\ \A i \in 1..Len(s) : seqs[i] = <<s[i]>>

LEMMA FlattenSingles ==
  ASSUME NEW s \in Seq(Int), NEW seqs \in Seq(Seq(Int)), seqs # <<>>, Singles(seqs, s)
  PROVE  FlattenSeq(seqs) = s
  <1> DEFINE n == Len(s)
  <1>1. /\ n \in Nat /\ n # 0 /\ \A i \in 1..n : s[i] \in Int
        /\ Len(seqs) = n /\ \A i \in 1..n : seqs[i] = <<s[i]>>
    BY LenProperties, ElementOfSeq, EmptySeq DEF Singles
  <1>2. PICK g : /\ g[1] = seqs[1]
                 /\ \A k \in 1..(Len(seqs) - 1) : g[k + 1] = g[k] \o seqs[k + 1]
                 /\ FlattenSeq(seqs) = g[Len(seqs)]
    BY FlattenSteps
  <1> DEFINE Copies(t, k) == t \in Seq(Int) /\ Len(t) = k /\ \A i \in 1..k : t[i] = s[i]
             T == {k \in Nat : k + 1 <= n => Copies(g[k + 1], k + 1)}
  <1>3. 0 \in T
    <2>1. 1 \in 1..n
      BY <1>1
    <2>2. g[1] = <<s[1]>> /\ s[1] \in Int
      BY <1>1, <1>2, <2>1
    <2>3. Copies(g[1], 1)
      BY <2>2
    <2> HIDE DEF Copies
    <2> QED
      BY <2>3
  <1>4. ASSUME NEW k \in Nat, k \in T PROVE k + 1 \in T
    <2>1. SUFFICES ASSUME (k + 1) + 1 <= n PROVE Copies(g[(k + 1) + 1], (k + 1) + 1)
      <3> HIDE DEF Copies
      <3> QED
        OBVIOUS
    <2>2. k + 1 \in 1..(n - 1) /\ (k + 1) + 1 \in 1..n /\ k + 1 <= n
      BY <1>1, <2>1
    <2>3. Copies(g[k + 1], k + 1)
      <3> HIDE DEF Copies
      <3> QED
        BY <1>4, <2>2
    <2> DEFINE t == g[k + 1]
               c == s[(k + 1) + 1]
    <2>4. g[(k + 1) + 1] = t \o <<c>>
      <3>1. k + 1 \in 1..(Len(seqs) - 1)
        BY <1>1, <2>2
      <3>2. g[(k + 1) + 1] = g[k + 1] \o seqs[(k + 1) + 1]
        BY <1>2, <3>1
      <3>3. seqs[(k + 1) + 1] = <<c>>
        BY <1>1, <2>2
      <3> QED
        BY <3>2, <3>3
    <2>5. t \in Seq(Int) /\ Len(t) = k + 1 /\ \A i \in 1..(k + 1) : t[i] = s[i]
      BY <2>3
    <2>6. c \in Int
      BY <1>1, <2>2
    <2> HIDE DEF t, c
    <2>7. t \o <<c>> = Append(t, c)
      BY <2>5, <2>6
    <2>8. /\ Append(t, c) \in Seq(Int) /\ Len(Append(t, c)) = (k + 1) + 1
          /\ \A i \in 1..(k + 1) : Append(t, c)[i] = t[i]
          /\ Append(t, c)[(k + 1) + 1] = c
      BY <2>5, <2>6, AppendProperties
    <2>9. \A i \in 1..((k + 1) + 1) : i \in 1..(k + 1) \/ i = (k + 1) + 1
      OBVIOUS
    <2>10. ASSUME NEW i \in 1..((k + 1) + 1) PROVE Append(t, c)[i] = s[i]
      <3>1. CASE i \in 1..(k + 1)
        BY <2>5, <2>8, <3>1
      <3>2. CASE i = (k + 1) + 1
        BY <2>8, <3>2 DEF c
      <3> QED
        BY <2>9, <3>1, <3>2
    <2>11. Copies(Append(t, c), (k + 1) + 1)
      BY <2>8, <2>10
    <2> HIDE DEF Copies
    <2> QED
      BY <2>4, <2>7, <2>11
  <1>5. n - 1 \in Nat /\ (n - 1) + 1 = n
    BY <1>1
  <1>6. n - 1 \in T
    <2> HIDE DEF T, n
    <2> QED
      BY <1>3, <1>4, <1>5, SetInduction
  <1>7. Copies(g[n], n)
    <2> HIDE DEF Copies, n
    <2> QED
      BY <1>5, <1>6
  <1>8. g[n] = s
    BY <1>7, SeqEqual
  <1> QED
    BY <1>1, <1>2, <1>8

\* Below the surrogates a string's UTF-16 code units are its code points.
LEMMA UnitsOfPlain ==
  ASSUME NEW s \in Seq(Int), \A i \in DOMAIN s : s[i] < 55296
  PROVE  Units(s) = s
  <1> DEFINE n == Len(s)
             seqs == [i \in DOMAIN s |->
                        IF s[i] < 65536 THEN <<s[i]>>
                        ELSE <<55296 + ((s[i] - 65536) \div 1024), 56320 + ((s[i] - 65536) % 1024)>>]
  <1>1. n \in Nat /\ DOMAIN s = 1..n /\ \A i \in 1..n : s[i] \in Int
    BY LenProperties, ElementOfSeq
  <1>2. Units(s) = FlattenSeq(seqs)
    BY DEF Units
  <1>3. \A i \in 1..n : s[i] < 65536
    BY <1>1
  <1> HIDE DEF n
  <1>4. seqs = [i \in 1..n |-> <<s[i]>>]
    BY <1>1, <1>3
  <1> HIDE DEF seqs
  <1>5. seqs \in Seq(Seq(Int)) /\ Len(seqs) = n /\ \A i \in 1..n : seqs[i] = <<s[i]>>
    <2>1. \A i \in 1..n : <<s[i]>> \in Seq(Int)
      BY <1>1
    <2> QED
      BY <1>1, <1>4, <2>1
  <1>6. CASE seqs = <<>>
    <2>1. FlattenSeq(seqs) = seqs
      BY <1>6, EmptySeq DEF FlattenSeq
    <2>2. s = <<>>
      BY <1>5, <1>6, EmptySeq DEF n
    <2> QED
      BY <1>2, <1>6, <2>1, <2>2
  <1>7. CASE seqs # <<>>
    <2>1. Singles(seqs, s)
      BY <1>5 DEF n, Singles
    <2>2. FlattenSeq(seqs) = s
      BY <1>5, <1>7, <2>1, FlattenSingles
    <2> QED
      BY <1>2, <2>2
  <1> QED
    BY <1>6, <1>7

Plainly(s) == \A i \in DOMAIN s : s[i] < 55296

\* Values that a portable query compares.
LEMMA AlikeCases ==
  ASSUME NEW x, NEW y, IsValue(x), IsValue(y), Alike(x, y)
  PROVE  \/ x = Null /\ y = Null
         \/ \E a, b \in BOOLEAN : x = Bool(a) /\ y = Bool(b)
         \/ \E m, n \in Int : x = Number(m) /\ y = Number(n)
         \/ \E s, t \in Seq(Int) : x = String(s) /\ y = String(t) /\ Plainly(s) /\ Plainly(t)
  <1>1. x.kind = y.kind /\ x.kind \in {"null", "boolean", "number", "string"}
    BY DEF Alike, Scalar
  <1>2. x \in ScalarValues /\ y \in ScalarValues
    BY <1>1 DEF IsValue
  <1>3. \/ x = Null /\ x.kind = "null"
        \/ x.kind = "boolean" /\ x.truth \in BOOLEAN /\ x = Bool(x.truth)
        \/ x.kind = "number" /\ x.halves \in Int /\ x = Number(x.halves)
        \/ x.kind = "string" /\ x.chars \in Seq(Int) /\ x = String(x.chars)
    BY <1>2, ScalarCases, Zenon
  <1>4. \/ y = Null /\ y.kind = "null"
        \/ y.kind = "boolean" /\ y.truth \in BOOLEAN /\ y = Bool(y.truth)
        \/ y.kind = "number" /\ y.halves \in Int /\ y = Number(y.halves)
        \/ y.kind = "string" /\ y.chars \in Seq(Int) /\ y = String(y.chars)
    BY <1>2, ScalarCases, Zenon
  <1>5. x.kind = "string" => Plainly(x.chars) /\ Plainly(y.chars)
    BY <1>1 DEF Alike, Plain, Plainly
  <1> QED
    BY <1>1, <1>3, <1>4, <1>5

LEMMA SingleBefore ==
  ASSUME NEW m \in Int, NEW n \in Int
  PROVE  (Before(<<m>>, <<n>>) <=> m < n) /\ (<<m>> = <<n>> <=> m = n)
  <1> DEFINE s == <<m>>
             t == <<n>>
  <1>1. s \in Seq(Int) /\ t \in Seq(Int) /\ Len(s) = 1 /\ Len(t) = 1 /\ s[1] = m /\ t[1] = n
    OBVIOUS
  <1> HIDE DEF s, t
  <1>2. \A i \in 1..1 : i = 1 /\ 1..(i - 1) = {}
    OBVIOUS
  <1>3. Before(s, t) <=> m < n
    <2>1. Before(s, t) <=>
            \E i \in 1..1 : i <= 1 /\ s[i] < t[i] /\ \A j \in 1..(i - 1) : s[j] = t[j]
      BY <1>1, BeforeDef
    <2>2. (\E i \in 1..1 : i <= 1 /\ s[i] < t[i] /\ \A j \in 1..(i - 1) : s[j] = t[j]) <=> s[1] < t[1]
      BY <1>2
    <2> QED
      BY <1>1, <2>1, <2>2
  <1>4. s = t <=> m = n
    BY <1>1 DEF s, t
  <1> QED
    BY <1>3, <1>4 DEF s, t

\* JavaScript's ===, < and <= say of such values what compareValues says.
Spoken(x, y) ==
  /\ compareValues(x, y) \in {-1, 0, 1}
  /\ compareValues(x, y) = 0 <=> Same(x, y)
  /\ compareValues(x, y) = -1 <=> Below(x, y)
  /\ AtMost(x, y) <=> ~Below(y, x)

LEMMA SpokenScalars ==
  ASSUME NEW x, NEW y, IsValue(x), IsValue(y), Alike(x, y)
  PROVE  Spoken(x, y)
  <1>1. /\ compareValues(x, y) \in {-1, 0, 1}
        /\ compareValues(x, y) = 0 <=> Weight(x) = Weight(y)
        /\ compareValues(x, y) = -1 <=> Before(Weight(x), Weight(y))
    <2>1. rankOf(x) = rankOf(y)
      BY DEF Alike, rankOf
    <2>2. Comparable(x) /\ Comparable(y)
      BY ValuesComparable
    <2>3. rankOf(x) \in Int /\ rankOf(y) \in Int
      BY <2>2, RankIsInt DEF Comparable
    <2> QED
      BY <2>1, <2>2, <2>3, CompareSigns
  <1>2. Same(x, y) <=> x = y
    BY DEF Same, Alike
  <1>3. SUFFICES /\ Weight(x) = Weight(y) <=> x = y
                 /\ Before(Weight(x), Weight(y)) <=> Below(x, y)
                 /\ AtMost(x, y) <=> ~Below(y, x)
    BY <1>1, <1>2 DEF Spoken
  <1>4. CASE x = Null /\ y = Null
    <2>1. Weight(Null) = <<>> /\ Null.kind = "null"
      BY DEF Weight, Null
    <2>2. ~Before(<<>>, <<>>)
      BY DEF Before
    <2>3. ~Below(Null, Null) /\ AtMost(Null, Null)
      BY <2>1 DEF Below, AtMost, Numeric, NotANumber
    <2> QED
      BY <1>4, <2>1, <2>2, <2>3
  <1>5. CASE \E a, b \in BOOLEAN : x = Bool(a) /\ y = Bool(b)
    <2>1. PICK a \in BOOLEAN, b \in BOOLEAN : x = Bool(a) /\ y = Bool(b)
      BY <1>5
    <2>2. x.kind = "boolean" /\ y.kind = "boolean" /\ x.truth = a /\ y.truth = b
      BY <2>1 DEF Bool
    <2>3. Weight(x) = (IF a THEN <<1>> ELSE <<0>>) /\ Weight(y) = (IF b THEN <<1>> ELSE <<0>>)
      BY <2>2 DEF Weight
    <2>4. Numeric(x) = (IF a THEN 2 ELSE 0) /\ Numeric(y) = (IF b THEN 2 ELSE 0)
      BY <2>2 DEF Numeric
    <2>5. /\ Below(x, y) <=> Numeric(x) < Numeric(y)
          /\ Below(y, x) <=> Numeric(y) < Numeric(x)
          /\ AtMost(x, y) <=> Numeric(x) <= Numeric(y)
      BY <2>2 DEF Below, AtMost, NotANumber
    <2>6. /\ Before(<<0>>, <<1>>) /\ ~Before(<<1>>, <<0>>) /\ <<0>> # <<1>>
          /\ ~Before(<<0>>, <<0>>) /\ ~Before(<<1>>, <<1>>)
      <3>1. 0 \in Int /\ 1 \in Int
        OBVIOUS
      <3> QED
        BY <3>1, SingleBefore
    <2>7. (a <=> b) <=> x = y
      BY <2>1, <2>2
    <2>8. CASE a /\ b
      BY <2>3, <2>4, <2>5, <2>6, <2>7, <2>8
    <2>9. CASE a /\ ~b
      BY <2>3, <2>4, <2>5, <2>6, <2>7, <2>9
    <2>10. CASE ~a /\ b
      BY <2>3, <2>4, <2>5, <2>6, <2>7, <2>10
    <2>11. CASE ~a /\ ~b
      BY <2>3, <2>4, <2>5, <2>6, <2>7, <2>11
    <2> QED
      BY <2>8, <2>9, <2>10, <2>11
  <1>6. CASE \E m, n \in Int : x = Number(m) /\ y = Number(n)
    <2>1. PICK m \in Int, n \in Int : x = Number(m) /\ y = Number(n)
      BY <1>6
    <2>2. x.kind = "number" /\ y.kind = "number" /\ x.halves = m /\ y.halves = n
      BY <2>1 DEF Number
    <2>3. Weight(x) = <<m>> /\ Weight(y) = <<n>>
      BY <2>2 DEF Weight
    <2>4. Numeric(x) = m /\ Numeric(y) = n
      BY <2>2 DEF Numeric
    <2>5. (Below(x, y) <=> m < n) /\ (Below(y, x) <=> n < m) /\ (AtMost(x, y) <=> m <= n)
      BY <2>2, <2>4 DEF Below, AtMost, NotANumber
    <2>6. (Before(<<m>>, <<n>>) <=> m < n) /\ (<<m>> = <<n>> <=> m = n)
      BY SingleBefore
    <2>7. m = n <=> x = y
      BY <2>1, <2>2
    <2> QED
      BY <2>3, <2>5, <2>6, <2>7
  <1>7. CASE \E s, t \in Seq(Int) : x = String(s) /\ y = String(t) /\ Plainly(s) /\ Plainly(t)
    <2>1. PICK s \in Seq(Int), t \in Seq(Int) : x = String(s) /\ y = String(t) /\ Plainly(s) /\ Plainly(t)
      BY <1>7
    <2>2. x.kind = "string" /\ y.kind = "string" /\ x.chars = s /\ y.chars = t
      BY <2>1 DEF String
    <2>3. Weight(x) = s /\ Weight(y) = t
      BY <2>2 DEF Weight
    <2>4. Units(s) = s /\ Units(t) = t
      BY <2>1, UnitsOfPlain DEF Plainly
    <2>5. (Below(x, y) <=> Before(s, t)) /\ (AtMost(x, y) <=> ~Below(y, x))
      BY <2>2, <2>4 DEF Below, AtMost
    <2>6. s = t <=> x = y
      BY <2>1, <2>2
    <2> QED
      BY <2>3, <2>5, <2>6
  <1> QED
    BY <1>4, <1>5, <1>6, <1>7, AlikeCases

\* Where the two agree, what is not there is not compared.
LEMMA MemberIsField ==
  ASSUME NEW v, NEW name, Scalar(Member(v, name))
  PROVE  Field(v, name) = Member(v, name)
  <1>1. Undefined.kind \notin {"null", "boolean", "number", "string"}
    BY DEF Undefined
  <1>2. Member(v, name) # Undefined
    BY <1>1 DEF Scalar
  <1> QED
    BY <1>2, Zenon DEF Member, Field

\* A text of one token.
LEMMA OneToken ==
  ASSUME NEW v
  PROVE  Characters(<<v>>) = Spelled(v)
  <1> DEFINE s == Spelled(v)
             text == <<v>>
             seqs == [i \in DOMAIN text |-> Spelled(text[i])]
  <1>1. DOMAIN text = 1..1 /\ text[1] = v
    OBVIOUS
  <1>2. \A i \in 1..1 : i = 1
    OBVIOUS
  <1> HIDE DEF text
  <1>3. seqs = [i \in 1..1 |-> s]
    BY <1>1, <1>2, Zenon
  <1> HIDE DEF s, seqs
  <1>4. seqs \in Seq({s}) /\ Len(seqs) = 1 /\ seqs # <<>> /\ seqs[1] = s
    BY <1>3
  <1>5. FlattenSeq(seqs) = seqs[1]
    BY <1>4, FlattenSteps
  <1> QED
    BY <1>4, <1>5, Zenon DEF Characters, seqs, s, text

\* What dumpNumberTo writes in full is what String() writes, and so are the
\* literals: only an infinite number and one of 9e15 or more need not be.
LEMMA SameText ==
  ASSUME NEW v \in ScalarValues, v.kind # "null", InFull(v)
  PROVE  asText(v) = JsText(v)
  <1>1. CASE v.kind = "string"
    BY <1>1 DEF asText, JsText
  <1>2. CASE v.kind # "string" /\ v # Infinite
    <2>1. Dump(v) = <<v>>
      BY <1>2, ScalarCases DEF Dump
    <2>2. asText(v) = Spelled(v)
      <3>1. asText(v) = Characters(Dump(v))
        BY <1>2, Zenon DEF asText
      <3> QED
        BY <2>1, <3>1, OneToken
    <2>3. CASE v.kind = "boolean"
      BY <2>2, <2>3 DEF Spelled, JsText
    <2>4. CASE v.kind = "number"
      <3>1. v.halves \in Int /\ -MaxWhole < v.halves /\ v.halves < MaxWhole
        BY <2>4, ScalarCases DEF InFull, Null
      <3>2. ~(Size(v.halves) >= MaxWhole)
        BY <3>1, MaxWholeAssumption, MaxFiniteAssumption DEF Size
      <3>3. NumberText(Size(v.halves)) = Decimal(Size(v.halves))
        BY <3>2, Zenon DEF NumberText
      <3>4. Spelled(v) = Minus(v.halves) \o NumberText(Size(v.halves))
        BY <2>4 DEF Spelled
      <3>5. JsText(v) = Minus(v.halves) \o Decimal(Size(v.halves))
        BY <1>2, <2>4 DEF JsText
      <3> QED
        BY <2>2, <3>3, <3>4, <3>5, Zenon
    <2> QED
      BY <1>2, <2>3, <2>4, ScalarCases
  <1>3. v # Infinite
    <2>1. Infinite.kind = "number" /\ Infinite.halves = MaxFinite + 1
      BY DEF Infinite, Number
    <2>2. MaxWhole \in Int /\ MaxFinite \in Int /\ MaxWhole <= MaxFinite
      BY MaxWholeAssumption, MaxFiniteAssumption
    <2> QED
      BY <2>1, <2>2 DEF InFull
  <1> QED
    BY <1>1, <1>2, <1>3

\* Every operator means the same of two values that are alike.
LEMMA LanesMatch ==
  ASSUME NEW x, NEW y, IsValue(x), IsValue(y), Alike(x, y),
         NEW op \in Operators, op = "contains" => Searchable(x, y)
  PROVE  matchesCondition(x, op, y) <=> jsMatches(x, op, y)
  <1>1. Spoken(x, y) /\ Spoken(y, x)
    <2>1. Alike(y, x)
      BY DEF Alike, Scalar
    <2> QED
      BY <2>1, SpokenScalars
  <1>2. compareValues(y, x) = -compareValues(x, y)
    BY ValuesComparable, CompareIsAnOrder
  <1> DEFINE c == compareValues(x, y)
  <1>3. /\ c \in {-1, 0, 1} /\ (c = 0 <=> Same(x, y)) /\ (c = -1 <=> Below(x, y)) /\ (c = 1 <=> Below(y, x))
        /\ (AtMost(x, y) <=> c # 1) /\ (AtMost(y, x) <=> c # -1)
    BY <1>1, <1>2 DEF Spoken
  <1>4. op = "contains" => (Includes(asText(x), asText(y)) <=> JsIncludes(x, y))
    <2> SUFFICES ASSUME op = "contains" PROVE Includes(asText(x), asText(y)) <=> JsIncludes(x, y)
      OBVIOUS
    <2>1. x.kind = y.kind /\ x.kind \in {"null", "boolean", "number", "string"}
      BY DEF Alike, Scalar
    <2>2. x.kind # "null" /\ y.kind # "null" /\ x \in ScalarValues /\ y \in ScalarValues
      <3>1. x \in ScalarValues /\ y \in ScalarValues
        BY <2>1 DEF IsValue
      <3>2. y.kind # "null"
        BY <3>1, ScalarCases DEF Searchable
      <3> QED
        BY <2>1, <3>1, <3>2
    <2>3. asText(x) = JsText(x) /\ asText(y) = JsText(y)
      BY <2>2, SameText DEF Searchable
    <2>4. JsIncludes(x, y) <=> Includes(JsText(x), JsText(y))
      BY <2>1, <2>2 DEF JsIncludes
    <2> QED
      BY <2>3, <2>4
  <1> HIDE DEF c
  <1>5. matchesCondition(x, op, y) <=>
          \/ op = "eq" /\ c = 0
          \/ op = "ne" /\ c # 0
          \/ op = "gt" /\ c > 0
          \/ op = "gte" /\ c >= 0
          \/ op = "lt" /\ c < 0
          \/ op = "lte" /\ c <= 0
          \/ op = "contains" /\ Includes(asText(x), asText(y))
    BY Zenon DEF matchesCondition, c
  <1> QED
    BY <1>3, <1>4, <1>5 DEF jsMatches

\* So does every clause.
LEMMA LanesOrder ==
  ASSUME NEW c, NEW a, NEW b, Regular(a.value), Regular(b.value),
         Alike(Member(a.value, c.field), Member(b.value, c.field))
  PROVE  ClausePrecedes(c, a, b) <=> JsPrecedes(c, a, b)
  <1> DEFINE x == Member(a.value, c.field)
             y == Member(b.value, c.field)
             k == compareValues(x, y)
  <1>1. Alike(x, y) /\ Alike(y, x) /\ Scalar(x) /\ Scalar(y)
    BY DEF Alike, Scalar
  <1>2. Field(a.value, c.field) = x /\ Field(b.value, c.field) = y
    BY <1>1, MemberIsField
  <1>3. IsValue(x) /\ IsValue(y)
    BY <1>2, FieldTyped
  <1>4. ClausePrecedes(c, a, b) <=> k * (IF c.dir = "desc" THEN -1 ELSE 1) < 0
    BY <1>2, Zenon DEF ClausePrecedes
  <1>5. JsPrecedes(c, a, b) <=> ~Same(x, y) /\ (Below(y, x) <=> c.dir = "desc")
    BY Zenon DEF JsPrecedes
  <1> HIDE DEF x, y
  <1>6. Spoken(x, y) /\ Spoken(y, x)
    BY <1>1, <1>3, SpokenScalars
  <1>7. compareValues(y, x) = -k
    BY <1>3, ValuesComparable, CompareIsAnOrder
  <1>8. k \in {-1, 0, 1} /\ (k = 0 <=> Same(x, y)) /\ (k = 1 <=> Below(y, x))
    BY <1>6, <1>7 DEF Spoken
  <1> HIDE DEF k
  <1>9. CASE c.dir = "desc"
    BY <1>4, <1>5, <1>8, <1>9
  <1>10. CASE c.dir # "desc"
    BY <1>4, <1>5, <1>8, <1>10
  <1> QED
    BY <1>9, <1>10

\* What the TypeScript binding computes of the same rows.
TsMeetsOf(read, q) ==
  [c \in ToSet(q.where) |->
     {r \in ToSet(read) : jsMatches(Member(r.value, c.field), c.op, c.operand)}]

TsPrecedesOf(read, q) ==
  [c \in ToSet(q.order) |-> {p \in Pairs(read) : JsPrecedes(c, p[1], p[2])}]

LEMMA TsAnswers ==
  ASSUME NEW read, NEW q, ~Filtered(read, q.where, TsMeetsOf(read, q)).refused
  PROVE  TsRows(read, q) =
           Ordered(Filtered(read, q.where, TsMeetsOf(read, q)).rows, q.order, TsPrecedesOf(read, q))
  BY Zenon DEF TsRows, TsMeetsOf, TsPrecedesOf

LEMMA SameMeets ==
  ASSUME NEW q \in Queries, NEW read, RowsTyped(read), Portable(read, q)
  PROVE  MeetsOf(read, q) = TsMeetsOf(read, q)
  <1>1. ASSUME NEW c \in ToSet(q.where), NEW r \in ToSet(read)
        PROVE  matchesCondition(Field(r.value, c.field), c.op, c.operand)
               <=> jsMatches(Member(r.value, c.field), c.op, c.operand)
    <2> DEFINE x == Member(r.value, c.field)
    <2>1. PICK i \in DOMAIN read, j \in DOMAIN q.where : r = read[i] /\ c = q.where[j]
      BY Zenon DEF ToSet
    <2>2. /\ c.op \in Operators /\ Alike(x, c.operand)
          /\ c.op = "contains" => Searchable(x, c.operand)
      BY <2>1, Zenon DEF Portable
    <2>3. Field(r.value, c.field) = x
      BY <2>2, MemberIsField DEF Alike
    <2>4. IsValue(x)
      BY <2>3, FieldTyped DEF RowsTyped
    <2>5. IsValue(c.operand)
      BY QueriesAssumption
    <2> HIDE DEF x
    <2>6. matchesCondition(x, c.op, c.operand) <=> jsMatches(x, c.op, c.operand)
      BY <2>2, <2>4, <2>5, LanesMatch
    <2> QED
      BY <2>3, <2>6 DEF x
  <1>2. ASSUME NEW c \in ToSet(q.where)
        PROVE  {r \in ToSet(read) : matchesCondition(Field(r.value, c.field), c.op, c.operand)}
               = {r \in ToSet(read) : jsMatches(Member(r.value, c.field), c.op, c.operand)}
    BY <1>1, Zenon
  <1> QED
    BY <1>2, Zenon DEF MeetsOf, TsMeetsOf

LEMMA SamePrecedes ==
  ASSUME NEW q, NEW read, RowsTyped(read), Portable(read, q)
  PROVE  PrecedesOf(read, q) = TsPrecedesOf(read, q)
  <1>1. ASSUME NEW c \in ToSet(q.order), NEW p \in Pairs(read)
        PROVE  ClausePrecedes(c, p[1], p[2]) <=> JsPrecedes(c, p[1], p[2])
    <2>1. PICK a \in ToSet(read), b \in ToSet(read) : p[1] = a /\ p[2] = b
      BY DEF Pairs
    <2>2. PICK j \in DOMAIN q.order : c = q.order[j]
      BY Zenon DEF ToSet
    <2>3. PICK i \in DOMAIN read : a = read[i]
      BY Zenon DEF ToSet
    <2>4. PICK k \in DOMAIN read : b = read[k]
      BY Zenon DEF ToSet
    <2>5. Alike(Member(a.value, c.field), Member(b.value, c.field))
      BY <2>2, <2>3, <2>4, Zenon DEF Portable
    <2>6. Regular(a.value) /\ Regular(b.value)
      BY DEF RowsTyped
    <2> QED
      BY <2>1, <2>5, <2>6, LanesOrder
  <1>2. ASSUME NEW c \in ToSet(q.order)
        PROVE  {p \in Pairs(read) : ClausePrecedes(c, p[1], p[2])}
               = {p \in Pairs(read) : JsPrecedes(c, p[1], p[2])}
    BY <1>1, Zenon
  <1> QED
    BY <1>2, Zenon DEF PrecedesOf, TsPrecedesOf

\* In whichever order the conditions are tried, the same rows are left.
LEMMA SameLeft ==
  ASSUME NEW q \in Queries, NEW read, RowsTyped(read), Portable(read, q), NEW meets
  PROVE  /\ ~Filtered(read, Conditions(q.where), meets).refused
         /\ ~Filtered(read, q.where, meets).refused
         /\ Filtered(read, Conditions(q.where), meets).rows = Filtered(read, q.where, meets).rows
  <1> DEFINE S == ToSet(read)
             conds == Conditions(q.where)
             tie == {p \in S \X S : Before(p[1].key, p[2].key)}
  <1>1. /\ read \in Seq(S) /\ \A r \in S : r.key \in Seq(Int)
        /\ Len(read) \in Nat /\ DOMAIN read = 1..Len(read)
    BY LenProperties DEF RowsTyped
  <1>2. Linked(read, tie)
    <2>1. \A i, j \in 1..Len(read) : i < j => <<read[i], read[j]>> \in tie
      BY <1>1, ElementOfSeq DEF RowsTyped
    <2> QED
      BY <2>1 DEF Linked
  <1>3. \A a, b \in S : <<a, b>> \in tie => <<b, a>> \notin tie
    BY <1>1, BeforeAsymmetric
  <1>4. conds \in Seq(ToSet(q.where)) /\ ToSet(conds) = ToSet(q.where)
    BY ConditionsTyped
  <1>5. q.where \in Seq(ToSet(q.where)) /\ Listed(q.where)
    BY QueriesAssumption DEF Listed
  <1>6. read = <<>> \/ \A c \in ToSet(q.where) : c.op \in Operators
    <2> SUFFICES ASSUME read # <<>>, NEW c \in ToSet(q.where) PROVE c.op \in Operators
      BY Zenon
    <2>1. Len(read) # 0
      BY <1>1, EmptySeq
    <2>2. 1 \in DOMAIN read
      BY <1>1, <2>1
    <2>3. PICK j \in DOMAIN q.where : c = q.where[j]
      BY Zenon DEF ToSet
    <2> QED
      BY <2>2, <2>3, Zenon DEF Portable
  <1> HIDE DEF S, tie, conds
  <1>7. Listed(conds) /\ (read = <<>> \/ \A c \in ToSet(conds) : c.op \in Operators)
    BY <1>4, <1>6 DEF Listed
  <1>8. ~Filtered(read, conds, meets).refused
    BY <1>1, <1>7, NothingRefused
  <1>9. ~Filtered(read, q.where, meets).refused
    BY <1>1, <1>5, <1>6, NothingRefused
  <1> DEFINE here == Filtered(read, conds, meets).rows
             there == Filtered(read, q.where, meets).rows
  <1>10. Filters(here, S, read, tie, conds, meets)
    BY <1>1, <1>2, <1>7, <1>8, FilteredInOrder
  <1>11. Filters(there, S, read, tie, q.where, meets)
    BY <1>1, <1>2, <1>5, <1>9, FilteredInOrder
  <1> HIDE DEF here, there
  <1>12. ASSUME NEW r
         PROVE  (\A i \in 1..Len(conds) : r \in meets[conds[i]])
                <=> (\A i \in 1..Len(q.where) : r \in meets[q.where[i]])
    <2>1. DOMAIN conds = 1..Len(conds) /\ DOMAIN q.where = 1..Len(q.where)
      BY <1>4, <1>5, LenProperties
    <2>2. (\A i \in 1..Len(conds) : r \in meets[conds[i]]) <=> \A c \in ToSet(conds) : r \in meets[c]
      BY <2>1 DEF ToSet
    <2>3. (\A i \in 1..Len(q.where) : r \in meets[q.where[i]]) <=> \A c \in ToSet(q.where) : r \in meets[c]
      BY <2>1 DEF ToSet
    <2> QED
      BY <1>4, <2>2, <2>3
  <1>13. ToSet(here) = ToSet(there)
    BY <1>10, <1>11, <1>12 DEF Filters
  <1>14. here = there
    BY <1>3, <1>10, <1>11, <1>13, OneOrder DEF Filters
  <1> QED
    BY <1>8, <1>9, <1>14 DEF here, there, conds

LEMMA NoLimit ==
  ASSUME NEW all, NEW found \in Limited(all, Null)
  PROVE  found = all
  <1>1. Ints(Null) = {0}
    <2>1. Null.kind # "number" /\ Null # Infinite
      BY DEF Null, Infinite, Number
    <2> QED
      BY <2>1 DEF Ints
  <1>2. PICK n \in Ints(Null) : found = IF n > 0 THEN SubSeq(all, 1, Min({n, Len(all)})) ELSE all
    BY Zenon DEF Limited
  <1>3. ~(n > 0)
    BY <1>1, <1>2
  <1> QED
    BY <1>2, <1>3

\* What either lane answers, of any rows.
LEMMA LanesAnswer ==
  ASSUME DataTyped, NEW q \in Queries, Query(q)
  PROVE  LanesAgree'
  <1>0. (answer'.op = "query" /\ Portable(answer'.read, answer'.query) =>
           answer'.ok /\ answer'.rows = TsRows(answer'.read, answer'.query))
        => LanesAgree'
    BY DEF LanesAgree
  <1>1. PICK read \in Reads(Selected) :
           IF LeftOf(read, q).refused
           THEN answer' = [op |-> "query", query |-> q, read |-> read, ok |-> FALSE]
           ELSE \E found \in Limited(Ordered(LeftOf(read, q).rows, q.order, PrecedesOf(read, q)), q.limit) :
                  answer' = [op |-> "query", query |-> q, read |-> read, ok |-> TRUE, rows |-> found]
    BY QueryAnswers
  <1>2. answer'.read = read /\ answer'.query = q
    BY <1>1
  <1>3. SUFFICES ASSUME Portable(read, q)
                 PROVE  answer'.ok /\ answer'.rows = TsRows(read, q)
    BY <1>0, <1>2
  <1>4. RowsTyped(read)
    BY ReadsTyped
  <1> DEFINE meets == MeetsOf(read, q)
             precedes == PrecedesOf(read, q)
  <1>5. meets = TsMeetsOf(read, q) /\ precedes = TsPrecedesOf(read, q)
    BY <1>3, <1>4, SameMeets, SamePrecedes
  <1>6. LeftOf(read, q) = Filtered(read, Conditions(q.where), meets)
    BY DEF LeftOf
  <1> HIDE DEF meets, precedes
  <1>7. /\ ~LeftOf(read, q).refused /\ ~Filtered(read, q.where, meets).refused
        /\ LeftOf(read, q).rows = Filtered(read, q.where, meets).rows
    BY <1>3, <1>4, <1>6, SameLeft
  <1>8. TsRows(read, q) = Ordered(LeftOf(read, q).rows, q.order, precedes)
    BY <1>5, <1>7, TsAnswers
  <1>9. q.limit = Null
    BY <1>3 DEF Portable
  <1>10. PICK found \in Limited(Ordered(LeftOf(read, q).rows, q.order, precedes), Null) :
           answer' = [op |-> "query", query |-> q, read |-> read, ok |-> TRUE, rows |-> found]
    BY <1>1, <1>7, <1>9 DEF precedes
  <1>11. found = Ordered(LeftOf(read, q).rows, q.order, precedes)
    BY NoLimit
  <1> QED
    BY <1>8, <1>10, <1>11

LanesInv == DataTyped /\ LanesAgree

LEMMA LanesKept ==
  ASSUME LanesInv, [Next]_vars
  PROVE  LanesInv'
  <1>1. DataTyped'
    BY DataKept DEF LanesInv
  <1>2. LanesAgree'
    <2>1. ASSUME answer' = answer PROVE LanesAgree'
      BY <2>1 DEF LanesInv, LanesAgree
    <2>2. ASSUME answer'.op # "query" PROVE LanesAgree'
      BY <2>2 DEF LanesAgree
    <2>3. CASE Return
      <3>1. answer'.op # "query"
        BY <2>3 DEF Return, Silent
      <3> QED
        BY <2>2, <3>1
    <2>4. CASE BeginPut \/ Type \/ UNCHANGED vars
      BY <2>1, <2>4 DEF BeginPut, Type, vars
    <2>5. CASE InvalidRequest \/ (\E k \in PutKeys : Put(k)) \/ (\E k \in DOMAIN rows : Get(k))
      <3>1. answer'.op # "query"
        BY <2>5 DEF InvalidRequest, Put, Get, Answers
      <3> QED
        BY <2>2, <3>1
    <2>6. CASE \E q \in Queries : Query(q)
      BY <2>6, LanesAnswer DEF LanesInv
    <2>7. CASE \E c \in Counts : Search(c)
      <3>1. answer'.op # "query"
        BY <2>7 DEF Search, Answers
      <3> QED
        BY <2>2, <3>1
    <2> QED
      BY <2>3, <2>4, <2>5, <2>6, <2>7 DEF Next
  <1> QED
    BY <1>1, <1>2 DEF LanesInv

\* For any rows and any query that keeps to the discipline of Portable, the
\* native engine and the TypeScript binding answer the same rows in the same
\* order, although one compares bytes and tries the conditions in the order of
\* its maps, and the other compares UTF-16 code units with JavaScript's own
\* operators and tries them as they were written (store.cpp, "three
\* implementations can agree"; store.ts, query).  The discipline is needed: the
\* lanes spell a number from 9e15 on differently, so `contains` may look for one
\* only in smaller ones.
THEOREM ImplementationsAgree == Spec => []LanesAgree
  <1>1. Init => LanesInv
    <2>1. Init => LanesAgree
      BY DEF Init, LanesAgree, Silent
    <2> QED
      BY <2>1, DataInit DEF LanesInv
  <1>2. LanesInv /\ [Next]_vars => LanesInv'
    BY LanesKept
  <1>3. LanesInv => LanesAgree
    BY DEF LanesInv
  <1> QED
    BY <1>1, <1>2, <1>3, PTL DEF Spec

----------------------------------------------------------------------------
(* What is written is read again *)

\* The parser goes from p over a text to q.
Leads(p, text, q, levels) ==
  \E g : /\ g[0] = p
         /\ \A k \in 0..(Len(text) - 1) : g[k + 1] = Consume(g[k], text[k + 1], levels)
         /\ g[Len(text)] = q

LEMMA LeadsByToken ==
  ASSUME NEW p, NEW t \in Token, NEW levels
  PROVE  Leads(p, <<t>>, Consume(p, t, levels), levels)
  <1> DEFINE q == Consume(p, t, levels)
             g == [k \in {0, 1} |-> IF k = 0 THEN p ELSE q]
  <1>1. Len(<<t>>) = 1 /\ <<t>>[1] = t
    OBVIOUS
  <1>2. g[0] = p /\ g[1] = q
    OBVIOUS
  <1>3. \A k \in 0..(1 - 1) : k = 0
    OBVIOUS
  <1> HIDE DEF g
  <1>4. \A k \in 0..(Len(<<t>>) - 1) : g[k + 1] = Consume(g[k], <<t>>[k + 1], levels)
    <2> TAKE k \in 0..(Len(<<t>>) - 1)
    <2>1. k = 0
      BY <1>1, <1>3
    <2>2. k + 1 = 1
      BY <2>1
    <2> QED
      BY <1>1, <1>2, <2>1, <2>2, Zenon
  <1> HIDE DEF q
  <1>5. g[Len(<<t>>)] = q
    BY <1>1, <1>2
  <1> QED
    BY <1>2, <1>4, <1>5, Zenon DEF Leads, q

LEMMA LeadsOn ==
  ASSUME NEW s \in Seq(Token), NEW t \in Seq(Token), NEW p, NEW q, NEW r, NEW levels,
         Leads(p, s, q, levels), Leads(q, t, r, levels)
  PROVE  Leads(p, s \o t, r, levels)
  <1> DEFINE m == Len(s)
             n == Len(t)
             u == s \o t
  <1>1. m \in Nat /\ n \in Nat
    BY LenProperties
  <1>2. /\ Len(u) = m + n
        /\ \A i \in 1..(m + n) : u[i] = IF i <= m THEN s[i] ELSE t[i - m]
    BY ConcatProperties
  <1>3. PICK g : /\ g[0] = p
                 /\ \A k \in 0..(Len(s) - 1) : g[k + 1] = Consume(g[k], s[k + 1], levels)
                 /\ g[Len(s)] = q
    BY DEF Leads
  <1>4. PICK h : /\ h[0] = q
                 /\ \A k \in 0..(Len(t) - 1) : h[k + 1] = Consume(h[k], t[k + 1], levels)
                 /\ h[Len(t)] = r
    BY DEF Leads
  <1> HIDE DEF m, n, u
  <1>5. /\ \A k \in 0..(m - 1) : g[k + 1] = Consume(g[k], s[k + 1], levels)
        /\ \A k \in 0..(n - 1) : h[k + 1] = Consume(h[k], t[k + 1], levels)
        /\ g[m] = q /\ h[n] = r
    BY <1>3, <1>4, Zenon DEF m, n
  <1> DEFINE f == [k \in 0..(m + n) |-> IF k <= m THEN g[k] ELSE h[k - m]]
  <1>6. f[0] = p
    <2>1. 0 \in 0..(m + n) /\ 0 <= m
      BY <1>1
    <2>2. f[0] = g[0]
      BY <2>1, Zenon
    <2> QED
      BY <1>3, <2>2
  <1>7. f[m + n] = r
    <2>1. CASE n = 0
      <3>1. f[m + n] = g[m] /\ h[n] = h[0]
        BY <1>1, <2>1
      <3> QED
        BY <1>4, <1>5, <3>1
    <2>2. CASE n # 0
      <3>1. f[m + n] = h[n]
        BY <1>1, <2>2
      <3> QED
        BY <1>5, <3>1
    <2> QED
      BY <2>1, <2>2
  <1>8. ASSUME NEW k \in 0..(m + n - 1)
        PROVE  f[k + 1] = Consume(f[k], u[k + 1], levels)
    <2>1. CASE k < m
      <3>1. k \in 0..(m - 1) /\ f[k] = g[k] /\ f[k + 1] = g[k + 1] /\ u[k + 1] = s[k + 1]
        BY <1>1, <1>2, <2>1
      <3>2. g[k + 1] = Consume(g[k], s[k + 1], levels)
        BY <1>5, <3>1
      <3> HIDE DEF f
      <3> QED
        BY <3>1, <3>2, Zenon
    <2>2. CASE m <= k
      <3> DEFINE j == k - m
      <3>1. j \in 0..(n - 1) /\ f[k + 1] = h[j + 1] /\ u[k + 1] = t[j + 1]
        BY <1>1, <1>2, <2>2
      <3>2. f[k] = h[j]
        <4>1. CASE k = m
          BY <1>1, <1>4, <1>5, <4>1
        <4>2. CASE m < k
          BY <1>1, <4>2
        <4> QED
          BY <1>1, <2>2, <4>1, <4>2
      <3> HIDE DEF f, j
      <3>3. h[j + 1] = Consume(h[j], t[j + 1], levels)
        BY <1>5, <3>1
      <3> QED
        BY <3>1, <3>2, <3>3, Zenon
    <2> QED
      BY <1>1, <2>1, <2>2
  <1> HIDE DEF f
  <1>9. \A k \in 0..(Len(u) - 1) : f[k + 1] = Consume(f[k], u[k + 1], levels)
    <2> TAKE k \in 0..(Len(u) - 1)
    <2>1. k \in 0..(m + n - 1)
      BY <1>1, <1>2
    <2> QED
      BY <1>8, <2>1
  <1>10. f[Len(u)] = r
    BY <1>2, <1>7
  <1> QED
    BY <1>6, <1>9, <1>10, Zenon DEF Leads, u

LEMMA LeadsReads ==
  ASSUME NEW text \in Seq(Token), NEW q, NEW levels, Leads(Start, text, q, levels)
  PROVE  Read(text, levels) = q
  <1>1. PICK g : /\ g[0] = Start
                 /\ \A k \in 0..(Len(text) - 1) : g[k + 1] = Consume(g[k], text[k + 1], levels)
                 /\ g[Len(text)] = q
    BY DEF Leads
  <1>2. PICK h : /\ h[0] = Start
                 /\ \A k \in 0..(Len(text) - 1) : h[k + 1] = Consume(h[k], text[k + 1], levels)
                 /\ Read(text, levels) = h[Len(text)]
    BY ReadSteps
  <1> DEFINE T == {k \in Nat : k <= Len(text) => g[k] = h[k]}
  <1>3. 0 \in T
    BY <1>1, <1>2
  <1>4. ASSUME NEW k \in Nat, k \in T PROVE k + 1 \in T
    <2>1. SUFFICES ASSUME k + 1 <= Len(text) PROVE g[k + 1] = h[k + 1]
      OBVIOUS
    <2>2. k \in 0..(Len(text) - 1) /\ k <= Len(text)
      BY <2>1, LenProperties
    <2>3. g[k] = h[k]
      BY <1>4, <2>2
    <2>4. g[k + 1] = Consume(g[k], text[k + 1], levels) /\ h[k + 1] = Consume(h[k], text[k + 1], levels)
      BY <1>1, <1>2, <2>2
    <2> QED
      BY <2>3, <2>4, Zenon
  <1>5. Len(text) \in T
    <2> HIDE DEF T
    <2> QED
      BY <1>3, <1>4, SetInduction, LenProperties
  <1> QED
    BY <1>1, <1>2, <1>5, LenProperties

\* The reading of a text, token by token.
LEMMA ReadLeads ==
  ASSUME NEW text \in Seq(Token), NEW levels
  PROVE  Leads(Start, text, Read(text, levels), levels)
  <1>1. PICK h : /\ h[0] = Start
                 /\ \A k \in 0..(Len(text) - 1) : h[k + 1] = Consume(h[k], text[k + 1], levels)
                 /\ Read(text, levels) = h[Len(text)]
    BY ReadSteps
  <1> QED
    BY <1>1, Zenon DEF Leads

Expecting == {"value", "first value"}

\* From wherever a value may come, the text t delivers the value u, if d more
\* levels are left.
Spells(t, u, d, levels) ==
  /\ t \in Seq(Token) /\ t # <<>>
  /\ \A s, w : Sequence(s) /\ w \in Expecting /\ Len(s) + d <= levels
                 => Leads(At(s, w), t, Delivered(s, u), levels)

OpenList(items) == [kind |-> "array", items |-> items]
OpenFields(fields, name) == [kind |-> "object", fields |-> fields, name |-> name]

LEMMA RoomLeft ==
  \A m, n \in Nat :
    /\ m + 1 <= n => ~(m + 1 > n)
    /\ \A d, e \in Int : d <= e /\ m + e <= n => m + d <= n
  OBVIOUS

LEMMA AppendedFront ==
  ASSUME NEW s, Sequence(s), NEW e
  PROVE  Front(Append(s, e)) = s /\ Last(Append(s, e)) = e
  <1> DEFINE a == Append(s, e)
             f == Front(a)
  <1>1. /\ Sequence(a) /\ Len(a) = Len(s) + 1 /\ Len(s) \in Nat
        /\ \A i \in 1..Len(s) : a[i] = s[i]
        /\ Last(a) = e /\ a # <<>>
    BY AppendedElements
  <1> HIDE DEF a
  <1>2. /\ Sequence(f) /\ Len(f) = Len(a) - 1
        /\ \A i \in 1..Len(f) : f[i] = a[i]
    BY <1>1, LastAndFront
  <1> HIDE DEF f
  <1>3. Len(f) = Len(s)
    BY <1>1, <1>2
  <1>4. PICK S, T : s \in Seq(S) /\ f \in Seq(T)
    BY <1>2 DEF Sequence
  <1>5. s \in Seq(S \cup T) /\ f \in Seq(S \cup T)
    BY <1>4, SeqMonotonic
  <1>6. \A i \in 1..Len(s) : f[i] = s[i]
    BY <1>1, <1>2, <1>3
  <1>7. f = s
    BY <1>3, <1>5, <1>6, SeqEqual
  <1> QED
    BY <1>1, <1>7 DEF a, f

LEMMA OpensBracket ==
  ASSUME NEW s, NEW w \in Expecting, NEW levels, Len(s) + 1 <= levels,
         Len(s) \in Nat, levels \in Nat
  PROVE  /\ Consume(At(s, w), Mark("["), levels) = At(Append(s, OpenList(<<>>)), "first value")
         /\ Consume(At(s, w), Mark("{"), levels) =
              At(Append(s, OpenFields(<<>>, <<>>)), "first name")
  <1>1. At(s, w).want \in {"value", "first value"} /\ At(s, w).stack = s
    <2>1. At(s, w).want = w /\ At(s, w).stack = s
      BY Zenon DEF At
    <2> QED
      BY <2>1, Zenon DEF Expecting
  <1>2. ~(Len(s) + 1 > levels)
    BY RoomLeft, Zenon
  <1>3. /\ Mark("[").kind = "[" /\ StartsValue(Mark("["))
        /\ Mark("{").kind = "{" /\ StartsValue(Mark("{"))
    BY Zenon DEF Mark, StartsValue
  <1>4. /\ Consume(At(s, w), Mark("["), levels) = Opened(s, "[")
        /\ Consume(At(s, w), Mark("{"), levels) = Opened(s, "{")
    BY <1>1, <1>2, <1>3, Zenon DEF Consume
  <1>5. /\ Opened(s, "[") = At(Append(s, OpenList(<<>>)), "first value")
        /\ Opened(s, "{") = At(Append(s, OpenFields(<<>>, <<>>)), "first name")
    BY Zenon DEF Opened, OpenList, OpenFields
  <1> QED
    BY <1>4, <1>5, Zenon

LEMMA CommaGoesOn ==
  ASSUME NEW s, Sequence(s), NEW items, NEW fields, NEW name, NEW levels
  PROVE  /\ Consume(At(Append(s, OpenList(items)), "more"), Mark(","), levels) =
              At(Append(s, OpenList(items)), "value")
         /\ Consume(At(Append(s, OpenFields(fields, name)), "more"), Mark(","), levels) =
              At(Append(s, OpenFields(fields, name)), "name")
  <1> DEFINE a == Append(s, OpenList(items))
             o == Append(s, OpenFields(fields, name))
  <1>1. Last(a).kind = "array" /\ Last(o).kind # "array"
    BY AppendedFront DEF OpenList, OpenFields
  <1> HIDE DEF a, o
  <1>2. Mark(",").kind = ","
    BY Zenon DEF Mark
  <1>3. ASSUME NEW r
        PROVE  Consume(At(r, "more"), Mark(","), levels) =
                 At(r, IF Last(r).kind = "array" THEN "value" ELSE "name")
    <2>1. At(r, "more").want = "more" /\ At(r, "more").stack = r
      BY DEF At
    <2>2. ~Shuts(At(r, "more"), Mark(","))
      BY <1>2, <2>1, Zenon DEF Shuts
    <2>3. ~Names(At(r, "more"), Mark(","))
      BY <2>1, Zenon DEF Names
    <2>4. Consume(At(r, "more"), Mark(","), levels) = Within(At(r, "more"), Mark(","))
      BY <2>1, Zenon DEF Consume
    <2>5. /\ "more" # "colon"
      BY Zenon
    <2> DEFINE q == At(r, "more")
               t == Mark(",")
               colon == q.want = "colon" /\ t.kind = ":"
               comma == q.want = "more" /\ t.kind = ","
               named == At(Append(Front(q.stack), [Last(q.stack) EXCEPT !.name = t.chars]), "colon")
    <2>6. Within(q, t) =
            CASE Shuts(q, t) -> Closed(q.stack)
              [] Names(q, t) -> named
              [] colon -> At(q.stack, "value")
              [] comma -> At(q.stack, IF Last(q.stack).kind = "array" THEN "value" ELSE "name")
              [] OTHER -> Refusal
      BY Zenon DEF Within
    <2>7. ~colon /\ comma
      BY <1>2, <2>1, <2>5, Zenon
    <2> HIDE DEF colon, comma, named, q, t
    <2>8. ~Shuts(q, t) /\ ~Names(q, t) /\ q.stack = r
      BY <2>1, <2>2, <2>3, Zenon DEF q, t
    <2>9. Within(q, t) = At(r, IF Last(r).kind = "array" THEN "value" ELSE "name")
      BY <2>6, <2>7, <2>8
    <2> QED
      BY <2>4, <2>9, Zenon DEF q, t
  <1>4. Consume(At(a, "more"), Mark(","), levels) = At(a, "value")
    BY <1>1, <1>3, Zenon
  <1>5. Consume(At(o, "more"), Mark(","), levels) = At(o, "name")
    BY <1>1, <1>3, Zenon
  <1> QED
    BY <1>4, <1>5, Zenon DEF a, o

LEMMA ArrayShuts ==
  ASSUME NEW s, Sequence(s), NEW items, NEW w \in {"first value", "more"}, NEW levels
  PROVE  Consume(At(Append(s, OpenList(items)), w), Mark("]"), levels) =
           Delivered(s, Array(items))
  <1> DEFINE a == Append(s, OpenList(items))
             p == At(a, w)
             t == Mark("]")
  <1>1. Last(a).kind = "array" /\ Last(a).items = items /\ Front(a) = s
    <2>1. Last(a) = OpenList(items) /\ Front(a) = s
      BY AppendedFront
    <2>2. OpenList(items).kind = "array" /\ OpenList(items).items = items
      BY DEF OpenList
    <2> QED
      BY <2>1, <2>2, Zenon
  <1>2. p.want = w /\ p.stack = a
    BY Zenon DEF At
  <1>3. t.kind = "]" /\ ~StartsValue(t)
    BY Zenon DEF Mark, StartsValue, Kinds
  <1>4. Shuts(p, t)
    BY <1>1, <1>2, <1>3, Zenon DEF Shuts
  <1>5. Consume(p, t, levels) = Within(p, t)
    BY <1>3, Zenon DEF Consume
  <1>6. Closed(a) = Delivered(s, Array(items))
    BY <1>1, Zenon DEF Closed
  <1>7. Within(p, t) = Closed(p.stack)
    <2> DEFINE colon == p.want = "colon" /\ t.kind = ":"
               comma == p.want = "more" /\ t.kind = ","
               named == At(Append(Front(p.stack), [Last(p.stack) EXCEPT !.name = t.chars]), "colon")
               goes == At(p.stack, IF Last(p.stack).kind = "array" THEN "value" ELSE "name")
    <2>1. Within(p, t) =
            CASE Shuts(p, t) -> Closed(p.stack)
              [] Names(p, t) -> named
              [] colon -> At(p.stack, "value")
              [] comma -> goes
              [] OTHER -> Refusal
      BY Zenon DEF Within
    <2>2. ~Names(p, t) /\ ~colon /\ ~comma
      BY <1>3, Zenon DEF Names
    <2> HIDE DEF colon, comma, named, goes, p, t
    <2> QED
      BY <1>4, <2>1, <2>2
  <1> QED
    BY <1>2, <1>5, <1>6, <1>7, Zenon

LEMMA ObjectShuts ==
  ASSUME NEW s, Sequence(s), NEW fields, NEW name, NEW w \in {"first name", "more"}, NEW levels
  PROVE  Consume(At(Append(s, OpenFields(fields, name)), w), Mark("}"), levels) =
           Delivered(s, Object(fields))
  <1> DEFINE a == Append(s, OpenFields(fields, name))
             p == At(a, w)
             t == Mark("}")
  <1>1. Last(a).kind # "array" /\ Last(a).fields = fields /\ Front(a) = s
    <2>1. Last(a) = OpenFields(fields, name) /\ Front(a) = s
      BY AppendedFront
    <2>2. OpenFields(fields, name).kind # "array" /\ OpenFields(fields, name).fields = fields
      BY DEF OpenFields
    <2> QED
      BY <2>1, <2>2, Zenon
  <1>2. p.want = w /\ p.stack = a
    BY Zenon DEF At
  <1>3. t.kind = "}" /\ ~StartsValue(t)
    BY Zenon DEF Mark, StartsValue, Kinds
  <1>4. Shuts(p, t)
    BY <1>1, <1>2, <1>3, Zenon DEF Shuts
  <1>5. Consume(p, t, levels) = Within(p, t)
    BY <1>3, Zenon DEF Consume
  <1>6. Closed(a) = Delivered(s, Object(fields))
    BY <1>1, Zenon DEF Closed
  <1>7. Within(p, t) = Closed(p.stack)
    <2> DEFINE colon == p.want = "colon" /\ t.kind = ":"
               comma == p.want = "more" /\ t.kind = ","
               named == At(Append(Front(p.stack), [Last(p.stack) EXCEPT !.name = t.chars]), "colon")
               goes == At(p.stack, IF Last(p.stack).kind = "array" THEN "value" ELSE "name")
    <2>1. Within(p, t) =
            CASE Shuts(p, t) -> Closed(p.stack)
              [] Names(p, t) -> named
              [] colon -> At(p.stack, "value")
              [] comma -> goes
              [] OTHER -> Refusal
      BY Zenon DEF Within
    <2>2. ~Names(p, t) /\ ~colon /\ ~comma
      BY <1>3, Zenon DEF Names
    <2> HIDE DEF colon, comma, named, goes, p, t
    <2> QED
      BY <1>4, <2>1, <2>2
  <1> QED
    BY <1>2, <1>5, <1>6, <1>7, Zenon

LEMMA Renamed ==
  ASSUME NEW fields, NEW name, NEW n, NEW e, e = OpenFields(fields, name)
  PROVE  [e EXCEPT !.name = n] = OpenFields(fields, n)
  BY DEF OpenFields

LEMMA TwoTokens ==
  ASSUME NEW S, NEW t \in S, NEW c \in S
  PROVE  <<t>> \in Seq(S) /\ <<c>> \in Seq(S) /\ <<t>> \o <<c>> = <<t, c>>
  <1>1. <<t>> \in Seq(S) /\ <<c>> \in Seq(S)
    OBVIOUS
  <1>2. /\ Len(<<t>>) = 1 /\ Len(<<c>>) = 1 /\ Len(<<t, c>>) = 2
        /\ <<t>>[1] = t /\ <<c>>[1] = c /\ <<t, c>>[1] = t /\ <<t, c>>[2] = c
        /\ <<t, c>> \in Seq(S)
    OBVIOUS
  <1>3. /\ <<t>> \o <<c>> \in Seq(S) /\ Len(<<t>> \o <<c>>) = 2
        /\ \A i \in 1..2 : (<<t>> \o <<c>>)[i] = IF i <= 1 THEN t ELSE c
    BY <1>1, <1>2, ConcatProperties
  <1>4. \A i \in 1..2 : (<<t>> \o <<c>>)[i] = <<t, c>>[i]
    <2> TAKE i \in 1..2
    <2>1. i = 1 \/ i = 2
      OBVIOUS
    <2> QED
      BY <1>2, <1>3, <2>1
  <1> QED
    BY <1>1, <1>2, <1>3, <1>4, SeqEqual

Naming == {"first name", "name"}

\* A name and its colon.
LEMMA NameLeads ==
  ASSUME NEW s, Sequence(s), NEW fields, NEW name, NEW n \in Seq(Int),
         NEW w \in Naming, NEW levels
  PROVE  Leads(At(Append(s, OpenFields(fields, name)), w), <<String(n), Mark(":")>>,
               At(Append(s, OpenFields(fields, n)), "value"), levels)
  <1> DEFINE a == Append(s, OpenFields(fields, name))
             b == Append(s, OpenFields(fields, n))
             p == At(a, w)
             q == At(b, "colon")
             t == String(n)
             c == Mark(":")
  <1>1. Consume(p, t, levels) = q
    <2>1. p.want = w /\ p.stack = a
      BY Zenon DEF At
    <2>2. t.kind = "string" /\ t.chars = n
      BY Zenon DEF String
    <2>3. Last(a) = OpenFields(fields, name) /\ Front(a) = s
      BY AppendedFront
    <2>4. [Last(a) EXCEPT !.name = t.chars] = OpenFields(fields, n)
      <3>1. [Last(a) EXCEPT !.name = n] = OpenFields(fields, n)
        <4> DEFINE e == Last(a)
        <4>1. e = OpenFields(fields, name)
          BY <2>3
        <4> HIDE DEF e
        <4>2. [e EXCEPT !.name = n] = OpenFields(fields, n)
          BY <4>1, Renamed
        <4> QED
          BY <4>2 DEF e
      <3> QED
        BY <2>2, <3>1, Zenon
    <2>5. p.want \notin {"value", "first value"}
      BY <2>1, Zenon DEF Naming
    <2>6. Consume(p, t, levels) = Within(p, t)
      BY <2>5, Zenon DEF Consume
    <2>7. ~Shuts(p, t) /\ Names(p, t)
      BY <2>1, <2>2, Zenon DEF Shuts, Names, Naming
    <2> DEFINE colon == p.want = "colon" /\ t.kind = ":"
               comma == p.want = "more" /\ t.kind = ","
               named == At(Append(Front(p.stack), [Last(p.stack) EXCEPT !.name = t.chars]), "colon")
               goes == At(p.stack, IF Last(p.stack).kind = "array" THEN "value" ELSE "name")
    <2>8. Within(p, t) =
            CASE Shuts(p, t) -> Closed(p.stack)
              [] Names(p, t) -> named
              [] colon -> At(p.stack, "value")
              [] comma -> goes
              [] OTHER -> Refusal
      BY Zenon DEF Within
    <2>9. ~colon /\ ~comma
      BY <2>2, Zenon
    <2>10. named = q
      BY <2>1, <2>3, <2>4, Zenon
    <2> HIDE DEF colon, comma, named, goes, p, t, q
    <2> QED
      BY <2>6, <2>7, <2>8, <2>9, <2>10
  <1>2. Consume(q, c, levels) = At(b, "value")
    <2>1. q.want = "colon" /\ q.stack = b
      BY Zenon DEF At
    <2>2. c.kind = ":"
      BY Zenon DEF Mark
    <2>3. Consume(q, c, levels) = Within(q, c)
      BY <2>1, Zenon DEF Consume
    <2>4. ~Shuts(q, c) /\ ~Names(q, c)
      BY <2>1, Zenon DEF Shuts, Names
    <2> DEFINE colon == q.want = "colon" /\ c.kind = ":"
               comma == q.want = "more" /\ c.kind = ","
               named == At(Append(Front(q.stack), [Last(q.stack) EXCEPT !.name = c.chars]), "colon")
               goes == At(q.stack, IF Last(q.stack).kind = "array" THEN "value" ELSE "name")
               then == At(q.stack, "value")
    <2>5. Within(q, c) =
            CASE Shuts(q, c) -> Closed(q.stack)
              [] Names(q, c) -> named
              [] colon -> then
              [] comma -> goes
              [] OTHER -> Refusal
      BY Zenon DEF Within
    <2>6. colon /\ ~comma
      BY <2>1, <2>2, Zenon
    <2>7. then = At(b, "value")
      BY <2>1, Zenon
    <2> HIDE DEF colon, comma, named, goes, then, q, c
    <2> QED
      BY <2>3, <2>4, <2>5, <2>6, <2>7
  <1>3. t \in Token /\ c \in Token
    <2>1. t \in ScalarValues
      BY DEF String, ScalarValues
    <2>2. c \in Marks
      BY Zenon DEF Marks
    <2> QED
      BY <2>1, <2>2, Zenon DEF Token
  <1> HIDE DEF p, q, t, c, b
  <1>4. Leads(p, <<t>>, q, levels)
    BY <1>1, <1>3, LeadsByToken
  <1>5. Leads(q, <<c>>, At(b, "value"), levels)
    BY <1>2, <1>3, LeadsByToken
  <1>6. <<t>> \in Seq(Token) /\ <<c>> \in Seq(Token) /\ <<t>> \o <<c>> = <<t, c>>
    BY <1>3, TwoTokens, Zenon
  <1>7. Leads(p, <<t>> \o <<c>>, At(b, "value"), levels)
    BY <1>4, <1>5, <1>6, LeadsOn
  <1> QED
    BY <1>6, <1>7, Zenon DEF p, t, c, a, b

LEMMA ScalarSpells ==
  ASSUME NEW v \in ScalarValues, NEW levels \in Nat
  PROVE  Spells(<<v>>, v, 1, levels)
  <1>1. v \in Token
    BY Zenon DEF Token
  <1>2. <<v>> \in Seq(Token) /\ <<v>> # <<>>
    BY <1>1
  <1>3. v.kind \in Kinds \ {"array", "object"} /\ v.kind \notin {"[", "{"}
    BY ScalarCases, MarksAreNoKinds DEF Kinds
  <1>4. ASSUME NEW s, NEW w, Sequence(s), w \in Expecting, Len(s) + 1 <= levels
        PROVE  Leads(At(s, w), <<v>>, Delivered(s, v), levels)
    <2>1. At(s, w).want = w /\ At(s, w).stack = s
      BY Zenon DEF At
    <2>2. StartsValue(v)
      BY <1>3, Zenon DEF StartsValue
    <2>3. Len(s) \in Nat
      BY LenProperties DEF Sequence
    <2>4. ~(Len(s) + 1 > levels)
      BY <1>4, <2>3, RoomLeft, Zenon
    <2>5. Consume(At(s, w), v, levels) = Delivered(s, v)
      BY <1>3, <1>4, <2>1, <2>2, <2>4, Zenon DEF Consume, Expecting
    <2>6. Leads(At(s, w), <<v>>, Consume(At(s, w), v, levels), levels)
      BY <1>1, LeadsByToken
    <2> QED
      BY <2>5, <2>6, Zenon
  <1> QED
    BY <1>2, <1>4, Zenon DEF Spells

LEMMA SpellsWithMore ==
  ASSUME NEW t, NEW u, NEW levels \in Nat, NEW d \in Int, NEW e \in Int, d <= e,
         Spells(t, u, d, levels)
  PROVE  Spells(t, u, e, levels)
  <1>1. ASSUME NEW s, NEW w, Sequence(s), w \in Expecting, Len(s) + e <= levels
        PROVE  Leads(At(s, w), t, Delivered(s, u), levels)
    <2>1. Len(s) \in Nat
      BY <1>1, LenProperties DEF Sequence
    <2>2. Len(s) + d <= levels
      BY <1>1, <2>1, RoomLeft, Zenon
    <2> QED
      BY <1>1, <2>2, Zenon DEF Spells
  <1> QED
    BY <1>1, Zenon DEF Spells

LEMMA LeadsNowhere ==
  ASSUME NEW p, NEW levels
  PROVE  Leads(p, <<>>, p, levels)
  <1> DEFINE g == [k \in {0} |-> p]
  <1>1. Len(<<>>) = 0 /\ g[0] = p
    OBVIOUS
  <1>2. 0..(0 - 1) = {}
    OBVIOUS
  <1> HIDE DEF g
  <1>3. \A k \in 0..(Len(<<>>) - 1) : g[k + 1] = Consume(g[k], <<>>[k + 1], levels)
    BY <1>1, <1>2
  <1>4. g[Len(<<>>)] = p
    BY <1>1
  <1> QED
    BY <1>1, <1>3, <1>4, Zenon DEF Leads

Comma == Mark(",")

\* Members and the commas between them: from first the first member leads to
\* more[1], a comma from there to next[1], and so on.
Listing(texts, first, more, next, levels) ==
  /\ texts \in Seq(Seq(Token)) /\ \A i \in 1..Len(texts) : texts[i] # <<>>
  /\ Len(texts) > 0 => Leads(first, texts[1], more[1], levels)
  /\ \A k \in 1..(Len(texts) - 1) :
       /\ Consume(more[k], Comma, levels) = next[k]
       /\ Leads(next[k], texts[k + 1], more[k + 1], levels)

LEMMA JoinedLeads ==
  ASSUME NEW s \in Seq(Token), NEW t \in Seq(Token), s # <<>>, t # <<>>,
         NEW p, NEW q, NEW r, NEW z, NEW levels, Leads(p, s, q, levels),
         Consume(q, Comma, levels) = r, Leads(r, t, z, levels)
  PROVE  /\ Joined(s, t) \in Seq(Token) /\ Joined(s, t) # <<>>
         /\ Leads(p, Joined(s, t), z, levels)
  <1> DEFINE c == Comma
  <1>1. c \in Token
    BY Zenon DEF Token, Marks, Comma
  <1>2. Joined(s, t) = s \o <<c>> \o t
    BY Zenon DEF Joined, Comma
  <1>3. Leads(q, <<c>>, r, levels)
    BY <1>1, LeadsByToken, Zenon
  <1> HIDE DEF c
  <1>4. <<c>> \in Seq(Token)
    BY <1>1
  <1>5. s \o <<c>> \in Seq(Token) /\ s \o <<c>> \o t \in Seq(Token)
    BY <1>4, ConcatProperties
  <1>6. Leads(p, s \o <<c>>, r, levels)
    BY <1>3, <1>4, LeadsOn
  <1>7. Leads(p, s \o <<c>> \o t, z, levels)
    BY <1>5, <1>6, LeadsOn
  <1>8. s \o <<c>> \o t # <<>>
    <2>1. Len(s) \in Nat /\ Len(t) \in Nat /\ Len(s) # 0 /\ Len(<<c>>) = 1
      BY EmptySeq, LenProperties
    <2>2. Len(s \o <<c>> \o t) = Len(s) + 1 + Len(t)
      BY <1>4, <1>5, <2>1, ConcatProperties
    <2>3. Len(<<>>) = 0
      OBVIOUS
    <2> QED
      BY <2>1, <2>2, <2>3
  <1> QED
    BY <1>2, <1>5, <1>7, <1>8

LEMMA MembersLead ==
  ASSUME NEW texts, NEW first, NEW more, NEW next, NEW levels,
         Listing(texts, first, more, next, levels)
  PROVE  /\ Separated(texts) \in Seq(Token)
         /\ Leads(first, Separated(texts),
                  IF Len(texts) = 0 THEN first ELSE more[Len(texts)], levels)
  <1>1. texts \in Seq(Seq(Token)) /\ Len(texts) \in Nat
    BY LenProperties DEF Listing
  <1>2. PICK g : /\ g[0] = <<>>
                 /\ \A k \in 0..(Len(texts) - 1) : g[k + 1] = Joined(g[k], texts[k + 1])
                 /\ Separated(texts) = g[Len(texts)]
    BY <1>1, TextSteps
  <1> DEFINE Leading(k) == /\ g[k] \in Seq(Token) /\ g[k] # <<>>
                           /\ Leads(first, g[k], more[k], levels)
             T == {k \in Nat : k + 1 <= Len(texts) => Leading(k + 1)}
  <1>3. 0 \in T
    <2>1. SUFFICES ASSUME 0 + 1 <= Len(texts) PROVE Leading(0 + 1)
      OBVIOUS
    <2>2. 0 \in 0..(Len(texts) - 1) /\ 1 \in 1..Len(texts) /\ Len(texts) > 0
      BY <1>1, <2>1
    <2>3. g[0 + 1] = Joined(g[0], texts[0 + 1])
      BY <1>2, <2>2
    <2>4. 0 + 1 = 1
      OBVIOUS
    <2>5. g[1] = texts[1]
      BY <1>2, <2>3, <2>4, Zenon DEF Joined
    <2>6. texts[1] \in Seq(Token) /\ texts[1] # <<>> /\ Leads(first, texts[1], more[1], levels)
      BY <1>1, <2>2, ElementOfSeq DEF Listing
    <2> QED
      BY <2>4, <2>5, <2>6, Zenon
  <1>4. ASSUME NEW k \in Nat, k \in T PROVE k + 1 \in T
    <2> DEFINE j == k + 1
    <2>1. SUFFICES ASSUME j + 1 <= Len(texts) PROVE Leading(j + 1)
      OBVIOUS
    <2>2. /\ j \in 0..(Len(texts) - 1) /\ j \in 1..(Len(texts) - 1)
          /\ j + 1 \in 1..Len(texts) /\ j <= Len(texts)
      BY <1>1, <2>1
    <2>3. Leading(j)
      BY <1>4, <2>2
    <2> HIDE DEF j
    <2>4. g[j + 1] = Joined(g[j], texts[j + 1])
      BY <1>2, <2>2
    <2>5. /\ texts[j + 1] \in Seq(Token) /\ texts[j + 1] # <<>>
          /\ Consume(more[j], Comma, levels) = next[j]
          /\ Leads(next[j], texts[j + 1], more[j + 1], levels)
      <3>1. texts[j + 1] \in Seq(Token)
        BY <1>1, <2>2, ElementOfSeq
      <3>2. texts[j + 1] # <<>>
        BY <2>2, Zenon DEF Listing
      <3> QED
        BY <2>2, <3>1, <3>2, Zenon DEF Listing
    <2>6. /\ Joined(g[j], texts[j + 1]) \in Seq(Token) /\ Joined(g[j], texts[j + 1]) # <<>>
          /\ Leads(first, Joined(g[j], texts[j + 1]), more[j + 1], levels)
      BY <2>3, <2>5, JoinedLeads
    <2> QED
      BY <2>4, <2>6
  <1>5. \A k \in Nat : k \in T
    <2> HIDE DEF T
    <2> QED
      BY <1>3, <1>4, SetInduction
  <1>6. CASE Len(texts) = 0
    <2>1. Separated(texts) = <<>>
      BY <1>2, <1>6
    <2>2. Leads(first, <<>>, first, levels)
      BY LeadsNowhere
    <2>3. <<>> \in Seq(Token)
      OBVIOUS
    <2> QED
      BY <1>6, <2>1, <2>2, <2>3
  <1>7. CASE Len(texts) # 0
    <2> DEFINE k == Len(texts) - 1
    <2>1. k \in Nat /\ k + 1 = Len(texts) /\ k + 1 <= Len(texts)
      BY <1>1, <1>7
    <2>2. Leading(k + 1)
      <3> HIDE DEF k, Leading
      <3> QED
        BY <1>5, <2>1
    <2> HIDE DEF k
    <2> QED
      BY <1>2, <1>7, <2>1, <2>2
  <1> QED
    BY <1>6, <1>7

\* The first k of a sequence.
Taken(s, k) == [i \in 1..k |-> s[i]]

LEMMA TakenGrows ==
  ASSUME NEW s, Sequence(s)
  PROVE  /\ Taken(s, 0) = <<>> /\ Taken(s, Len(s)) = s
         /\ \A k \in 0..(Len(s) - 1) :
              Sequence(Taken(s, k)) /\ Append(Taken(s, k), s[k + 1]) = Taken(s, k + 1)
  <1>1. PICK S : s \in Seq(S)
    BY DEF Sequence
  <1>2. Len(s) \in Nat /\ \A i \in 1..Len(s) : s[i] \in S
    BY <1>1, LenProperties, ElementOfSeq
  <1>3. \A k \in 0..Len(s) : /\ Taken(s, k) \in Seq(S) /\ Len(Taken(s, k)) = k
                             /\ \A i \in 1..k : Taken(s, k)[i] = s[i]
    BY <1>2 DEF Taken
  <1>4. Taken(s, Len(s)) = s
    BY <1>1, <1>2, <1>3, SeqEqual
  <1>5. Taken(s, 0) = <<>>
    BY <1>2, <1>3, EmptySeq
  <1>6. ASSUME NEW k \in 0..(Len(s) - 1)
        PROVE  Sequence(Taken(s, k)) /\ Append(Taken(s, k), s[k + 1]) = Taken(s, k + 1)
    <2> DEFINE a == Append(Taken(s, k), s[k + 1])
    <2>1. /\ k \in 0..Len(s) /\ k + 1 \in 0..Len(s) /\ k + 1 \in 1..Len(s)
      BY <1>2
    <2>2. /\ a \in Seq(S) /\ Len(a) = k + 1 /\ a[k + 1] = s[k + 1]
          /\ \A i \in 1..k : a[i] = s[i]
      BY <1>2, <1>3, <2>1, AppendProperties
    <2> HIDE DEF a
    <2>3. \A i \in 1..(k + 1) : a[i] = Taken(s, k + 1)[i]
      <3> TAKE i \in 1..(k + 1)
      <3>1. i \in 1..k \/ i = k + 1
        OBVIOUS
      <3>2. Taken(s, k + 1)[i] = s[i]
        BY <1>3, <2>1
      <3> QED
        BY <2>2, <3>1, <3>2
    <2>4. a = Taken(s, k + 1)
      BY <1>3, <2>1, <2>2, <2>3, SeqEqual
    <2> QED
      BY <1>3, <2>1, <2>4 DEF Sequence, a
  <1> QED
    BY <1>4, <1>5, <1>6

LEMMA ListedMember ==
  ASSUME NEW items, NEW u
  PROVE  [OpenList(items) EXCEPT !.items = Append(@, u)] = OpenList(Append(items, u))
  BY DEF OpenList

LEMMA NamedMember ==
  ASSUME NEW fields, NEW name, NEW more
  PROVE  [OpenFields(fields, name) EXCEPT !.fields = more] = OpenFields(more, name)
  BY DEF OpenFields

LEMMA DeliveredOnTop ==
  ASSUME NEW s, Sequence(s), NEW u, NEW e, NEW kept,
         kept = IF e.kind = "array"
                THEN [e EXCEPT !.items = Append(@, u)]
                ELSE [e EXCEPT !.fields = Updated(@, e.name, u)]
  PROVE  Delivered(Append(s, e), u) = At(Append(s, kept), "more")
  <1> DEFINE into(top) == IF top.kind = "array"
                          THEN [top EXCEPT !.items = Append(@, u)]
                          ELSE [top EXCEPT !.fields = Updated(@, top.name, u)]
  <1>1. Append(s, e) # <<>> /\ Front(Append(s, e)) = s /\ Last(Append(s, e)) = e
    BY AppendedElements, AppendedFront
  <1>2. Delivered(Append(s, e), u) =
          At(Append(Front(Append(s, e)), into(Last(Append(s, e)))), "more")
    BY <1>1, Zenon DEF Delivered
  <1>3. kept = into(e)
    BY Zenon
  <1> HIDE DEF into
  <1> QED
    BY <1>1, <1>2, <1>3, Zenon

LEMMA DeliveredInList ==
  ASSUME NEW s, Sequence(s), NEW u, NEW items
  PROVE  Delivered(Append(s, OpenList(items)), u) =
           At(Append(s, OpenList(Append(items, u))), "more")
  <1> DEFINE e == OpenList(items)
             kept == OpenList(Append(items, u))
  <1>1. e.kind = "array"
    BY DEF OpenList
  <1>2. [e EXCEPT !.items = Append(@, u)] = kept
    BY ListedMember
  <1> HIDE DEF e, kept
  <1>3. kept = IF e.kind = "array"
               THEN [e EXCEPT !.items = Append(@, u)]
               ELSE [e EXCEPT !.fields = Updated(@, e.name, u)]
    BY <1>1, <1>2, Zenon
  <1>4. Delivered(Append(s, e), u) = At(Append(s, kept), "more")
    BY <1>3, DeliveredOnTop, Zenon
  <1> QED
    BY <1>4 DEF e, kept

LEMMA DeliveredInFields ==
  ASSUME NEW s, Sequence(s), NEW u, NEW fields, NEW name
  PROVE  Delivered(Append(s, OpenFields(fields, name)), u) =
           At(Append(s, OpenFields(Updated(fields, name, u), name)), "more")
  <1> DEFINE e == OpenFields(fields, name)
             kept == OpenFields(Updated(fields, name, u), name)
  <1>1. e.kind # "array" /\ e.name = name /\ e.fields = fields
    BY DEF OpenFields
  <1>2. [e EXCEPT !.fields = Updated(fields, name, u)] = kept
    BY NamedMember
  <1> HIDE DEF e, kept
  <1>3. [e EXCEPT !.fields = Updated(@, e.name, u)] = kept
    BY <1>1, <1>2, Zenon
  <1>4. kept = IF e.kind = "array"
               THEN [e EXCEPT !.items = Append(@, u)]
               ELSE [e EXCEPT !.fields = Updated(@, e.name, u)]
    BY <1>1, <1>3, Zenon
  <1>5. Delivered(Append(s, e), u) = At(Append(s, kept), "more")
    BY <1>4, DeliveredOnTop, Zenon
  <1> QED
    BY <1>5 DEF e, kept

\* A member, one level further in than the stack s.
LEMMA MemberLeads ==
  ASSUME NEW levels \in Nat, NEW d \in Nat, NEW s, Sequence(s), Len(s) + (d + 1) <= levels,
         NEW t, NEW u, Spells(t, u, d, levels), NEW w \in Expecting, NEW e
  PROVE  Leads(At(Append(s, e), w), t, Delivered(Append(s, e), u), levels)
  <1>1. Sequence(Append(s, e)) /\ Len(Append(s, e)) = Len(s) + 1 /\ Len(s) \in Nat
    BY AppendedElements
  <1>2. Len(Append(s, e)) + d <= levels
    BY <1>1
  <1> QED
    BY <1>1, <1>2, Zenon DEF Spells

LeftBracket == Mark("[")
RightBracket == Mark("]")
LeftBrace == Mark("{")
RightBrace == Mark("}")

LEMMA BracketsAreTokens ==
  /\ LeftBracket \in Token /\ RightBracket \in Token
  /\ LeftBrace \in Token /\ RightBrace \in Token
  BY Zenon DEF LeftBracket, RightBracket, LeftBrace, RightBrace, Token, Marks

\* What is in brackets.
LEMMA BracketsLead ==
  ASSUME NEW p, NEW q, NEW r, NEW z, NEW levels, NEW l \in Token, NEW m \in Token,
         NEW t \in Seq(Token), Consume(p, l, levels) = q, Leads(q, t, r, levels),
         Consume(r, m, levels) = z
  PROVE  /\ <<l>> \o t \o <<m>> \in Seq(Token) /\ <<l>> \o t \o <<m>> # <<>>
         /\ Leads(p, <<l>> \o t \o <<m>>, z, levels)
  <1>1. <<l>> \in Seq(Token) /\ <<m>> \in Seq(Token) /\ Len(<<l>>) = 1 /\ Len(<<m>>) = 1
    OBVIOUS
  <1>2. Leads(p, <<l>>, q, levels) /\ Leads(r, <<m>>, z, levels)
    BY LeadsByToken, Zenon
  <1>3. <<l>> \o t \in Seq(Token) /\ <<l>> \o t \o <<m>> \in Seq(Token)
    BY <1>1, ConcatProperties
  <1>4. Leads(p, <<l>> \o t, r, levels)
    BY <1>1, <1>2, LeadsOn
  <1>5. Leads(p, <<l>> \o t \o <<m>>, z, levels)
    BY <1>1, <1>2, <1>3, <1>4, LeadsOn
  <1>6. <<l>> \o t \o <<m>> # <<>>
    <2>1. Len(t) \in Nat
      BY LenProperties
    <2>2. Len(<<l>> \o t \o <<m>>) = 1 + Len(t) + 1
      BY <1>1, <1>3, ConcatProperties
    <2>3. Len(<<>>) = 0
      OBVIOUS
    <2> QED
      BY <2>1, <2>2, <2>3
  <1> QED
    BY <1>3, <1>5, <1>6

\* An array is spelled by what spells its items, one level further in.
LEMMA ArraySpells ==
  ASSUME NEW levels \in Nat, NEW d \in Nat, NEW texts \in Seq(Seq(Token)), NEW us, Sequence(us),
         Len(us) = Len(texts), \A i \in 1..Len(texts) : Spells(texts[i], us[i], d, levels)
  PROVE  Spells(<<LeftBracket>> \o Separated(texts) \o <<RightBracket>>, Array(us), d + 1, levels)
  <1> DEFINE n == Len(texts)
             text == <<LeftBracket>> \o Separated(texts) \o <<RightBracket>>
  <1>1. ASSUME NEW s, NEW w, Sequence(s), w \in Expecting, Len(s) + (d + 1) <= levels
        PROVE  /\ text \in Seq(Token) /\ text # <<>>
               /\ Leads(At(s, w), text, Delivered(s, Array(us)), levels)
    <2> DEFINE b(k) == Append(s, OpenList(Taken(us, k)))
               first == At(b(0), "first value")
               more == [k \in 1..n |-> At(b(k), "more")]
               next == [k \in 1..n |-> At(b(k), "value")]
               last == IF n = 0 THEN first ELSE more[n]
    <2>1. n \in Nat /\ Len(s) \in Nat /\ Len(s) + 1 <= levels
      <3>1. n \in Nat /\ Len(s) \in Nat
        BY LenProperties DEF Sequence
      <3> HIDE DEF n
      <3> QED
        BY <1>1, <3>1
    <2>2. Consume(At(s, w), LeftBracket, levels) = first
      BY <1>1, <2>1, OpensBracket, TakenGrows, Zenon DEF LeftBracket
    <2>3. \A k \in 1..n : Consume(At(b(k), "more"), Comma, levels) = At(b(k), "value")
      BY <1>1, CommaGoesOn, Zenon DEF Comma
    <2>4. ASSUME NEW k \in 0..(n - 1), NEW x \in Expecting
          PROVE  Leads(At(b(k), x), texts[k + 1], At(b(k + 1), "more"), levels)
      <3>1. k + 1 \in 1..Len(texts) /\ k \in 0..(Len(us) - 1)
        BY <2>1
      <3>2. Spells(texts[k + 1], us[k + 1], d, levels)
        BY <3>1
      <3>3. Leads(At(b(k), x), texts[k + 1], Delivered(b(k), us[k + 1]), levels)
        BY <1>1, <3>2, MemberLeads
      <3>4. Append(Taken(us, k), us[k + 1]) = Taken(us, k + 1)
        BY <3>1, TakenGrows
      <3>5. Delivered(b(k), us[k + 1]) = At(Append(s, OpenList(Append(Taken(us, k), us[k + 1]))), "more")
        BY <1>1, DeliveredInList, Zenon
      <3>6. Delivered(b(k), us[k + 1]) = At(b(k + 1), "more")
        BY <3>4, <3>5, Zenon
      <3> QED
        BY <3>3, <3>6, Zenon
    <2>5. "value" \in Expecting /\ "first value" \in Expecting
      BY Zenon DEF Expecting
    <2>6. /\ \A k \in 1..n : more[k] = At(b(k), "more") /\ next[k] = At(b(k), "value")
      BY Zenon
    <2>7. n > 0 => Leads(first, texts[1], more[1], levels)
      <3>1. SUFFICES ASSUME n > 0 PROVE Leads(first, texts[1], more[1], levels)
        OBVIOUS
      <3>2. 0 \in 0..(n - 1) /\ 0 + 1 = 1 /\ 1 \in 1..n
        <4> HIDE DEF n
        <4> QED
          BY <2>1, <3>1
      <3> QED
        BY <2>4, <2>5, <2>6, <3>2, Zenon
    <2>8. \A k \in 1..(n - 1) : /\ Consume(more[k], Comma, levels) = next[k]
                                /\ Leads(next[k], texts[k + 1], more[k + 1], levels)
      <3> TAKE k \in 1..(n - 1)
      <3>1. k \in 0..(n - 1) /\ k \in 1..n /\ k + 1 \in 1..n
        <4> HIDE DEF n
        <4> QED
          BY <2>1
      <3> QED
        BY <2>3, <2>4, <2>5, <2>6, <3>1, Zenon
    <2>9. Listing(texts, first, more, next, levels)
      <3>1. \A i \in 1..Len(texts) : texts[i] # <<>>
        BY Zenon DEF Spells
      <3> HIDE DEF first, more, next
      <3> QED
        BY <2>7, <2>8, <3>1, Zenon DEF Listing
    <2>10. Separated(texts) \in Seq(Token) /\ Leads(first, Separated(texts), last, levels)
      <3> HIDE DEF first, more, next
      <3> QED
        BY <2>9, MembersLead, Zenon
    <2>11. Consume(last, RightBracket, levels) = Delivered(s, Array(us))
      <3>1. Taken(us, n) = us
        BY TakenGrows, Zenon
      <3>2. CASE n = 0
        <4>1. last = At(Append(s, OpenList(us)), "first value")
          BY <3>1, <3>2, Zenon
        <4> QED
          BY <1>1, <4>1, ArrayShuts, Zenon DEF RightBracket
      <3>3. CASE n # 0
        <4>1. n \in 1..n
          <5> HIDE DEF n
          <5> QED
            BY <2>1, <3>3
        <4>2. last = At(Append(s, OpenList(us)), "more")
          BY <2>6, <3>1, <3>3, <4>1, Zenon
        <4> QED
          BY <1>1, <4>2, ArrayShuts, Zenon DEF RightBracket
      <3> QED
        BY <3>2, <3>3, Zenon
    <2> HIDE DEF first, last
    <2>12. LeftBracket \in Token /\ RightBracket \in Token
      BY BracketsAreTokens
    <2> QED
      BY <2>2, <2>10, <2>11, <2>12, BracketsLead, Zenon
  <1>2. text \in Seq(Token) /\ text # <<>>
    <2>1. texts \in Seq(Seq(Token))
      OBVIOUS
    <2>2. Separated(texts) \in Seq(Token)
      BY SeparatedTyped
    <2>3. <<LeftBracket>> \in Seq(Token) /\ <<RightBracket>> \in Seq(Token)
      BY BracketsAreTokens
    <2>4. /\ <<LeftBracket>> \o Separated(texts) \in Seq(Token)
          /\ <<LeftBracket>> \o Separated(texts) \o <<RightBracket>> \in Seq(Token)
      BY <2>2, <2>3, ConcatProperties
    <2>5. text # <<>>
      <3>1. Len(Separated(texts)) \in Nat /\ Len(<<LeftBracket>>) = 1 /\ Len(<<RightBracket>>) = 1
        BY <2>2, LenProperties
      <3>2. Len(text) = 1 + Len(Separated(texts)) + 1
        BY <2>2, <2>3, <2>4, <3>1, ConcatProperties
      <3>3. Len(<<>>) = 0
        OBVIOUS
      <3> QED
        BY <3>1, <3>2, <3>3
    <2> QED
      BY <2>4, <2>5
  <1> HIDE DEF text
  <1>3. Spells(text, Array(us), d + 1, levels)
    BY <1>1, <1>2, Zenon DEF Spells
  <1> QED
    BY <1>3 DEF text

\* The members of f whose names are among the first k.
Among(f, names, k) == [n \in {names[j] : j \in 1..k} |-> f[n]]

LEMMA AmongGrows ==
  ASSUME NEW f, NEW names, NEW k \in Nat
  PROVE  Updated(Among(f, names, k), names[k + 1], f[names[k + 1]]) = Among(f, names, k + 1)
  <1> DEFINE D == {names[j] : j \in 1..k}
             E == {names[j] : j \in 1..(k + 1)}
             n == names[k + 1]
             a == Among(f, names, k)
  <1>1. E = D \cup {n}
    <2>1. 1..(k + 1) = 1..k \cup {k + 1}
      OBVIOUS
    <2> QED
      BY <2>1, Zenon
  <1>2. DOMAIN a = D /\ \A m \in D : a[m] = f[m]
    BY Zenon DEF Among
  <1>3. Updated(a, n, f[n]) = [m \in DOMAIN a \cup {n} |-> IF m = n THEN f[n] ELSE a[m]]
    BY Zenon DEF Updated
  <1>4. Among(f, names, k + 1) = [m \in E |-> f[m]]
    BY Zenon DEF Among
  <1> HIDE DEF a, D, E, n
  <1>5. \A m \in D \cup {n} : (IF m = n THEN f[n] ELSE a[m]) = f[m]
    BY <1>2
  <1>6. [m \in D \cup {n} |-> IF m = n THEN f[n] ELSE a[m]] = [m \in D \cup {n} |-> f[m]]
    BY <1>5
  <1> QED
    BY <1>1, <1>2, <1>3, <1>4, <1>6, Zenon DEF a, n

Mapping(f) == f = [n \in DOMAIN f |-> f[n]]

LEMMA AmongAll ==
  ASSUME NEW f, NEW names, Mapping(f), NEW S, names \in Seq(S),
         ToSet(names) = DOMAIN f
  PROVE  Among(f, names, 0) = <<>> /\ Among(f, names, Len(names)) = f
  <1>1. {names[j] : j \in 1..Len(names)} = DOMAIN f
    BY LenProperties DEF ToSet
  <1>2. Among(f, names, Len(names)) = f
    BY <1>1, Zenon DEF Among, Mapping
  <1>3. {names[j] : j \in 1..0} = {}
    OBVIOUS
  <1>4. Among(f, names, 0) = [n \in {} |-> f[n]]
    BY <1>3, Zenon DEF Among
  <1>5. [n \in {} |-> f[n]] = <<>>
    OBVIOUS
  <1> QED
    BY <1>2, <1>4, <1>5

Colon == Mark(":")

LEMMA MemberTyped ==
  ASSUME NEW m \in Seq(Int), NEW t \in Seq(Token)
  PROVE  /\ <<String(m), Colon>> \in Seq(Token)
         /\ <<String(m), Colon>> \o t \in Seq(Token) /\ <<String(m), Colon>> \o t # <<>>
  <1>1. String(m) \in Token
    BY DEF String, Token, ScalarValues
  <1>2. Colon \in Token
    BY Zenon DEF Token, Marks, Colon
  <1>3. <<String(m), Colon>> \in Seq(Token) /\ Len(<<String(m), Colon>>) = 2
    BY <1>1, <1>2
  <1>4. <<String(m), Colon>> \o t \in Seq(Token) /\ Len(<<String(m), Colon>> \o t) = 2 + Len(t)
    BY <1>3, ConcatProperties
  <1>5. Len(t) \in Nat /\ Len(<<>>) = 0
    BY LenProperties
  <1>6. <<String(m), Colon>> \o t # <<>>
    BY <1>4, <1>5
  <1> QED
    BY <1>3, <1>4, <1>6

LEMMA NameGoesOn ==
  ASSUME NEW s, Sequence(s), NEW fields, NEW name, NEW levels
  PROVE  Consume(At(Append(s, OpenFields(fields, name)), "more"), Comma, levels) =
           At(Append(s, OpenFields(fields, name)), "name")
  BY CommaGoesOn, Zenon DEF Comma

LEMMA NamedLeads ==
  ASSUME NEW levels \in Nat, NEW d \in Nat, NEW s, Sequence(s), Len(s) + (d + 1) <= levels,
         NEW f, NEW name, NEW m \in Seq(Int), NEW t, NEW u, Spells(t, u, d, levels),
         NEW w \in Naming
  PROVE  Leads(At(Append(s, OpenFields(f, name)), w), <<String(m), Colon>> \o t,
               At(Append(s, OpenFields(Updated(f, m, u), m)), "more"), levels)
  <1> DEFINE p == At(Append(s, OpenFields(f, name)), w)
             q == At(Append(s, OpenFields(f, m)), "value")
             r == At(Append(s, OpenFields(Updated(f, m, u), m)), "more")
  <1>1. Leads(p, <<String(m), Colon>>, q, levels)
    BY NameLeads, Zenon DEF Colon
  <1>2. "value" \in Expecting
    BY Zenon DEF Expecting
  <1>3. Leads(q, t, Delivered(Append(s, OpenFields(f, m)), u), levels)
    BY <1>2, MemberLeads, Zenon
  <1>4. Delivered(Append(s, OpenFields(f, m)), u) = r
    BY DeliveredInFields, Zenon
  <1>5. Leads(q, t, r, levels)
    BY <1>3, <1>4, Zenon
  <1>6. t \in Seq(Token)
    BY Zenon DEF Spells
  <1>7. <<String(m), Colon>> \in Seq(Token)
    BY <1>6, MemberTyped
  <1> HIDE DEF p, q, r
  <1>8. Leads(p, <<String(m), Colon>> \o t, r, levels)
    BY <1>1, <1>5, <1>6, <1>7, LeadsOn
  <1> QED
    BY <1>8 DEF p, r

\* An object is spelled by its names in order, each with what spells its value.
LEMMA ObjectSpells ==
  ASSUME NEW levels \in Nat, NEW d \in Nat, NEW us, Mapping(us),
         Keyed(us), NEW dumps, \A n \in DOMAIN us : Spells(dumps[n], us[n], d, levels),
         NEW names, names = InOrder(DOMAIN us),
         NEW texts, texts = [i \in DOMAIN names |-> <<String(names[i]), Colon>> \o dumps[names[i]]]
  PROVE  Spells(<<LeftBrace>> \o Separated(texts) \o <<RightBrace>>, Object(us), d + 1, levels)
  <1> DEFINE n == Len(names)
             text == <<LeftBrace>> \o Separated(texts) \o <<RightBrace>>
             member(i) == <<String(names[i]), Colon>> \o dumps[names[i]]
  <1>1. names \in Seq(DOMAIN us) /\ ToSet(names) = DOMAIN us /\ DOMAIN us \subseteq Seq(Int)
    BY NamesInOrder DEF Keyed
  <1>2. n \in Nat /\ DOMAIN names = 1..n /\ \A i \in 1..n : names[i] \in DOMAIN us
    BY <1>1, LenProperties, ElementOfSeq
  <1>3. ASSUME NEW i \in 1..n PROVE member(i) \in Seq(Token) /\ member(i) # <<>>
    <2>1. names[i] \in Seq(Int) /\ dumps[names[i]] \in Seq(Token)
      <3>1. names[i] \in DOMAIN us
        BY <1>2
      <3> QED
        BY <1>1, <3>1, Zenon DEF Spells
    <2> QED
      BY <2>1, MemberTyped
  <1>4. texts \in Seq(Seq(Token)) /\ Len(texts) = n /\ \A i \in 1..n : texts[i] = member(i)
    <2>1. texts = [i \in 1..n |-> member(i)]
      BY <1>2, Zenon
    <2> HIDE DEF member, n
    <2>2. [i \in 1..n |-> member(i)] \in Seq(Seq(Token))
      BY <1>2, <1>3
    <2>3. Len([i \in 1..n |-> member(i)]) = n
      BY <1>2
    <2> QED
      BY <2>1, <2>2, <2>3
  <1> HIDE DEF member
  <1>5. text \in Seq(Token) /\ text # <<>>
    <2>2. Separated(texts) \in Seq(Token)
      BY <1>4, SeparatedTyped
    <2>3. <<LeftBrace>> \in Seq(Token) /\ <<RightBrace>> \in Seq(Token)
      BY BracketsAreTokens
    <2>4. /\ <<LeftBrace>> \o Separated(texts) \in Seq(Token)
          /\ <<LeftBrace>> \o Separated(texts) \o <<RightBrace>> \in Seq(Token)
      BY <2>2, <2>3, ConcatProperties
    <2>5. text # <<>>
      <3>1. Len(Separated(texts)) \in Nat /\ Len(<<LeftBrace>>) = 1 /\ Len(<<RightBrace>>) = 1
        BY <2>2, LenProperties
      <3>2. Len(text) = 1 + Len(Separated(texts)) + 1
        BY <2>2, <2>3, <2>4, <3>1, ConcatProperties
      <3>3. Len(<<>>) = 0
        OBVIOUS
      <3> QED
        BY <3>1, <3>2, <3>3
    <2> QED
      BY <2>4, <2>5
  <1>6. ASSUME NEW s, NEW w, Sequence(s), w \in Expecting, Len(s) + (d + 1) <= levels
        PROVE  Leads(At(s, w), text, Delivered(s, Object(us)), levels)
    <2> DEFINE name(k) == IF k = 0 THEN <<>> ELSE names[k]
               b(k) == Append(s, OpenFields(Among(us, names, k), name(k)))
               first == At(b(0), "first name")
               more == [k \in 1..n |-> At(b(k), "more")]
               next == [k \in 1..n |-> At(b(k), "name")]
               last == IF n = 0 THEN first ELSE more[n]
    <2>1. Len(s) \in Nat /\ Len(s) + 1 <= levels
      <3>1. Len(s) \in Nat
        BY <1>6, LenProperties DEF Sequence
      <3> QED
        BY <1>6, <3>1
    <2>2. Consume(At(s, w), LeftBrace, levels) = first
      <3>1. Among(us, names, 0) = <<>>
        BY <1>1, AmongAll
      <3> QED
        BY <1>6, <2>1, <3>1, OpensBracket, Zenon DEF LeftBrace
    <2>3. \A k \in 1..n : Consume(At(b(k), "more"), Comma, levels) = At(b(k), "name")
      <3> TAKE k \in 1..n
      <3> DEFINE f == Among(us, names, k)
                 m == name(k)
      <3>1. b(k) = Append(s, OpenFields(f, m))
        OBVIOUS
      <3> HIDE DEF f, m
      <3>2. Consume(At(Append(s, OpenFields(f, m)), "more"), Comma, levels) =
              At(Append(s, OpenFields(f, m)), "name")
        BY <1>6, NameGoesOn, Zenon
      <3> HIDE DEF b
      <3> QED
        BY <3>1, <3>2, Zenon
    <2>4. ASSUME NEW k \in 0..(n - 1), NEW x \in Naming
          PROVE  Leads(At(b(k), x), texts[k + 1], At(b(k + 1), "more"), levels)
      <3> DEFINE m == names[k + 1]
                 f == Among(us, names, k)
      <3>1. k \in Nat /\ k + 1 \in 1..n /\ k + 1 # 0
        <4> HIDE DEF n
        <4> QED
          BY <1>2
      <3>2. m \in DOMAIN us /\ m \in Seq(Int)
        BY <1>1, <1>2, <3>1
      <3>3. Spells(dumps[m], us[m], d, levels)
        BY <3>2, Zenon
      <3>4. b(k) = Append(s, OpenFields(f, name(k)))
        OBVIOUS
      <3>5. Updated(f, m, us[m]) = Among(us, names, k + 1)
        BY <3>1, AmongGrows
      <3>6. name(k + 1) = m
        BY <3>1
      <3> HIDE DEF f, m, name
      <3>7. Leads(At(Append(s, OpenFields(f, name(k))), x), <<String(m), Colon>> \o dumps[m],
                  At(Append(s, OpenFields(Updated(f, m, us[m]), m)), "more"), levels)
        BY <1>6, <3>2, <3>3, NamedLeads, Zenon
      <3>8. texts[k + 1] = <<String(m), Colon>> \o dumps[m]
        BY <1>4, <3>1, Zenon DEF member, m
      <3>9. b(k + 1) = Append(s, OpenFields(Updated(f, m, us[m]), m))
        BY <3>5, <3>6, Zenon
      <3> HIDE DEF b
      <3> QED
        BY <3>4, <3>7, <3>8, <3>9, Zenon
    <2>6. /\ \A k \in 1..n : more[k] = At(b(k), "more") /\ next[k] = At(b(k), "name")
      BY Zenon
    <2>7. n > 0 => Leads(first, texts[1], more[1], levels)
      <3>1. SUFFICES ASSUME n > 0 PROVE Leads(first, texts[1], more[1], levels)
        OBVIOUS
      <3>2. 0 \in 0..(n - 1) /\ 0 + 1 = 1 /\ 1 \in 1..n
        <4> HIDE DEF n
        <4> QED
          BY <1>2, <3>1
      <3>3. "first name" \in Naming
        BY Zenon DEF Naming
      <3> HIDE DEF b
      <3>4. Leads(At(b(0), "first name"), texts[0 + 1], At(b(0 + 1), "more"), levels)
        BY <2>4, <3>2, <3>3, Zenon
      <3> QED
        BY <2>6, <3>2, <3>4, Zenon
    <2>8. \A k \in 1..(n - 1) : /\ Consume(more[k], Comma, levels) = next[k]
                                /\ Leads(next[k], texts[k + 1], more[k + 1], levels)
      <3> TAKE k \in 1..(n - 1)
      <3>1. k \in 0..(n - 1) /\ k \in 1..n /\ k + 1 \in 1..n
        <4> HIDE DEF n
        <4> QED
          BY <1>2
      <3>2. "name" \in Naming
        BY Zenon DEF Naming
      <3> HIDE DEF b
      <3>3. Leads(At(b(k), "name"), texts[k + 1], At(b(k + 1), "more"), levels)
        BY <2>4, <3>1, <3>2, Zenon
      <3> QED
        BY <2>3, <2>6, <3>1, <3>3, Zenon
    <2>9. Listing(texts, first, more, next, levels)
      <3>1. \A i \in 1..Len(texts) : texts[i] # <<>>
        <4> HIDE DEF n, first, more, next, last, b
        <4> QED
          BY <1>3, <1>4
      <3> HIDE DEF first, more, next
      <3> QED
        BY <1>4, <2>7, <2>8, <3>1, Zenon DEF Listing
    <2>10. Separated(texts) \in Seq(Token) /\ Leads(first, Separated(texts), last, levels)
      <3> HIDE DEF first, more, next
      <3> QED
        <4>1. /\ Separated(texts) \in Seq(Token)
              /\ Leads(first, Separated(texts),
                       IF Len(texts) = 0 THEN first ELSE more[Len(texts)], levels)
          BY <2>9, MembersLead, Zenon
        <4> HIDE DEF n
        <4> QED
          BY <1>4, <4>1, Zenon
    <2>11. Consume(last, RightBrace, levels) = Delivered(s, Object(us))
      <3>1. Among(us, names, n) = us
        BY <1>1, AmongAll
      <3>2. CASE n = 0
        <4>1. last = At(Append(s, OpenFields(us, name(0))), "first name")
          BY <3>1, <3>2, Zenon
        <4> HIDE DEF name, last
        <4> QED
          BY <1>6, <4>1, ObjectShuts, Zenon DEF RightBrace
      <3>3. CASE n # 0
        <4>1. n \in 1..n
          <5> HIDE DEF n
          <5> QED
            BY <1>2, <3>3
        <4>2. last = At(Append(s, OpenFields(us, name(n))), "more")
          BY <2>6, <3>1, <3>3, <4>1, Zenon
        <4> HIDE DEF name, last
        <4> QED
          BY <1>6, <4>2, ObjectShuts, Zenon DEF RightBrace
      <3> QED
        BY <3>2, <3>3, Zenon
    <2> HIDE DEF first, last
    <2>12. LeftBrace \in Token /\ RightBrace \in Token
      BY BracketsAreTokens
    <2> QED
      BY <2>2, <2>10, <2>11, <2>12, BracketsLead, Zenon
  <1> HIDE DEF text
  <1>7. Spells(text, Object(us), d + 1, levels)
    BY <1>5, <1>6, Zenon DEF Spells
  <1> QED
    BY <1>7 DEF text

\* The text of v spells a value; if exact, v itself.
Good(v, d, levels, exact) == \E u : Spells(Dump(v), u, d, levels) /\ (exact => u = v)

LEMMA GoodWithMore ==
  ASSUME NEW v, NEW levels \in Nat, NEW d \in Int, NEW e \in Int, d <= e, NEW exact, NEW looser,
         Good(v, d, levels, exact), looser => exact
  PROVE  Good(v, e, levels, looser)
  <1>1. PICK u : Spells(Dump(v), u, d, levels) /\ (exact => u = v)
    BY Zenon DEF Good
  <1>2. Spells(Dump(v), u, e, levels)
    BY <1>1, SpellsWithMore
  <1> QED
    BY <1>1, <1>2, Zenon DEF Good

LEMMA CompoundDump ==
  ASSUME NEW v, v.kind \in {"array", "object"}
  PROVE  Dump(v) = v.dump
  <1>1. v # Infinite
    BY DEF Infinite, Number
  <1> QED
    BY <1>1 DEF Dump

LEMMA ScalarGood ==
  ASSUME NEW v \in ScalarValues, NEW levels \in Nat, NEW exact, exact => v # Infinite
  PROVE  Good(v, 1, levels, exact)
  <1>1. v.kind \notin {"array", "object"}
    BY ScalarCases
  <1>2. CASE v = Infinite
    <2>1. Dump(v) = <<Null>>
      BY <1>1, <1>2, Zenon DEF Dump
    <2>2. Null \in ScalarValues
      BY DEF ScalarValues
    <2>3. Spells(<<Null>>, Null, 1, levels)
      BY <2>2, ScalarSpells
    <2> QED
      BY <1>2, <2>1, <2>3, Zenon DEF Good
  <1>3. CASE v # Infinite
    <2>1. Dump(v) = <<v>>
      BY <1>1, <1>3, Zenon DEF Dump
    <2>2. Spells(<<v>>, v, 1, levels)
      BY ScalarSpells
    <2> QED
      BY <2>1, <2>2, Zenon DEF Good
  <1> QED
    BY <1>2, <1>3

LEMMA ArrayGood ==
  ASSUME NEW items, Sequence(items), NEW levels \in Nat, NEW d \in Nat, NEW exact,
         \A i \in 1..Len(items) : Good(items[i], d, levels, exact)
  PROVE  Good(Array(items), d + 1, levels, exact)
  <1> DEFINE n == Len(items)
             Is(i, u) == Spells(Dump(items[i]), u, d, levels) /\ (exact => u = items[i])
             us == [i \in 1..n |-> CHOOSE u : Is(i, u)]
             texts == [i \in DOMAIN items |-> Dump(items[i])]
  <1>1. n \in Nat /\ DOMAIN items = 1..n
    BY LenProperties DEF Sequence
  <1>2. ASSUME NEW i \in 1..n PROVE Is(i, us[i])
    <2>1. \E u : Is(i, u)
      BY Zenon DEF Good
    <2> HIDE DEF Is
    <2>2. us[i] = CHOOSE u : Is(i, u)
      BY Zenon
    <2>3. Is(i, CHOOSE u : Is(i, u))
      BY <2>1, Zenon
    <2> QED
      BY <2>2, <2>3, Zenon
  <1>3. Sequence(us) /\ Len(us) = n
    <2> DEFINE S == {CHOOSE u : Is(i, u) : i \in 1..n}
    <2>1. us \in [1..n -> S]
      BY Zenon
    <2> HIDE DEF us, S, n
    <2>2. us \in Seq(S) /\ Len(us) = n
      BY <1>1, <2>1
    <2> QED
      BY <2>2 DEF Sequence
  <1>4. \A i \in 1..n : Dump(items[i]) \in Seq(Token)
    BY <1>2, Zenon DEF Spells
  <1>5. texts = [i \in 1..n |-> Dump(items[i])]
    BY <1>1, Zenon
  <1> HIDE DEF us, texts
  <1>6. texts \in Seq(Seq(Token)) /\ Len(texts) = n /\ \A i \in 1..n : texts[i] = Dump(items[i])
    <2> HIDE DEF n, Is
    <2> QED
      BY <1>1, <1>4, <1>5
  <1>7. \A i \in 1..n : Spells(texts[i], us[i], d, levels)
    BY <1>2, <1>6, Zenon
  <1>8. exact => us = items
    <2>1. SUFFICES ASSUME exact PROVE us = items
      OBVIOUS
    <2>2. \A i \in 1..n : us[i] = items[i]
      BY <1>2, <2>1, Zenon
    <2>3. PICK S, R : us \in Seq(S) /\ items \in Seq(R)
      BY <1>3 DEF Sequence
    <2>4. us \in Seq(S \cup R) /\ items \in Seq(S \cup R)
      BY <2>3, SeqMonotonic
    <2> QED
      BY <1>3, <2>2, <2>4, SeqEqual
  <1> DEFINE text == <<LeftBracket>> \o Separated(texts) \o <<RightBracket>>
  <1>9. Spells(text, Array(us), d + 1, levels)
    <2> HIDE DEF n
    <2>1. Len(us) = Len(texts) /\ \A i \in 1..Len(texts) : Spells(texts[i], us[i], d, levels)
      BY <1>3, <1>6, <1>7, Zenon
    <2> QED
      BY <1>3, <1>6, <2>1, ArraySpells
  <1>10. Dump(Array(items)) = text
    <2>1. Array(items).kind = "array"
      BY Zenon DEF Array
    <2>2. Array(items).dump = text
      BY Zenon DEF Array, LeftBracket, RightBracket, texts
    <2>3. Dump(Array(items)) = Array(items).dump
      BY <2>1, CompoundDump
    <2> QED
      BY <2>2, <2>3, Zenon
  <1> HIDE DEF text
  <1> QED
    BY <1>8, <1>9, <1>10, Zenon DEF Good

LEMMA ObjectGood ==
  ASSUME NEW fields, Mapping(fields), Keyed(fields), NEW levels \in Nat, NEW d \in Nat, NEW exact,
         \A n \in DOMAIN fields : Good(fields[n], d, levels, exact)
  PROVE  Good(Object(fields), d + 1, levels, exact)
  <1> DEFINE Is(n, u) == Spells(Dump(fields[n]), u, d, levels) /\ (exact => u = fields[n])
             us == [n \in DOMAIN fields |-> CHOOSE u : Is(n, u)]
             dumps == [n \in DOMAIN fields |-> Dump(fields[n])]
             names == InOrder(DOMAIN us)
             texts == [i \in DOMAIN names |-> <<String(names[i]), Colon>> \o dumps[names[i]]]
             text == <<LeftBrace>> \o Separated(texts) \o <<RightBrace>>
  <1>1. DOMAIN us = DOMAIN fields
    OBVIOUS
  <1>2. ASSUME NEW n \in DOMAIN fields PROVE Is(n, us[n]) /\ dumps[n] = Dump(fields[n])
    <2>1. \E u : Is(n, u)
      BY Zenon DEF Good
    <2> HIDE DEF Is
    <2>2. us[n] = CHOOSE u : Is(n, u)
      BY Zenon
    <2>3. Is(n, CHOOSE u : Is(n, u))
      BY <2>1, Zenon
    <2>4. dumps[n] = Dump(fields[n])
      BY Zenon
    <2> QED
      BY <2>2, <2>3, <2>4, Zenon
  <1>3. Mapping(us)
    <2> HIDE DEF Is
    <2> QED
      BY DEF Mapping
  <1> HIDE DEF us
  <1>4. exact => us = fields
    <2>1. SUFFICES ASSUME exact PROVE us = fields
      OBVIOUS
    <2>2. \A n \in DOMAIN fields : us[n] = fields[n]
      BY <1>2, <2>1, Zenon
    <2>3. us = [n \in DOMAIN fields |-> us[n]]
      BY <1>1, <1>3, Zenon DEF Mapping
    <2>4. fields = [n \in DOMAIN fields |-> fields[n]]
      BY Zenon DEF Mapping
    <2>5. [n \in DOMAIN fields |-> us[n]] = [n \in DOMAIN fields |-> fields[n]]
      BY <2>2
    <2> QED
      BY <2>3, <2>4, <2>5, Zenon
  <1>5. Keyed(us)
    BY <1>1, Zenon DEF Keyed
  <1>6. \A n \in DOMAIN us : Spells(dumps[n], us[n], d, levels)
    BY <1>1, <1>2, Zenon
  <1>7. Spells(text, Object(us), d + 1, levels)
    <2> HIDE DEF dumps, names
    <2>1. names = InOrder(DOMAIN us)
      BY DEF names
    <2> DEFINE list == texts
    <2>2. list = [i \in DOMAIN names |-> <<String(names[i]), Colon>> \o dumps[names[i]]]
      OBVIOUS
    <2> HIDE DEF list
    <2>3. Spells(<<LeftBrace>> \o Separated(list) \o <<RightBrace>>, Object(us), d + 1, levels)
      BY <1>3, <1>5, <1>6, <2>1, <2>2, ObjectSpells, Zenon
    <2> QED
      BY <2>3 DEF list
  <1>8. Dump(Object(fields)) = text
    <2>1. Object(fields).kind = "object"
      BY Zenon DEF Object
    <2> DEFINE order == InOrder(DOMAIN fields)
               member(n) == <<String(n), Colon>> \o Dump(fields[n])
               listed == [i \in DOMAIN order |-> member(order[i])]
    <2>2. Object(fields).dump = <<LeftBrace>> \o Separated(listed) \o <<RightBrace>>
      BY Zenon DEF Object, LeftBrace, RightBrace, Colon
    <2>3. order = names
      BY <1>1
    <2>4. names \in Seq(DOMAIN fields)
      BY <1>1, NamesInOrder DEF Keyed
    <2>5. \A i \in DOMAIN names : names[i] \in DOMAIN fields
      <3> HIDE DEF names
      <3> QED
        BY <2>4
    <2>6. \A i \in DOMAIN names : member(order[i]) = <<String(names[i]), Colon>> \o dumps[names[i]]
      <3> HIDE DEF names, order, dumps
      <3> QED
        BY <1>2, <2>3, <2>5, Zenon
    <2>7. listed = texts
      <3> HIDE DEF names, order, dumps, member
      <3> QED
        BY <2>3, <2>6
    <2>8. Dump(Object(fields)) = Object(fields).dump
      BY <2>1, CompoundDump
    <2> HIDE DEF listed, texts
    <2> QED
      BY <2>2, <2>7, <2>8, Zenon
  <1> HIDE DEF text
  <1> QED
    BY <1>4, <1>7, <1>8, Zenon DEF Good

LEMMA GoodIsRead ==
  ASSUME NEW v, NEW levels \in Nat, NEW d \in Nat, d <= levels, NEW exact,
         Good(v, d, levels, exact)
  PROVE  Readable(Dump(v), levels) /\ (exact => Parsed(Dump(v), levels) = v)
  <1>1. PICK u : Spells(Dump(v), u, d, levels) /\ (exact => u = v)
    BY Zenon DEF Good
  <1>2. Sequence(<<>>) /\ Len(<<>>) = 0
    BY EmptyBounded
  <1>3. Len(<<>>) + d <= levels
    BY <1>2
  <1>4. "value" \in Expecting
    BY Zenon DEF Expecting
  <1>5. Leads(At(<<>>, "value"), Dump(v), Delivered(<<>>, u), levels) /\ Dump(v) \in Seq(Token)
    BY <1>1, <1>2, <1>3, <1>4, Zenon DEF Spells
  <1>6. Delivered(<<>>, u) = Whole(u) /\ Whole(u).want = "end" /\ Whole(u).value = u
    BY Zenon DEF Delivered, Whole
  <1>7. Read(Dump(v), levels) = Whole(u)
    BY <1>5, <1>6, LeadsReads, Zenon DEF Start
  <1> QED
    BY <1>1, <1>6, <1>7, Zenon DEF Readable, Parsed

----------------------------------------------------------------------------
(* What the parser holds can be written *)

\* What is open holds values that are spelled with d more levels.
HoldsList(e, d, levels, exact) ==
  \E items : /\ Sequence(items) /\ e = OpenList(items)
             /\ \A i \in 1..Len(items) : Good(items[i], d, levels, exact)
HoldsFields(e, d, levels, exact) ==
  \E fields, name : /\ Mapping(fields) /\ Keyed(fields) /\ name \in Seq(Int)
                    /\ e = OpenFields(fields, name)
                    /\ \A n \in DOMAIN fields : Good(fields[n], d, levels, exact)
Holds(e, d, levels, exact) ==
  HoldsList(e, d, levels, exact) \/ HoldsFields(e, d, levels, exact)

HeldStack(s, levels, exact) ==
  /\ Sequence(s) /\ Len(s) <= levels
  /\ \A j \in 1..Len(s) : Holds(s[j], levels - j, levels, exact)

\* A whole value, and what it is made of if it is an object.
GoodWhole(v, levels, exact) ==
  /\ Good(v, levels, levels, exact)
  /\ v.kind = "object" => \A n \in DOMAIN v.fields : Good(v.fields[n], levels, levels, exact)

Held(p, levels, exact) ==
  /\ HeldStack(p.stack, levels, exact)
  /\ p.want = "end" => GoodWhole(p.value, levels, exact)

LEMMA HoldsLooser ==
  ASSUME NEW e, NEW levels \in Nat, NEW d \in Int, NEW exact, NEW looser,
         Holds(e, d, levels, exact), looser => exact
  PROVE  Holds(e, d, levels, looser)
  <1>1. d <= d
    OBVIOUS
  <1>2. \A v : Good(v, d, levels, exact) => Good(v, d, levels, looser)
    BY <1>1, GoodWithMore
  <1> QED
    BY <1>2, Zenon DEF Holds, HoldsList, HoldsFields

LEMMA HeldLooser ==
  ASSUME NEW p, NEW levels \in Nat, NEW exact, NEW looser, Held(p, levels, exact),
         looser => exact
  PROVE  Held(p, levels, looser)
  <1>1. \A j \in 1..Len(p.stack) : Holds(p.stack[j], levels - j, levels, looser)
    <2> TAKE j \in 1..Len(p.stack)
    <2>1. levels - j \in Int
      OBVIOUS
    <2>2. Holds(p.stack[j], levels - j, levels, exact)
      BY Zenon DEF Held, HeldStack
    <2> QED
      BY <2>1, <2>2, HoldsLooser
  <1>2. levels \in Int /\ levels <= levels
    OBVIOUS
  <1>3. \A v : Good(v, levels, levels, exact) => Good(v, levels, levels, looser)
    BY <1>2, GoodWithMore
  <1> QED
    BY <1>1, <1>3, Zenon DEF Held, HeldStack, GoodWhole

LEMMA HeldGrows ==
  ASSUME NEW s, NEW levels \in Nat, NEW exact, HeldStack(s, levels, exact), Len(s) + 1 <= levels,
         NEW e, Holds(e, levels - (Len(s) + 1), levels, exact)
  PROVE  HeldStack(Append(s, e), levels, exact)
  <1> DEFINE a == Append(s, e)
             n == Len(s)
  <1>1. /\ Sequence(a) /\ Len(a) = n + 1 /\ n \in Nat
        /\ \A i \in 1..n : a[i] = s[i]
        /\ a[n + 1] = e
    BY AppendedElements DEF HeldStack
  <1>2. \A j \in 1..n : Holds(s[j], levels - j, levels, exact)
    BY Zenon DEF HeldStack
  <1>3. Holds(e, levels - (n + 1), levels, exact)
    OBVIOUS
  <1>4. n + 1 <= levels
    OBVIOUS
  <1> HIDE DEF a, n
  <1>5. \A j \in 1..Len(a) : Holds(a[j], levels - j, levels, exact)
    <2> TAKE j \in 1..Len(a)
    <2>1. j \in 1..n \/ j = n + 1
      BY <1>1
    <2> QED
      BY <1>1, <1>2, <1>3, <2>1
  <1>6. HeldStack(a, levels, exact)
    BY <1>1, <1>4, <1>5, Zenon DEF HeldStack
  <1> QED
    BY <1>6 DEF a

LEMMA HeldShrinks ==
  ASSUME NEW s, NEW levels \in Nat, NEW exact, HeldStack(s, levels, exact), s # <<>>
  PROVE  /\ HeldStack(Front(s), levels, exact) /\ Len(Front(s)) \in Nat
         /\ Len(s) \in Nat /\ Len(s) = Len(Front(s)) + 1 /\ Len(s) <= levels
         /\ Holds(Last(s), levels - Len(s), levels, exact)
  <1> DEFINE f == Front(s)
             n == Len(s)
  <1>1. /\ n \in Nat /\ n \in 1..n /\ Sequence(f) /\ Len(f) = n - 1
        /\ \A i \in 1..Len(f) : i \in 1..n /\ f[i] = s[i]
    BY LastAndFront DEF HeldStack
  <1>2. n <= levels /\ \A j \in 1..n : Holds(s[j], levels - j, levels, exact)
    BY Zenon DEF HeldStack
  <1>3. Last(s) = s[n]
    BY DEF Last
  <1> HIDE DEF f, n
  <1>4. \A j \in 1..Len(f) : Holds(f[j], levels - j, levels, exact)
    <2> TAKE j \in 1..Len(f)
    <2>1. j \in 1..n /\ f[j] = s[j]
      BY <1>1
    <2> QED
      BY <1>2, <2>1, Zenon
  <1>5. Len(f) <= levels /\ Len(f) \in Nat /\ n = Len(f) + 1
    BY <1>1, <1>2
  <1>6. HeldStack(f, levels, exact)
    BY <1>1, <1>4, <1>5, Zenon DEF HeldStack
  <1>7. Holds(Last(s), levels - n, levels, exact)
    BY <1>1, <1>2, <1>3, Zenon
  <1> QED
    BY <1>1, <1>2, <1>5, <1>6, <1>7 DEF f, n

LEMMA FrontAppended ==
  ASSUME NEW s, Sequence(s), s # <<>>
  PROVE  Append(Front(s), Last(s)) = s
  <1> DEFINE f == Front(s)
             a == Append(f, Last(s))
             n == Len(s)
  <1>1. /\ n \in Nat /\ n \in 1..n /\ Sequence(f) /\ Len(f) = n - 1
        /\ \A i \in 1..Len(f) : i \in 1..n /\ f[i] = s[i]
    BY LastAndFront
  <1>2. Last(s) = s[n]
    BY DEF Last
  <1> HIDE DEF f
  <1>3. /\ Sequence(a) /\ Len(a) = Len(f) + 1
        /\ \A i \in 1..Len(f) : a[i] = f[i]
        /\ a[Len(f) + 1] = s[n]
    BY <1>1, <1>2, AppendedElements
  <1> HIDE DEF a
  <1>4. PICK S, R : a \in Seq(S) /\ s \in Seq(R)
    BY <1>3 DEF Sequence
  <1>5. a \in Seq(S \cup R) /\ s \in Seq(S \cup R)
    BY <1>4, SeqMonotonic
  <1>6. Len(a) = n
    BY <1>1, <1>3
  <1>7. \A i \in 1..n : a[i] = s[i]
    <2> HIDE DEF n
    <2> TAKE i \in 1..n
    <2>1. i \in 1..Len(f) \/ i = n
      BY <1>1
    <2>2. n = Len(f) + 1
      BY <1>1
    <2> QED
      BY <1>1, <1>3, <2>1, <2>2
  <1>8. a = s
    BY <1>5, <1>6, <1>7, SeqEqual
  <1> QED
    BY <1>8 DEF a, f

LEMMA MappingGrows ==
  ASSUME NEW f, Mapping(f), Keyed(f), NEW n \in Seq(Int), NEW v
  PROVE  /\ Mapping(Updated(f, n, v)) /\ Keyed(Updated(f, n, v))
         /\ DOMAIN Updated(f, n, v) = DOMAIN f \cup {n}
         /\ \A k \in DOMAIN f \cup {n} : Updated(f, n, v)[k] = IF k = n THEN v ELSE f[k]
  <1> DEFINE g == Updated(f, n, v)
  <1>1. g = [k \in DOMAIN f \cup {n} |-> IF k = n THEN v ELSE f[k]]
    BY Zenon DEF Updated
  <1> HIDE DEF g
  <1>2. DOMAIN g = DOMAIN f \cup {n} /\ \A k \in DOMAIN f \cup {n} : g[k] = IF k = n THEN v ELSE f[k]
    BY <1>1
  <1>3. Mapping(g)
    BY <1>1 DEF Mapping
  <1>4. IsFiniteSet(DOMAIN f \cup {n})
    BY FS_AddElement DEF Keyed
  <1>5. Keyed(g)
    BY <1>2, <1>4 DEF Keyed
  <1> QED
    BY <1>2, <1>3, <1>5 DEF g

LEMMA NothingHeld ==
  ASSUME NEW levels \in Nat, NEW d, NEW exact
  PROVE  /\ Holds(OpenList(<<>>), d, levels, exact)
         /\ Holds(OpenFields(<<>>, <<>>), d, levels, exact)
         /\ HeldStack(<<>>, levels, exact)
  <1>1. Sequence(<<>>) /\ Len(<<>>) = 0
    BY EmptyBounded
  <1>2. 1..0 = {} /\ 0 <= levels
    OBVIOUS
  <1>3. Mapping(<<>>) /\ DOMAIN <<>> = {}
    BY DEF Mapping
  <1>4. Keyed(<<>>) /\ <<>> \in Seq(Int)
    BY NoMembers DEF Members
  <1>5. \A i \in 1..Len(<<>>) : FALSE
    BY <1>1, <1>2
  <1>6. HoldsList(OpenList(<<>>), d, levels, exact)
    BY <1>1, <1>5, Zenon DEF HoldsList
  <1>7. HoldsFields(OpenFields(<<>>, <<>>), d, levels, exact)
    <2>1. \A n \in DOMAIN <<>> : Good(<<>>[n], d, levels, exact)
      BY <1>3
    <2> QED
      BY <1>3, <1>4, <2>1, Zenon DEF HoldsFields
  <1>8. HeldStack(<<>>, levels, exact)
    BY <1>1, <1>2, <1>5, Zenon DEF HeldStack
  <1> QED
    BY <1>6, <1>7, <1>8 DEF Holds

LEMMA StringToken ==
  ASSUME NEW t \in Token, t.kind = "string"
  PROVE  t.chars \in Seq(Int)
  <1>1. CASE t \in ScalarValues
    BY <1>1, ScalarCases
  <1>2. CASE t \in Marks
    <2>1. PICK c \in {"[", "]", "{", "}", ",", ":"} : t = Mark(c)
      BY <1>2, Zenon DEF Marks
    <2>2. t.kind = c
      BY <2>1, Zenon DEF Mark
    <2>3. "string" \in Kinds
      BY Zenon DEF Kinds
    <2> QED
      BY <2>1, <2>2, <2>3, MarksAreNoKinds, Zenon
  <1> QED
    BY <1>1, <1>2, Zenon DEF Token

LEMMA FieldsHeld ==
  ASSUME NEW f, Sequence(f), NEW e, NEW v, NEW d, NEW levels, NEW exact,
         HoldsFields(e, d, levels, exact), Good(v, d, levels, exact)
  PROVE  \E x : /\ Holds(x, d, levels, exact)
                /\ Delivered(Append(f, e), v) = At(Append(f, x), "more")
  <1>1. PICK fields, n : /\ Mapping(fields) /\ Keyed(fields) /\ n \in Seq(Int)
                         /\ e = OpenFields(fields, n)
                         /\ \A m \in DOMAIN fields : Good(fields[m], d, levels, exact)
    BY Zenon DEF HoldsFields
  <1> DEFINE more == Updated(fields, n, v)
             x == OpenFields(more, n)
  <1>2. Delivered(Append(f, e), v) = At(Append(f, x), "more")
    BY <1>1, DeliveredInFields, Zenon
  <1>3. Mapping(fields) /\ Keyed(fields) /\ n \in Seq(Int)
    BY <1>1, Zenon
  <1>4. Mapping(more) /\ Keyed(more)
    BY <1>3, MappingGrows
  <1>5. DOMAIN more = DOMAIN fields \cup {n}
    BY <1>3, MappingGrows
  <1>6. \A k \in DOMAIN fields \cup {n} : more[k] = IF k = n THEN v ELSE fields[k]
    BY DEF Updated
  <1> HIDE DEF more
  <1>7. \A m \in DOMAIN more : Good(more[m], d, levels, exact)
    BY <1>1, <1>5, <1>6
  <1>8. Holds(x, d, levels, exact)
    BY <1>3, <1>4, <1>7, Zenon DEF Holds, HoldsFields
  <1> QED
    BY <1>2, <1>8, Zenon

LEMMA DeliveredHeld ==
  ASSUME NEW s, NEW levels \in Nat, NEW exact, HeldStack(s, levels, exact),
         NEW v, Good(v, levels - Len(s), levels, exact),
         s = <<>> => GoodWhole(v, levels, exact)
  PROVE  Held(Delivered(s, v), levels, exact)
  <1>1. CASE s = <<>>
    <2>1. Delivered(s, v) = Whole(v)
      BY <1>1, Zenon DEF Delivered
    <2>2. Whole(v).stack = <<>> /\ Whole(v).value = v
      BY Zenon DEF Whole
    <2> QED
      BY <1>1, <2>1, <2>2, Zenon DEF Held
  <1>2. CASE s # <<>>
    <2> DEFINE f == Front(s)
               e == Last(s)
               d == levels - Len(s)
               q(x) == At(Append(f, x), "more")
    <2>1. /\ HeldStack(f, levels, exact) /\ Len(f) \in Nat
          /\ Len(s) = Len(f) + 1 /\ Len(s) <= levels
          /\ Holds(e, d, levels, exact)
      BY <1>2, HeldShrinks
    <2>2. s = Append(f, e) /\ Sequence(f)
      BY <1>2, <2>1, FrontAppended, Zenon DEF HeldStack
    <2>3. Len(f) + 1 <= levels /\ d = levels - (Len(f) + 1)
      BY <2>1
    <2>4. Good(v, d, levels, exact)
      OBVIOUS
    <2> HIDE DEF f, e, d
    <2>5. ASSUME NEW x, Holds(x, d, levels, exact) PROVE Held(q(x), levels, exact)
      <3>1. HeldStack(Append(f, x), levels, exact)
        BY <2>1, <2>3, <2>5, HeldGrows
      <3>2. q(x).stack = Append(f, x) /\ q(x).want = "more" /\ "more" # "end"
        BY Zenon DEF At
      <3> QED
        BY <3>1, <3>2, Zenon DEF Held
    <2> HIDE DEF q
    <2>6. CASE HoldsList(e, d, levels, exact)
      <3>1. PICK items : /\ Sequence(items) /\ e = OpenList(items)
                         /\ \A i \in 1..Len(items) : Good(items[i], d, levels, exact)
        BY <2>6, Zenon DEF HoldsList
      <3> DEFINE more == Append(items, v)
      <3>2. Delivered(s, v) = q(OpenList(more))
        BY <2>2, <3>1, DeliveredInList, Zenon DEF q
      <3>3. /\ Sequence(more) /\ Len(more) = Len(items) + 1 /\ Len(items) \in Nat
            /\ \A i \in 1..Len(items) : more[i] = items[i]
            /\ more[Len(items) + 1] = v
        BY <3>1, AppendedElements
      <3> HIDE DEF more
      <3>4. \A i \in 1..Len(more) : Good(more[i], d, levels, exact)
        <4> TAKE i \in 1..Len(more)
        <4>1. i \in 1..Len(items) \/ i = Len(items) + 1
          BY <3>3
        <4> QED
          BY <2>4, <3>1, <3>3, <4>1
      <3>5. Holds(OpenList(more), d, levels, exact)
        BY <3>3, <3>4, Zenon DEF Holds, HoldsList
      <3> QED
        BY <2>5, <3>2, <3>5, Zenon
    <2>7. CASE HoldsFields(e, d, levels, exact)
      <3>1. PICK x : /\ Holds(x, d, levels, exact)
                     /\ Delivered(Append(f, e), v) = At(Append(f, x), "more")
        BY <2>2, <2>4, <2>7, FieldsHeld
      <3>2. Delivered(s, v) = q(x)
        BY <2>2, <3>1, Zenon DEF q
      <3> QED
        BY <2>5, <3>1, <3>2, Zenon
    <2> QED
      BY <2>1, <2>6, <2>7, Zenon DEF Holds
  <1> QED
    BY <1>1, <1>2

LEMMA ClosedHeld ==
  ASSUME NEW s, NEW levels \in Nat, NEW exact, HeldStack(s, levels, exact), s # <<>>
  PROVE  Held(Closed(s), levels, exact)
  <1> DEFINE f == Front(s)
             e == Last(s)
             d == levels - Len(s)
             v == IF e.kind = "array" THEN Array(e.items) ELSE Object(e.fields)
  <1>1. /\ HeldStack(f, levels, exact) /\ Len(f) \in Nat
        /\ Len(s) = Len(f) + 1 /\ Len(s) <= levels /\ Len(s) \in Nat
        /\ Holds(e, d, levels, exact)
    BY HeldShrinks
  <1>2. Closed(s) = Delivered(f, v)
    BY Zenon DEF Closed
  <1>3. d \in Nat /\ d + 1 = levels - Len(f) /\ d + 1 <= levels /\ d <= levels
    BY <1>1
  <1>4. f = <<>> => d + 1 = levels
    <2>1. Len(<<>>) = 0
      OBVIOUS
    <2> HIDE DEF d
    <2> QED
      BY <1>3, <2>1
  <1> HIDE DEF f, e, d
  <1>5. /\ Good(v, d + 1, levels, exact)
        /\ v.kind = "object" => \A n \in DOMAIN v.fields : Good(v.fields[n], d, levels, exact)
    <2>1. CASE HoldsList(e, d, levels, exact)
      <3>1. PICK items : /\ Sequence(items) /\ e = OpenList(items)
                         /\ \A i \in 1..Len(items) : Good(items[i], d, levels, exact)
        BY <2>1, Zenon DEF HoldsList
      <3>2. v = Array(items)
        BY <3>1, Zenon DEF OpenList
      <3>3. Array(items).kind # "object"
        BY Zenon DEF Array
      <3>4. Good(Array(items), d + 1, levels, exact)
        BY <1>3, <3>1, ArrayGood
      <3> HIDE DEF v
      <3> QED
        BY <3>2, <3>3, <3>4, Zenon
    <2>2. CASE HoldsFields(e, d, levels, exact)
      <3>1. PICK fields, name : /\ Mapping(fields) /\ Keyed(fields) /\ name \in Seq(Int)
                                /\ e = OpenFields(fields, name)
                                /\ \A n \in DOMAIN fields : Good(fields[n], d, levels, exact)
        BY <2>2, Zenon DEF HoldsFields
      <3>2. v = Object(fields)
        BY <3>1, Zenon DEF OpenFields
      <3>3. Object(fields).fields = fields
        BY Zenon DEF Object
      <3>4. Good(Object(fields), d + 1, levels, exact)
        BY <1>3, <3>1, ObjectGood
      <3> HIDE DEF v
      <3> QED
        BY <3>1, <3>2, <3>3, <3>4, Zenon
    <2> QED
      BY <1>1, <2>1, <2>2, Zenon DEF Holds
  <1> HIDE DEF v
  <1>6. Good(v, levels - Len(f), levels, exact)
    BY <1>3, <1>5
  <1>7. f = <<>> => GoodWhole(v, levels, exact)
    <2>1. SUFFICES ASSUME f = <<>> PROVE GoodWhole(v, levels, exact)
      OBVIOUS
    <2>2. Good(v, levels, levels, exact)
      BY <1>4, <1>5, <2>1
    <2>3. levels \in Int /\ d \in Int
      BY <1>3
    <2>4. \A w : Good(w, d, levels, exact) => Good(w, levels, levels, exact)
      BY <1>3, <2>3, GoodWithMore
    <2> QED
      BY <1>5, <2>2, <2>4, Zenon DEF GoodWhole
  <1> QED
    BY <1>1, <1>2, <1>6, <1>7, DeliveredHeld, Zenon

LEMMA WithinHeld ==
  ASSUME NEW p, NEW levels \in Nat, NEW exact, Held(p, levels, exact), ParserTyped(p),
         NEW t \in Token
  PROVE  Held(Within(p, t), levels, exact)
  <1> DEFINE named == At(Append(Front(p.stack), [Last(p.stack) EXCEPT !.name = t.chars]), "colon")
  <1>1. \/ Shuts(p, t) /\ Within(p, t) = Closed(p.stack)
        \/ Names(p, t) /\ Within(p, t) = named
        \/ Within(p, t) = At(p.stack, "value")
        \/ Within(p, t) = At(p.stack, "name")
        \/ Within(p, t) = Refusal
    <2> DEFINE colon == p.want = "colon" /\ t.kind = ":"
               comma == p.want = "more" /\ t.kind = ","
    <2>1. Within(p, t) =
            CASE Shuts(p, t) -> Closed(p.stack)
              [] Names(p, t) -> named
              [] colon -> At(p.stack, "value")
              [] comma -> At(p.stack, IF Last(p.stack).kind = "array" THEN "value" ELSE "name")
              [] OTHER -> Refusal
      BY Zenon DEF Within
    <2> HIDE DEF colon, comma, named
    <2> QED
      BY <2>1
  <1>2. HeldStack(p.stack, levels, exact)
    BY Zenon DEF Held
  <1>3. ASSUME NEW w, w # "end", NEW r, HeldStack(r, levels, exact)
        PROVE  Held(At(r, w), levels, exact)
    <2>1. At(r, w).stack = r /\ At(r, w).want = w
      BY Zenon DEF At
    <2> QED
      BY <1>3, <2>1, Zenon DEF Held
  <1>4. CASE Shuts(p, t) /\ Within(p, t) = Closed(p.stack)
    <2>1. p.want \in Inside
      BY <1>4, Zenon DEF Shuts, Inside
    <2>2. p.stack # <<>>
      BY <2>1, Zenon DEF ParserTyped
    <2> QED
      BY <1>2, <1>4, <2>2, ClosedHeld, Zenon
  <1>5. CASE Names(p, t) /\ Within(p, t) = named
    <2> DEFINE s == p.stack
               e == Last(s)
               f == Front(s)
               d == levels - Len(s)
               m == t.chars
    <2>1. p.want \in {"first name", "name"} /\ t.kind = "string"
      BY <1>5, Zenon DEF Names
    <2>2. s # <<>> /\ OpenObject(e)
      BY <2>1, Zenon DEF ParserTyped, Inside
    <2>3. m \in Seq(Int)
      BY <2>1, StringToken
    <2>4. /\ HeldStack(f, levels, exact) /\ Len(f) \in Nat
          /\ Len(s) = Len(f) + 1 /\ Len(s) <= levels
          /\ Holds(e, d, levels, exact)
      BY <1>2, <2>2, HeldShrinks
    <2>5. e.kind # "array"
      <3> HIDE DEF e
      <3> QED
        BY <2>2 DEF OpenObject
    <2>6. Len(f) + 1 <= levels /\ d = levels - (Len(f) + 1)
      BY <2>4
    <2>7. named = At(Append(f, [e EXCEPT !.name = m]), "colon")
      OBVIOUS
    <2> HIDE DEF named, s, e, f, d, m
    <2>8. ~HoldsList(e, d, levels, exact)
      <3>1. \A items : OpenList(items).kind = "array"
        BY DEF OpenList
      <3> QED
        BY <2>5, <3>1, Zenon DEF HoldsList
    <2>9. PICK fields, name : /\ Mapping(fields) /\ Keyed(fields) /\ name \in Seq(Int)
                              /\ e = OpenFields(fields, name)
                              /\ \A n \in DOMAIN fields : Good(fields[n], d, levels, exact)
      BY <2>4, <2>8, Zenon DEF Holds, HoldsFields
    <2>10. [e EXCEPT !.name = m] = OpenFields(fields, m)
      BY <2>9, Renamed
    <2>11. Holds(OpenFields(fields, m), d, levels, exact)
      BY <2>3, <2>9, Zenon DEF Holds, HoldsFields
    <2> DEFINE x == OpenFields(fields, m)
    <2>12. Holds(x, levels - (Len(f) + 1), levels, exact)
      BY <2>6, <2>11, Zenon
    <2> HIDE DEF x
    <2>13. HeldStack(Append(f, x), levels, exact)
      BY <2>4, <2>6, <2>12, HeldGrows
    <2>14. "colon" # "end"
      BY Zenon
    <2>15. Held(At(Append(f, x), "colon"), levels, exact)
      BY <1>3, <2>13, <2>14, Zenon
    <2>16. named = At(Append(f, x), "colon")
      BY <2>7, <2>10, Zenon DEF x
    <2> QED
      BY <1>5, <2>15, <2>16, Zenon
  <1>6. "value" # "end" /\ "name" # "end" /\ "nothing" # "end"
    BY Zenon
  <1>7. Held(At(p.stack, "value"), levels, exact) /\ Held(At(p.stack, "name"), levels, exact)
    BY <1>2, <1>3, <1>6, Zenon
  <1>8. Held(Refusal, levels, exact)
    <2>1. HeldStack(<<>>, levels, exact)
      BY NothingHeld
    <2> QED
      BY <1>3, <1>6, <2>1, Zenon DEF Refusal
  <1> HIDE DEF named
  <1> QED
    BY <1>1, <1>4, <1>5, <1>7, <1>8, Zenon

LEMMA OpenedHeld ==
  ASSUME NEW s, NEW levels \in Nat, NEW exact, HeldStack(s, levels, exact),
         Len(s) + 1 <= levels, NEW c
  PROVE  Held(Opened(s, c), levels, exact)
  <1>1. ASSUME NEW e, Holds(e, levels - (Len(s) + 1), levels, exact), NEW w, w # "end"
        PROVE  Held(At(Append(s, e), w), levels, exact)
    <2>1. HeldStack(Append(s, e), levels, exact)
      BY <1>1, HeldGrows
    <2>2. At(Append(s, e), w).stack = Append(s, e) /\ At(Append(s, e), w).want = w
      BY Zenon DEF At
    <2> QED
      BY <1>1, <2>1, <2>2, Zenon DEF Held
  <1>2. \/ Opened(s, c) = At(Append(s, OpenList(<<>>)), "first value")
        \/ Opened(s, c) = At(Append(s, OpenFields(<<>>, <<>>)), "first name")
    BY Zenon DEF Opened, OpenList, OpenFields
  <1>3. "first value" # "end" /\ "first name" # "end"
    BY Zenon
  <1> DEFINE d == levels - (Len(s) + 1)
  <1>4. Holds(OpenList(<<>>), d, levels, exact) /\ Holds(OpenFields(<<>>, <<>>), d, levels, exact)
    BY NothingHeld
  <1> QED
    BY <1>1, <1>2, <1>3, <1>4, Zenon

\* A token makes of what can be written what can be written; exactly, if it is
\* not an infinite number.
LEMMA ConsumeHeld ==
  ASSUME NEW p, NEW levels \in Nat, NEW exact, Held(p, levels, exact), ParserTyped(p),
         NEW t \in Token, NEW looser, looser => exact /\ t # Infinite
  PROVE  Held(Consume(p, t, levels), levels, looser)
  <1> DEFINE s == p.stack
  <1>1. \/ Consume(p, t, levels) = Refusal
        \/ Consume(p, t, levels) = Opened(s, t.kind) /\ ~(Len(s) + 1 > levels)
        \/ /\ Consume(p, t, levels) = Delivered(s, t) /\ ~(Len(s) + 1 > levels)
           /\ StartsValue(t) /\ t.kind \notin {"[", "{"}
        \/ Consume(p, t, levels) = Within(p, t)
    BY Zenon DEF Consume
  <1>2. HeldStack(s, levels, looser) /\ Held(p, levels, looser)
    <2>1. Held(p, levels, looser)
      BY HeldLooser
    <2> QED
      BY <2>1, Zenon DEF Held
  <1>3. Sequence(s) /\ Len(s) \in Nat
    <2>1. Sequence(s)
      BY <1>2, Zenon DEF HeldStack
    <2> QED
      BY <2>1, EmptyBounded, LenProperties DEF Sequence
  <1> HIDE DEF s
  <1>4. CASE Consume(p, t, levels) = Refusal
    <2>1. HeldStack(<<>>, levels, looser)
      BY NothingHeld
    <2>2. Refusal.stack = <<>> /\ Refusal.want = "nothing" /\ "nothing" # "end"
      BY Zenon DEF Refusal, At
    <2>3. Held(Refusal, levels, looser)
      BY <2>1, <2>2, Zenon DEF Held
    <2> QED
      BY <1>4, <2>3, Zenon
  <1>5. CASE Consume(p, t, levels) = Opened(s, t.kind) /\ ~(Len(s) + 1 > levels)
    <2>1. Len(s) + 1 <= levels
      BY <1>3, <1>5
    <2> DEFINE c == t.kind
    <2> HIDE DEF c
    <2>2. Held(Opened(s, c), levels, looser)
      BY <1>2, <2>1, OpenedHeld
    <2> QED
      BY <1>5, <2>2, Zenon DEF c
  <1>6. CASE /\ Consume(p, t, levels) = Delivered(s, t) /\ ~(Len(s) + 1 > levels)
             /\ StartsValue(t) /\ t.kind \notin {"[", "{"}
    <2>1. t \in ScalarValues
      BY <1>6, StartsScalar, Zenon
    <2>2. Good(t, 1, levels, looser)
      BY <2>1, ScalarGood
    <2>3. t.kind # "object"
      BY <2>1, ScalarCases
    <2>4. 1 \in Int /\ levels \in Int /\ levels - Len(s) \in Int /\ 1 <= levels - Len(s) /\ 1 <= levels
      <3>1. ~(Len(s) + 1 > levels)
        BY <1>6, Zenon
      <3> QED
        BY <1>3, <3>1
    <2>5. \A e \in Int : 1 <= e => Good(t, e, levels, looser)
      BY <2>2, <2>4, GoodWithMore
    <2>6. Good(t, levels - Len(s), levels, looser) /\ Good(t, levels, levels, looser)
      BY <2>4, <2>5, Zenon
    <2>7. GoodWhole(t, levels, looser)
      BY <2>3, <2>6, Zenon DEF GoodWhole
    <2>8. Held(Delivered(s, t), levels, looser)
      BY <1>2, <2>6, <2>7, DeliveredHeld, Zenon
    <2> QED
      BY <1>6, <2>8, Zenon
  <1>7. CASE Consume(p, t, levels) = Within(p, t)
    <2>1. Held(Within(p, t), levels, looser)
      BY <1>2, WithinHeld, Zenon
    <2> QED
      BY <1>7, <2>1, Zenon
  <1> QED
    BY <1>1, <1>4, <1>5, <1>6, <1>7, Zenon

LEMMA StartHeld ==
  ASSUME NEW levels \in Nat, NEW exact
  PROVE  Held(Start, levels, exact)
  <1>1. HeldStack(<<>>, levels, exact)
    BY NothingHeld
  <1>2. Start.stack = <<>> /\ Start.want = "value" /\ "value" # "end"
    BY Zenon DEF Start, At
  <1> QED
    BY <1>1, <1>2, Zenon DEF Held

\* No token of the text is an infinite number.
Finite(text) == Infinite \notin ToSet(text)

\* After any text the parser holds what can be written.
LEMMA ReadHeld ==
  ASSUME NEW text \in Seq(Token), NEW levels \in Nat
  PROVE  Held(Read(text, levels), levels, Finite(text))
  <1>1. PICK g : /\ g[0] = Start
                 /\ \A k \in 0..(Len(text) - 1) : g[k + 1] = Consume(g[k], text[k + 1], levels)
                 /\ Read(text, levels) = g[Len(text)]
    BY ReadSteps
  <1> DEFINE exact == Finite(text)
             T == {k \in Nat : k <= Len(text) => ParserTyped(g[k]) /\ Held(g[k], levels, exact)}
  <1>2. 0 \in T
    BY <1>1, RefusalTyped, StartHeld
  <1>3. ASSUME NEW k \in Nat, k \in T PROVE k + 1 \in T
    <2>1. SUFFICES ASSUME k + 1 <= Len(text)
                   PROVE  ParserTyped(g[k + 1]) /\ Held(g[k + 1], levels, exact)
      OBVIOUS
    <2>2. k \in 0..(Len(text) - 1) /\ k + 1 \in 1..Len(text) /\ k <= Len(text)
      BY <2>1, LenProperties
    <2>3. ParserTyped(g[k]) /\ Held(g[k], levels, exact)
      BY <1>3, <2>2
    <2> DEFINE t == text[k + 1]
               p == g[k]
    <2>4. t \in Token
      BY <2>2, ElementOfSeq
    <2>5. exact => t # Infinite
      <3>1. t \in ToSet(text)
        BY <2>2, LenProperties DEF ToSet
      <3> HIDE DEF t
      <3> QED
        BY <3>1, Zenon DEF Finite
    <2>6. g[k + 1] = Consume(p, t, levels)
      BY <1>1, <2>2
    <2> HIDE DEF t, p, exact
    <2>7. ParserTyped(p) /\ Held(p, levels, exact)
      BY <2>3, Zenon DEF p
    <2>8. ParserTyped(Consume(p, t, levels))
      BY <2>4, <2>7, ConsumeTyped
    <2>9. Held(Consume(p, t, levels), levels, exact)
      BY <2>4, <2>5, <2>7, ConsumeHeld, Zenon
    <2> QED
      BY <2>6, <2>8, <2>9, Zenon
  <1>4. Len(text) \in T
    <2> HIDE DEF T
    <2> QED
      BY <1>2, <1>3, SetInduction, LenProperties
  <1> QED
    BY <1>1, <1>4, LenProperties

\* Whatever a text of any nesting is read as, its own text is read again by a
\* parser of as many levels, and as the same value unless the text has an
\* infinite number in it, which is written as null (json.hpp, Parser, dumpTo).
THEOREM ValuesRoundTrip ==
  ASSUME NEW text \in Seq(Token), NEW levels \in Nat, Readable(text, levels)
  PROVE  LET v == Parsed(text, levels)
         IN  /\ Readable(Dump(v), levels)
             /\ Infinite \notin ToSet(text) => Parsed(Dump(v), levels) = v
  <1> DEFINE v == Parsed(text, levels)
             exact == Finite(text)
  <1>1. Read(text, levels).want = "end" /\ Read(text, levels).value = v
    BY Zenon DEF Readable, Parsed
  <1>2. GoodWhole(v, levels, exact)
    BY <1>1, ReadHeld, Zenon DEF Held
  <1> HIDE DEF v, exact
  <1>3. levels <= levels
    OBVIOUS
  <1>4. Readable(Dump(v), levels) /\ (exact => Parsed(Dump(v), levels) = v)
    BY <1>2, <1>3, GoodIsRead DEF GoodWhole
  <1> QED
    BY <1>4, Zenon DEF v, exact, Finite

----------------------------------------------------------------------------
(* What is put is what is got *)

\* What is in the store at first was put: it was read from a text, is not null
\* and has no infinite number in it.
WerePut ==
  \A c \in Contents : \A k \in DOMAIN c :
    /\ c[k] # Null
    /\ \E text \in Seq(Token) :
         /\ Finite(text) /\ Readable(text, MaxDepth) /\ c[k] = Parsed(text, MaxDepth)

RowsRead ==
  /\ \A k \in DOMAIN rows : Readable(rows[k], MaxDepth)
  /\ \A k \in DOMAIN given : k \in DOMAIN rows /\ Parsed(rows[k], MaxDepth) = given[k]

PutHeld ==
  call.op = "put" =>
    /\ DOMAIN given = {} /\ call.typed \in Seq(Token)
    /\ Held(call.parser, MaxDepth, Finite(call.typed))

GotExactly ==
  answer.op = "get" /\ answer.key \in DOMAIN given => answer.value = given[answer.key]

KeptInv == DataTyped /\ RowsRead /\ PutHeld /\ GotExactly

LEMMA DepthIsNat == MaxDepth \in Nat /\ 1 <= MaxDepth
  BY BoundsAssumption

LEMMA FiniteMeans ==
  ASSUME NEW text, Finite(text)
  PROVE  Infinite \notin ToSet(text)
  BY DEF Finite

\* {} is read again.
LEMMA NothingReadable == Readable(Dump(Object(<<>>)), MaxDepth)
  <1> DEFINE none == <<>>
  <1>1. Mapping(none) /\ DOMAIN none = {} /\ Keyed(none)
    BY NoMembers DEF Mapping, Members
  <1> HIDE DEF none
  <1>2. \A n \in DOMAIN none : Good(none[n], 0, MaxDepth, FALSE)
    BY <1>1
  <1>3. Good(Object(none), 0 + 1, MaxDepth, FALSE)
    BY <1>1, <1>2, DepthIsNat, ObjectGood
  <1>4. 0 + 1 = 1 /\ 1 \in Nat
    OBVIOUS
  <1>5. Good(Object(none), 1, MaxDepth, FALSE)
    BY <1>3, <1>4, Zenon
  <1>6. Readable(Dump(Object(none)), MaxDepth)
    BY <1>4, <1>5, DepthIsNat, GoodIsRead
  <1> QED
    BY <1>6 DEF none

\* The row of a value that can be written is read again.
LEMMA StoredRead ==
  ASSUME NEW v, NEW exact, v # Null => Good(v, MaxDepth, MaxDepth, exact)
  PROVE  /\ Readable(Stored(v), MaxDepth)
         /\ v # Null /\ exact => Parsed(Stored(v), MaxDepth) = v
  <1>1. CASE v = Null
    <2>1. Stored(v) = Dump(Object(<<>>))
      BY <1>1, Zenon DEF Stored
    <2> QED
      BY <1>1, <2>1, NothingReadable, Zenon
  <1>2. CASE v # Null
    <2>1. Stored(v) = Dump(v)
      BY <1>2, Zenon DEF Stored
    <2>2. MaxDepth <= MaxDepth
      BY DepthIsNat
    <2>3. Readable(Dump(v), MaxDepth) /\ (exact => Parsed(Dump(v), MaxDepth) = v)
      BY <1>2, <2>2, DepthIsNat, GoodIsRead
    <2> QED
      BY <2>1, <2>3, Zenon
  <1> QED
    BY <1>1, <1>2

LEMMA KeptInit ==
  ASSUME WerePut, Init
  PROVE  KeptInv
  <1>1. DOMAIN rows = DOMAIN given /\ \A k \in DOMAIN given : rows[k] = Stored(given[k])
    BY DEF Init
  <1>2. ASSUME NEW k \in DOMAIN given
        PROVE  Readable(rows[k], MaxDepth) /\ Parsed(rows[k], MaxDepth) = given[k]
    <2>1. given \in Contents
      <3>1. given = <<>> => DOMAIN given = {}
        OBVIOUS
      <3> QED
        BY <3>1, <1>2 DEF Init
    <2> DEFINE v == given[k]
    <2>2. PICK text \in Seq(Token) :
            Finite(text) /\ Readable(text, MaxDepth) /\ v = Parsed(text, MaxDepth) /\ v # Null
      BY <2>1, Zenon DEF WerePut
    <2>3. rows[k] = Dump(v)
      <3>1. rows[k] = Stored(v)
        BY <1>1
      <3> QED
        BY <2>2, <3>1, Zenon DEF Stored
    <2> HIDE DEF v
    <2>4. Infinite \notin ToSet(text)
      BY <2>2, FiniteMeans
    <2>5. /\ Readable(Dump(v), MaxDepth)
          /\ Infinite \notin ToSet(text) => Parsed(Dump(v), MaxDepth) = v
      BY <2>2, DepthIsNat, ValuesRoundTrip, Zenon
    <2> QED
      BY <2>3, <2>4, <2>5, Zenon DEF v
  <1>3. call.op # "put" /\ answer.op # "get"
    BY DEF Init, Idle, Silent
  <1> QED
    BY <1>1, <1>2, <1>3, DataInit, Zenon DEF KeptInv, RowsRead, PutHeld, GotExactly

\* What is typed is read on, and held.
LEMMA TypeHeld ==
  ASSUME KeptInv, Type
  PROVE  RowsRead' /\ PutHeld' /\ GotExactly'
  <1>1. PICK t \in Tokens :
          /\ call.op = "put" /\ call'.op = "put" /\ call'.typed = Append(call.typed, t)
          /\ call'.parser = Consume(call.parser, t, MaxDepth)
          /\ rows' = rows /\ given' = given /\ answer' = answer
    BY DEF Type
  <1>2. t \in Token
    BY TokensAssumption
  <1> DEFINE typed == call.typed
             more == Append(typed, t)
             p == call.parser
  <1>3. typed \in Seq(Token) /\ DOMAIN given = {} /\ Held(p, MaxDepth, Finite(typed))
    BY <1>1, Zenon DEF KeptInv, PutHeld
  <1>4. ParserTyped(p)
    BY <1>1, Zenon DEF KeptInv, DataTyped
  <1>5. call'.typed = more /\ call'.parser = Consume(p, t, MaxDepth)
    BY <1>1, Zenon
  <1> HIDE DEF typed, p
  <1>6. more \in Seq(Token) /\ ToSet(more) = ToSet(typed) \cup {t}
    <2>1. /\ more \in Seq(Token) /\ Len(more) = Len(typed) + 1 /\ Len(typed) \in Nat
          /\ \A i \in 1..Len(typed) : more[i] = typed[i]
          /\ more[Len(typed) + 1] = t
      BY <1>2, <1>3, AppendProperties, LenProperties
    <2> HIDE DEF more
    <2>2. DOMAIN more = 1..Len(more) /\ DOMAIN typed = 1..Len(typed)
      BY <1>3, <2>1, LenProperties
    <2>3. ToSet(more) \subseteq ToSet(typed) \cup {t}
      BY <2>1, <2>2 DEF ToSet
    <2>4. ToSet(typed) \cup {t} \subseteq ToSet(more)
      BY <2>1, <2>2 DEF ToSet
    <2> QED
      BY <2>1, <2>3, <2>4
  <1> HIDE DEF more
  <1>7. Finite(more) => Finite(typed) /\ t # Infinite
    BY <1>6 DEF Finite
  <1> DEFINE exact == Finite(typed)
             looser == Finite(more)
  <1>8. looser => exact /\ t # Infinite
    BY <1>7
  <1>9. Held(p, MaxDepth, exact)
    BY <1>3
  <1> HIDE DEF exact, looser
  <1>10. Held(Consume(p, t, MaxDepth), MaxDepth, looser)
    BY <1>2, <1>4, <1>8, <1>9, DepthIsNat, ConsumeHeld, Zenon
  <1>11. PutHeld'
    <2>1. Held(call'.parser, MaxDepth, Finite(call'.typed))
      BY <1>5, <1>10, Zenon DEF looser
    <2>2. call'.typed \in Seq(Token) /\ DOMAIN given' = {}
      BY <1>1, <1>3, <1>5, <1>6
    <2> QED
      BY <2>1, <2>2 DEF PutHeld
  <1> QED
    BY <1>1, <1>11 DEF KeptInv, RowsRead, GotExactly

\* What is put is written so that it is read again as it is.
LEMMA PutExactly ==
  ASSUME KeptInv, NEW k, Put(k)
  PROVE  RowsRead' /\ PutHeld' /\ GotExactly'
  <1> DEFINE value == Field(Arguments, ValueName)
             exact == Finite(call.typed)
             text == Stored(value)
  <1>1. /\ call.op = "put" /\ Arguments.kind = "object"
        /\ rows' = Updated(rows, k, text)
        /\ given' = IF Carried(value) THEN Updated(given, k, value) ELSE given
        /\ call' = Idle /\ answer' = [op |-> "put", ok |-> TRUE]
    BY Zenon DEF Put, Answers
  <1>2. DOMAIN given = {} /\ Held(call.parser, MaxDepth, exact)
    BY <1>1, Zenon DEF KeptInv, PutHeld
  <1>3. value # Null => Good(value, MaxDepth, MaxDepth, exact)
    <2>1. Null.kind # "object"
      BY DEF Null
    <2>2. call.parser.want = "end" /\ Arguments = call.parser.value
      BY <1>1, <2>1, Zenon DEF Arguments
    <2>3. \A n \in DOMAIN Arguments.fields : Good(Arguments.fields[n], MaxDepth, MaxDepth, exact)
      BY <1>1, <1>2, <2>2, Zenon DEF Held, GoodWhole
    <2> HIDE DEF exact
    <2> QED
      BY <2>3, Zenon DEF Field
  <1>4. Carried(value) => value # Null /\ exact
    BY Zenon DEF Carried, Finite
  <1>5. call'.op # "put" /\ answer'.op # "get"
    BY <1>1 DEF Idle
  <1> HIDE DEF value, exact
  <1>6. Readable(text, MaxDepth) /\ (value # Null /\ exact => Parsed(text, MaxDepth) = value)
    BY <1>3, StoredRead, Zenon
  <1> HIDE DEF text
  <1>7. /\ DOMAIN rows' = DOMAIN rows \cup {k}
        /\ \A i \in DOMAIN rows \cup {k} : rows'[i] = IF i = k THEN text ELSE rows[i]
    BY <1>1 DEF Updated
  <1>8. \A i \in DOMAIN rows' : Readable(rows'[i], MaxDepth)
    <2> TAKE i \in DOMAIN rows'
    <2>1. i \in DOMAIN rows \/ i = k
      BY <1>7
    <2>2. i \in DOMAIN rows => Readable(rows[i], MaxDepth)
      BY Zenon DEF KeptInv, RowsRead
    <2>3. rows'[i] = IF i = k THEN text ELSE rows[i]
      BY <1>7
    <2> QED
      BY <1>6, <2>1, <2>2, <2>3, Zenon
  <1>9. \A i \in DOMAIN given' : i \in DOMAIN rows' /\ Parsed(rows'[i], MaxDepth) = given'[i]
    <2>1. CASE Carried(value)
      <3>1. given' = Updated(given, k, value)
        BY <1>1, <2>1, Zenon
      <3>2. DOMAIN given' = {k} /\ given'[k] = value
        BY <1>2, <3>1 DEF Updated
      <3>3. k \in DOMAIN rows' /\ rows'[k] = text
        BY <1>7
      <3> QED
        BY <1>4, <1>6, <2>1, <3>2, <3>3
    <2>2. CASE ~Carried(value)
      BY <1>1, <1>2, <2>2
    <2> QED
      BY <2>1, <2>2
  <1> QED
    BY <1>5, <1>8, <1>9 DEF RowsRead, PutHeld, GotExactly

LEMMA QueryGives ==
  ASSUME NEW q, Query(q)
  PROVE  given' = given
  BY Zenon DEF Query

LEMMA KeptStep ==
  ASSUME KeptInv, [Next]_vars
  PROVE  KeptInv'
  <1>1. DataTyped'
    BY DataKept DEF KeptInv
  <1> SUFFICES RowsRead' /\ PutHeld' /\ GotExactly'
    BY <1>1 DEF KeptInv
  <1>2. ASSUME rows' = rows, given' = given, call' = call \/ call'.op # "put",
               answer' = answer \/ answer'.op # "get"
        PROVE  RowsRead' /\ PutHeld' /\ GotExactly'
    <2>1. RowsRead'
      BY <1>2 DEF KeptInv, RowsRead
    <2>2. PutHeld'
      BY <1>2 DEF KeptInv, PutHeld
    <2>3. GotExactly'
      BY <1>2 DEF KeptInv, GotExactly
    <2> QED
      BY <2>1, <2>2, <2>3
  <1>3. CASE Return
    BY <1>2, <1>3 DEF Return, Silent
  <1>4. CASE BeginPut
    <2>1. /\ rows = <<>> /\ rows' = rows /\ given' = given /\ answer' = answer
          /\ call'.op = "put" /\ call'.typed = <<>> /\ call'.parser = Start
      <3>1. rows = <<>> /\ rows' = rows /\ given' = given /\ answer' = answer
        BY <1>4 DEF BeginPut
      <3>2. call' = [op |-> "put", typed |-> <<>>, parser |-> Start]
        BY <1>4, Zenon DEF BeginPut
      <3> QED
        BY <3>1, <3>2, Zenon
    <2>2. DOMAIN given = {}
      <3>1. DOMAIN <<>> = {}
        OBVIOUS
      <3>2. DOMAIN rows = {}
        BY <2>1, <3>1, Zenon
      <3>3. \A k \in DOMAIN given : k \in DOMAIN rows
        BY Zenon DEF KeptInv, RowsRead
      <3> QED
        BY <3>2, <3>3
    <2>3. <<>> \in Seq(Token)
      OBVIOUS
    <2>4. Held(Start, MaxDepth, Finite(<<>>))
      BY DepthIsNat, StartHeld
    <2>5. PutHeld'
      <3>1. Held(call'.parser, MaxDepth, Finite(call'.typed)) /\ call'.typed \in Seq(Token)
        BY <2>1, <2>3, <2>4, Zenon
      <3>2. DOMAIN given' = {}
        BY <2>1, <2>2, Zenon
      <3> QED
        BY <3>1, <3>2 DEF PutHeld
    <2> QED
      BY <2>1, <2>5 DEF KeptInv, RowsRead, GotExactly
  <1>5. CASE Type
    BY <1>5, TypeHeld
  <1>6. CASE InvalidRequest
    BY <1>2, <1>6 DEF InvalidRequest, Answers, Idle
  <1>7. CASE \E k \in PutKeys : Put(k)
    BY <1>7, PutExactly
  <1>8. CASE \E k \in DOMAIN rows : Get(k)
    <2>1. PICK k \in DOMAIN rows :
            /\ rows' = rows /\ given' = given /\ call' = Idle
            /\ answer' = [op |-> "get", key |-> k, value |-> Parsed(rows[k], MaxDepth)]
      BY <1>8 DEF Get, Answers
    <2>2. RowsRead'
      BY <2>1 DEF KeptInv, RowsRead
    <2>3. PutHeld'
      BY <2>1 DEF PutHeld, Idle
    <2>4. GotExactly'
      BY <2>1 DEF KeptInv, RowsRead, GotExactly
    <2> QED
      BY <2>2, <2>3, <2>4
  <1>9. CASE \E q \in Queries : Query(q)
    <2>1. PICK q \in Queries : Query(q)
      BY <1>9
    <2>2. rows' = rows /\ call' = Idle /\ given' = given /\ answer'.op = "query"
      BY <2>1, QueryIdle, QueryGives, QueryIsNoSearch
    <2> QED
      BY <1>2, <2>2 DEF Idle
  <1>10. CASE \E c \in Counts : Search(c)
    <2>1. rows' = rows /\ call' = Idle /\ given' = given /\ answer'.op = "search"
      BY <1>10 DEF Search, Answers
    <2> QED
      BY <1>2, <2>1 DEF Idle
  <1>11. CASE UNCHANGED vars
    BY <1>2, <1>11 DEF vars
  <1> QED
    BY <1>3, <1>4, <1>5, <1>6, <1>7, <1>8, <1>9, <1>10, <1>11 DEF Next

\* Whatever is put, of any nesting, with any names, is what a get answers, and
\* every row is read again within the levels the arguments were read with, if
\* what the store held at first was put as well (store.cpp, put and get).
THEOREM RowsAreKeptExactly ==
  ASSUME WerePut
  PROVE  Spec => []KeptExactly
  <1>1. Init => KeptInv
    BY KeptInit
  <1>2. KeptInv /\ [Next]_vars => KeptInv'
    BY KeptStep
  <1>3. KeptInv => KeptExactly
    BY DEF KeptInv, RowsRead, GotExactly, KeptExactly
  <1> QED
    BY <1>1, <1>2, <1>3, PTL DEF Spec

----------------------------------------------------------------------------
(* What the grammar has *)

\* One step of each of the functions that grow a set of texts.
Grown(kind, s, things) ==
  CASE kind = "lists"   -> Longer(s, things)
    [] kind = "grammar" -> Deeper(s)

GrownFrom(f, k, kind, base, things) ==
  IF k = 0 THEN base ELSE Grown(kind, f[k - 1], things)

GrowsAs(f, n, kind, base, things) == f = [k \in 0..n |-> GrownFrom(f, k, kind, base, things)]

LEMMA GrowthExists ==
  ASSUME NEW kind, NEW base, NEW things
  PROVE  \A n \in Nat : \E f : GrowsAs(f, n, kind, base, things)
  <1> DEFINE T == {n \in Nat : \E f : GrowsAs(f, n, kind, base, things)}
  <1>1. 0 \in T
    <2> DEFINE f == [k \in 0..0 |-> base]
    <2>1. \A k \in 0..0 : k = 0
      OBVIOUS
    <2>2. GrowsAs(f, 0, kind, base, things)
      BY <2>1, Zenon DEF GrowsAs, GrownFrom
    <2> HIDE DEF f
    <2>3. \E g : GrowsAs(g, 0, kind, base, things)
      BY <2>2, Zenon
    <2> QED
      BY <2>3
  <1>2. ASSUME NEW n \in Nat, n \in T PROVE n + 1 \in T
    <2>1. PICK g : GrowsAs(g, n, kind, base, things)
      BY <1>2
    <2> DEFINE f == [k \in 0..(n + 1) |-> GrownFrom(g, k, kind, base, things)]
    <2>2. ASSUME NEW k \in 0..(n + 1)
          PROVE  GrownFrom(f, k, kind, base, things) = GrownFrom(g, k, kind, base, things)
      <3>1. CASE k = 0
        BY <3>1, Zenon DEF GrownFrom
      <3>2. CASE k # 0
        <4> DEFINE j == k - 1
        <4>1. j \in 0..n /\ j \in 0..(n + 1)
          BY <3>2
        <4> HIDE DEF j
        <4>2. f[j] = GrownFrom(g, j, kind, base, things)
          BY <4>1
        <4>3. g[j] = GrownFrom(g, j, kind, base, things)
          BY <2>1, <4>1, Zenon DEF GrowsAs
        <4>4. f[j] = g[j]
          BY <4>2, <4>3
        <4> HIDE DEF f
        <4> QED
          BY <3>2, <4>4, Zenon DEF GrownFrom, j
      <3> QED
        BY <3>1, <3>2
    <2>3. GrowsAs(f, n + 1, kind, base, things)
      BY <2>2, Zenon DEF GrowsAs
    <2> HIDE DEF f
    <2>4. \E h : GrowsAs(h, n + 1, kind, base, things)
      BY <2>3, Zenon
    <2> QED
      BY <2>4
  <1>3. \A n \in Nat : n \in T
    <2> HIDE DEF T
    <2> QED
      BY <1>1, <1>2, SetInduction
  <1> QED
    BY <1>3

\* The grammar, a level at a time.
LEMMA GrammarSteps ==
  Grammar[0] = {} /\ \A d \in 1..MaxDepth : Grammar[d] = Deeper(Grammar[d - 1])
  <1> DEFINE Is(f) == f = [k \in 0..MaxDepth |-> IF k = 0 THEN {} ELSE Deeper(f[k - 1])]
             h == CHOOSE f : Is(f)
  <1>1. Grammar = h
    BY Zenon DEF Grammar
  <1>2. ASSUME NEW f PROVE Is(f) <=> GrowsAs(f, MaxDepth, "grammar", {}, 0)
    BY Zenon DEF GrowsAs, GrownFrom, Grown
  <1>3. \E f : Is(f)
    <2> HIDE DEF Is
    <2>1. MaxDepth \in Nat
      BY BoundsAssumption
    <2> QED
      BY <1>2, <2>1, GrowthExists, Zenon
  <1>4. Is(h)
    BY <1>3, Zenon
  <1> HIDE DEF h
  <1>5. h = [k \in 0..MaxDepth |-> IF k = 0 THEN {} ELSE Deeper(h[k - 1])]
    BY <1>4
  <1> HIDE DEF Is
  <1>6. 0 \in 0..MaxDepth /\ \A d \in 1..MaxDepth : d \in 0..MaxDepth /\ d # 0
    BY BoundsAssumption
  <1>7. \A k \in 0..MaxDepth : h[k] = IF k = 0 THEN {} ELSE Deeper(h[k - 1])
    BY <1>5, Zenon
  <1> QED
    BY <1>1, <1>6, <1>7, Zenon

EmptyList == [text |-> <<>>, items |-> <<>>]

\* The lists, a thing at a time.
LEMMA ListSteps ==
  ASSUME NEW things
  PROVE  \E of : /\ of[0] = {EmptyList}
                 /\ \A n \in 1..MaxTokens : of[n] = Longer(of[n - 1], things)
                 /\ Lists(things) = UNION {of[n] : n \in 0..(MaxTokens \div 2)}
  <1> DEFINE Is(f) == f = [n \in 0..MaxTokens |->
                             IF n = 0 THEN {EmptyList} ELSE Longer(f[n - 1], things)]
             h == CHOOSE f : Is(f)
  <1>1. Lists(things) = UNION {h[n] : n \in 0..(MaxTokens \div 2)}
    BY Zenon DEF Lists, EmptyList
  <1>2. ASSUME NEW f PROVE Is(f) <=> GrowsAs(f, MaxTokens, "lists", {EmptyList}, things)
    BY Zenon DEF GrowsAs, GrownFrom, Grown
  <1>3. \E f : Is(f)
    <2> HIDE DEF Is
    <2>1. MaxTokens \in Nat
      BY BoundsAssumption
    <2> QED
      BY <1>2, <2>1, GrowthExists, Zenon
  <1>4. Is(h)
    BY <1>3, Zenon
  <1> HIDE DEF h
  <1>5. h = [n \in 0..MaxTokens |-> IF n = 0 THEN {EmptyList} ELSE Longer(h[n - 1], things)]
    BY <1>4
  <1> HIDE DEF Is
  <1>6. 0 \in 0..MaxTokens /\ \A n \in 1..MaxTokens : n \in 0..MaxTokens /\ n # 0
    BY BoundsAssumption
  <1>7. \A n \in 0..MaxTokens : h[n] = IF n = 0 THEN {EmptyList} ELSE Longer(h[n - 1], things)
    BY <1>5, Zenon
  <1> QED
    BY <1>1, <1>6, <1>7, Zenon

\* A set of sequences that has the empty one, and with each all that are one
\* longer, has all.
LEMMA SequenceInduction ==
  ASSUME NEW S, NEW T, <<>> \in T, \A s \in Seq(S), x \in S : s \in T => Append(s, x) \in T
  PROVE  \A s \in Seq(S) : s \in T
  <1> DEFINE U == {k \in Nat : \A s \in Seq(S) : Len(s) = k => s \in T}
  <1>1. 0 \in U
    <2>1. \A s \in Seq(S) : Len(s) = 0 => s = <<>>
      BY EmptySeq
    <2> QED
      BY <2>1
  <1>2. ASSUME NEW k \in Nat, k \in U PROVE k + 1 \in U
    <2>1. SUFFICES ASSUME NEW s \in Seq(S), Len(s) = k + 1 PROVE s \in T
      OBVIOUS
    <2> DEFINE f == Front(s)
               x == Last(s)
    <2>2. Sequence(s) /\ s # <<>>
      <3>1. Len(<<>>) = 0
        OBVIOUS
      <3> QED
        BY <2>1, <3>1 DEF Sequence
    <2>3. Append(f, x) = s
      BY <2>2, FrontAppended
    <2>4. x \in S
      BY <2>1, ElementOfSeq DEF Last
    <2>5. f \in Seq(S) /\ Len(f) = k
      BY <2>1 DEF Front
    <2> HIDE DEF f, x
    <2>6. f \in T
      BY <1>2, <2>5
    <2> QED
      BY <2>3, <2>4, <2>5, <2>6
  <1>3. \A k \in Nat : k \in U
    <2> HIDE DEF U
    <2> QED
      BY <1>1, <1>2, SetInduction
  <1> QED
    BY <1>3, LenProperties

LEMMA SeparatedGrows ==
  ASSUME NEW S, NEW ts \in Seq(S), NEW t \in S
  PROVE  Separated(Append(ts, t)) = Joined(Separated(ts), t)
  <1> DEFINE a == Append(ts, t)
             n == Len(ts)
  <1>1. /\ a \in Seq(S) /\ Len(a) = n + 1 /\ n \in Nat /\ a[n + 1] = t
        /\ \A i \in 1..n : a[i] = ts[i]
    BY AppendProperties, LenProperties
  <1> HIDE DEF a
  <1>2. PICK g : /\ g[0] = <<>>
                 /\ \A k \in 0..(Len(ts) - 1) : g[k + 1] = Joined(g[k], ts[k + 1])
                 /\ Separated(ts) = g[Len(ts)]
    BY TextSteps
  <1>3. PICK h : /\ h[0] = <<>>
                 /\ \A k \in 0..(Len(a) - 1) : h[k + 1] = Joined(h[k], a[k + 1])
                 /\ Separated(a) = h[Len(a)]
    BY <1>1, TextSteps
  <1> HIDE DEF n
  <1>4. /\ \A k \in 0..(n - 1) : g[k + 1] = Joined(g[k], ts[k + 1])
        /\ \A k \in 0..n : h[k + 1] = Joined(h[k], a[k + 1])
        /\ Separated(ts) = g[n] /\ Separated(a) = h[n + 1]
    <2>1. Len(a) - 1 = n
      BY <1>1
    <2> QED
      BY <1>1, <1>2, <1>3, <2>1, Zenon DEF n
  <1> DEFINE T == {k \in Nat : k <= n => g[k] = h[k]}
  <1>5. 0 \in T
    BY <1>2, <1>3
  <1>6. ASSUME NEW k \in Nat, k \in T PROVE k + 1 \in T
    <2>1. SUFFICES ASSUME k + 1 <= n PROVE g[k + 1] = h[k + 1]
      OBVIOUS
    <2>2. k \in 0..(n - 1) /\ k \in 0..n /\ k + 1 \in 1..n /\ k <= n
      BY <1>1, <2>1
    <2>3. g[k] = h[k]
      BY <1>6, <2>2
    <2>4. a[k + 1] = ts[k + 1]
      BY <1>1, <2>2
    <2> QED
      BY <1>4, <2>2, <2>3, <2>4, Zenon
  <1>7. n \in T
    <2> HIDE DEF T
    <2> QED
      BY <1>1, <1>5, <1>6, SetInduction
  <1>8. g[n] = h[n] /\ n \in 0..n
    BY <1>1, <1>7
  <1>9. h[n + 1] = Joined(h[n], t)
    BY <1>1, <1>4, <1>8, Zenon
  <1> QED
    BY <1>4, <1>8, <1>9, Zenon DEF a

LEMMA NothingSeparated == Separated(<<>>) = <<>>
  <1>1. <<>> \in Seq({}) /\ Len(<<>>) = 0
    OBVIOUS
  <1> QED
    BY <1>1, TextSteps

\* The texts of a sequence of things, and what they are.
TextsOf(xs) == [i \in 1..Len(xs) |-> xs[i].text]
ItemsIn(xs) == [i \in 1..Len(xs) |-> xs[i].item]

\* The list of a sequence of things.
Made(xs) == [text |-> Separated(TextsOf(xs)), items |-> ItemsIn(xs)]

LEMMA TextsGrow ==
  ASSUME NEW S, NEW xs \in Seq(S), NEW x \in S
  PROVE  /\ TextsOf(Append(xs, x)) = Append(TextsOf(xs), x.text)
         /\ ItemsIn(Append(xs, x)) = Append(ItemsIn(xs), x.item)
         /\ Sequence(TextsOf(xs)) /\ Sequence(ItemsIn(xs))
         /\ Len(TextsOf(xs)) = Len(xs) /\ Len(ItemsIn(xs)) = Len(xs)
         /\ TextsOf(<<>>) = <<>> /\ ItemsIn(<<>>) = <<>>
  <1> DEFINE a == Append(xs, x)
             n == Len(xs)
             Q == {y.text : y \in S}
             R == {y.item : y \in S}
             ts == TextsOf(xs)
             us == ItemsIn(xs)
  <1>1. /\ a \in Seq(S) /\ Len(a) = n + 1 /\ n \in Nat /\ a[n + 1] = x
        /\ \A i \in 1..n : a[i] = xs[i] /\ xs[i] \in S
    BY AppendProperties, LenProperties, ElementOfSeq
  <1>2. /\ \A y \in S : y.text \in Q /\ y.item \in R
        /\ \A i \in 1..(n + 1) : a[i] \in S
    BY <1>1, ElementOfSeq
  <1> HIDE DEF a, n, Q, R
  <1>3. ts \in Seq(Q) /\ us \in Seq(R) /\ Len(ts) = n /\ Len(us) = n
    <2>1. ts = [i \in 1..n |-> xs[i].text] /\ us = [i \in 1..n |-> xs[i].item]
      BY Zenon DEF TextsOf, ItemsIn, n
    <2> HIDE DEF ts, us
    <2>2. \A i \in 1..n : xs[i].text \in Q /\ xs[i].item \in R
      BY <1>1, <1>2, Zenon
    <2> QED
      BY <1>1, <2>1, <2>2
  <1>4. \A i \in 1..n : ts[i] = xs[i].text /\ us[i] = xs[i].item
    BY Zenon DEF TextsOf, ItemsIn, n
  <1>5. TextsOf(a) \in Seq(Q) /\ ItemsIn(a) \in Seq(R) /\ Len(TextsOf(a)) = n + 1 /\ Len(ItemsIn(a)) = n + 1
    <2>1. TextsOf(a) = [i \in 1..(n + 1) |-> a[i].text] /\ ItemsIn(a) = [i \in 1..(n + 1) |-> a[i].item]
      BY <1>1, Zenon DEF TextsOf, ItemsIn
    <2>2. \A i \in 1..(n + 1) : a[i].text \in Q /\ a[i].item \in R
      BY <1>2, Zenon
    <2> DEFINE m == n + 1
    <2>3. m \in Nat
      BY <1>1
    <2> HIDE DEF m
    <2>4. TextsOf(a) \in [1..m -> Q] /\ ItemsIn(a) \in [1..m -> R]
      BY <2>1, <2>2 DEF m
    <2>5. TextsOf(a) \in Seq(Q) /\ Len(TextsOf(a)) = m
      BY <2>3, <2>4
    <2>6. ItemsIn(a) \in Seq(R) /\ Len(ItemsIn(a)) = m
      BY <2>3, <2>4
    <2> QED
      BY <2>5, <2>6 DEF m
  <1>6. \A i \in 1..(n + 1) : TextsOf(a)[i] = a[i].text /\ ItemsIn(a)[i] = a[i].item
    BY <1>1, Zenon DEF TextsOf, ItemsIn
  <1> HIDE DEF ts, us
  <1> DEFINE p == Append(ts, x.text)
             q == Append(us, x.item)
  <1>7. /\ p \in Seq(Q) /\ Len(p) = n + 1 /\ p[n + 1] = x.text /\ \A i \in 1..n : p[i] = ts[i]
        /\ q \in Seq(R) /\ Len(q) = n + 1 /\ q[n + 1] = x.item /\ \A i \in 1..n : q[i] = us[i]
    BY <1>1, <1>2, <1>3, AppendProperties
  <1> HIDE DEF p, q
  <1>8. \A i \in 1..(n + 1) : p[i] = TextsOf(a)[i] /\ q[i] = ItemsIn(a)[i]
    <2> TAKE i \in 1..(n + 1)
    <2>1. CASE i = n + 1
      BY <1>1, <1>6, <1>7, <2>1, Zenon
    <2>2. CASE i # n + 1
      <3>1. i \in 1..n
        BY <1>1, <2>2
      <3> QED
        BY <1>1, <1>4, <1>6, <1>7, <3>1, Zenon
    <2> QED
      BY <2>1, <2>2
  <1>9. p = TextsOf(a) /\ q = ItemsIn(a)
    BY <1>5, <1>7, <1>8, SeqEqual
  <1>10. TextsOf(<<>>) = <<>> /\ ItemsIn(<<>>) = <<>>
    BY DEF TextsOf, ItemsIn
  <1> QED
    BY <1>3, <1>9, <1>10, Zenon DEF p, q, a, n, ts, us, Sequence

LEMMA MadeGrows ==
  ASSUME NEW S, NEW xs \in Seq(S), NEW x \in S
  PROVE  /\ Made(Append(xs, x)) = [text  |-> Joined(Made(xs).text, x.text),
                                   items |-> Append(Made(xs).items, x.item)]
         /\ Made(<<>>) = EmptyList
         /\ Separated(TextsOf(Append(xs, x))) = Joined(Separated(TextsOf(xs)), x.text)
  <1>1. /\ TextsOf(Append(xs, x)) = Append(TextsOf(xs), x.text)
        /\ ItemsIn(Append(xs, x)) = Append(ItemsIn(xs), x.item)
        /\ Sequence(TextsOf(xs))
        /\ TextsOf(<<>>) = <<>> /\ ItemsIn(<<>>) = <<>>
    BY TextsGrow
  <1> DEFINE ts == TextsOf(xs)
             t == x.text
  <1>2. Separated(Append(ts, t)) = Joined(Separated(ts), t)
    <2> HIDE DEF ts, t
    <2>1. PICK Q : ts \in Seq(Q)
      BY <1>1 DEF Sequence, ts
    <2>2. ts \in Seq(Q \cup {t})
      BY <2>1, SeqMonotonic
    <2>3. t \in Q \cup {t}
      OBVIOUS
    <2> QED
      BY <2>2, <2>3, SeparatedGrows
  <1>3. Made(xs).text = Separated(ts) /\ Made(xs).items = ItemsIn(xs)
    BY DEF Made
  <1>4. Made(<<>>) = EmptyList
    BY <1>1, NothingSeparated, Zenon DEF Made, EmptyList
  <1>5. Separated(TextsOf(Append(xs, x))) = Joined(Separated(TextsOf(xs)), x.text)
    BY <1>1, <1>2, Zenon
  <1>6. Made(Append(xs, x)) = [text  |-> Joined(Made(xs).text, x.text),
                               items |-> Append(Made(xs).items, x.item)]
    BY <1>1, <1>3, <1>5, Zenon DEF Made
  <1> QED
    BY <1>4, <1>5, <1>6

\* Every list is that of a sequence of things.
LEMMA ListsAreSequences ==
  ASSUME NEW things, NEW l \in Lists(things)
  PROVE  \E xs \in Seq(things) : l = Made(xs)
  <1>1. PICK of : /\ of[0] = {EmptyList}
                  /\ \A n \in 1..MaxTokens : of[n] = Longer(of[n - 1], things)
                  /\ Lists(things) = UNION {of[n] : n \in 0..(MaxTokens \div 2)}
    BY ListSteps
  <1> DEFINE all == {Made(xs) : xs \in Seq(things)}
             T == {n \in Nat : n <= MaxTokens => of[n] \subseteq all}
  <1>2. 0 \in T
    <2>1. <<>> \in Seq(things) /\ EmptyList = Made(<<>>)
      <3>1. <<>> \in Seq(things)
        OBVIOUS
      <3>2. TextsOf(<<>>) = <<>> /\ ItemsIn(<<>>) = <<>>
        BY DEF TextsOf, ItemsIn
      <3>3. EmptyList = Made(<<>>)
        BY <3>2, NothingSeparated, Zenon DEF Made, EmptyList
      <3> QED
        BY <3>1, <3>3
    <2>2. EmptyList \in all
      BY <2>1
    <2> QED
      BY <1>1, <2>2
  <1>3. ASSUME NEW n \in Nat, n \in T PROVE n + 1 \in T
    <2>1. SUFFICES ASSUME n + 1 <= MaxTokens, NEW m \in of[n + 1] PROVE m \in all
      OBVIOUS
    <2>2. n + 1 \in 1..MaxTokens /\ (n + 1) - 1 = n /\ n <= MaxTokens
      BY <2>1, BoundsAssumption
    <2>3. of[n + 1] = Longer(of[n], things)
      BY <1>1, <2>2
    <2>4. of[n] \subseteq all
      BY <1>3, <2>2
    <2> HIDE DEF all
    <2>5. PICK p \in of[n] : \E x \in things :
            m = [text |-> Joined(p.text, x.text), items |-> Append(p.items, x.item)]
      BY <2>1, <2>3 DEF Longer
    <2>6. PICK x \in things :
            m = [text |-> Joined(p.text, x.text), items |-> Append(p.items, x.item)]
      BY <2>5
    <2>7. PICK xs \in Seq(things) : p = Made(xs)
      BY <2>4, <2>5 DEF all
    <2>8. m = Made(Append(xs, x))
      <3>1. Made(Append(xs, x)) = [text  |-> Joined(Made(xs).text, x.text),
                                   items |-> Append(Made(xs).items, x.item)]
        BY MadeGrows
      <3> QED
        BY <2>6, <2>7, <3>1, Zenon
    <2>9. Append(xs, x) \in Seq(things)
      BY AppendProperties
    <2> QED
      BY <2>8, <2>9, Zenon DEF all
  <1>4. \A n \in Nat : n \in T
    <2> HIDE DEF T
    <2> QED
      BY <1>2, <1>3, SetInduction
  <1>5. l \in all
    <2>1. PICK n \in 0..(MaxTokens \div 2) : l \in of[n]
      BY <1>1
    <2>2. n \in Nat /\ n <= MaxTokens
      BY BoundsAssumption
    <2>3. n \in T
      BY <1>4, <2>2
    <2> HIDE DEF all
    <2> QED
      BY <2>1, <2>2, <2>3
  <1> QED
    BY <1>5

\* Things that have a text.
Texted(things) == \A x \in things : x.text \in Seq(Token) /\ x.text # <<>>

LEMMA JoinedLength ==
  ASSUME NEW s \in Seq(Token), NEW t \in Seq(Token), t # <<>>
  PROVE  /\ Joined(s, t) \in Seq(Token)
         /\ Len(s) \in Nat /\ Len(t) \in Nat /\ Len(t) >= 1
         /\ Len(Joined(s, t)) = IF s = <<>> THEN Len(t) ELSE Len(s) + 1 + Len(t)
  <1>1. Len(s) \in Nat /\ Len(t) \in Nat /\ Len(t) # 0
    BY EmptySeq, LenProperties
  <1>2. CASE s = <<>>
    <2>1. Joined(s, t) = t
      BY <1>2, Zenon DEF Joined
    <2> QED
      BY <1>1, <1>2, <2>1
  <1>3. CASE s # <<>>
    <2> DEFINE c == Comma
    <2>1. Joined(s, t) = s \o <<c>> \o t
      BY <1>3, Zenon DEF Joined, Comma
    <2>2. c \in Token
      BY Zenon DEF Token, Marks, Comma
    <2> HIDE DEF c
    <2>3. <<c>> \in Seq(Token) /\ Len(<<c>>) = 1
      BY <2>2
    <2>4. s \o <<c>> \in Seq(Token) /\ Len(s \o <<c>>) = Len(s) + 1
      BY <2>3, ConcatProperties
    <2>5. s \o <<c>> \o t \in Seq(Token) /\ Len(s \o <<c>> \o t) = Len(s) + 1 + Len(t)
      BY <2>4, ConcatProperties
    <2> QED
      BY <1>1, <1>3, <2>1, <2>5
  <1> QED
    BY <1>2, <1>3

\* The text of k things has at least 2 * k - 1 tokens.
LEMMA MadeLength ==
  ASSUME NEW things, Texted(things)
  PROVE  \A xs \in Seq(things) :
           LET t == Separated(TextsOf(xs))
           IN  /\ t \in Seq(Token)
               /\ xs = <<>> => t = <<>>
               /\ xs # <<>> => t # <<>> /\ Len(t) >= 2 * Len(xs) - 1
  <1> DEFINE t(xs) == Separated(TextsOf(xs))
             Is(xs) == /\ t(xs) \in Seq(Token)
                       /\ xs = <<>> => t(xs) = <<>>
                       /\ xs # <<>> => t(xs) # <<>> /\ Len(t(xs)) >= 2 * Len(xs) - 1
             T == {xs \in Seq(things) : Is(xs)}
  <1>1. <<>> \in T
    <2>1. t(<<>>) = <<>>
      <3>1. TextsOf(<<>>) = <<>>
        BY DEF TextsOf
      <3> QED
        BY <3>1, NothingSeparated, Zenon
    <2>2. <<>> \in Seq(things) /\ <<>> \in Seq(Token)
      OBVIOUS
    <2> HIDE DEF t
    <2> QED
      BY <2>1, <2>2
  <1>2. ASSUME NEW xs \in Seq(things), NEW x \in things, xs \in T PROVE Append(xs, x) \in T
    <2>1. t(Append(xs, x)) = Joined(t(xs), x.text)
      BY MadeGrows, Zenon
    <2>2. x.text \in Seq(Token) /\ x.text # <<>>
      BY DEF Texted
    <2>3. Is(xs)
      BY <1>2
    <2>4. /\ Append(xs, x) \in Seq(things) /\ Append(xs, x) # <<>>
          /\ Len(Append(xs, x)) = Len(xs) + 1 /\ Len(xs) \in Nat
      <3>1. /\ Append(xs, x) \in Seq(things)
            /\ Len(Append(xs, x)) = Len(xs) + 1 /\ Len(xs) \in Nat
        BY AppendProperties, LenProperties
      <3>2. Append(xs, x) # <<>>
        BY <3>1, EmptySeq
      <3> QED
        BY <3>1, <3>2
    <2> DEFINE s == t(xs)
               y == x.text
               z == t(Append(xs, x))
               a == Append(xs, x)
    <2>5. s \in Seq(Token) /\ y \in Seq(Token) /\ y # <<>> /\ z = Joined(s, y)
      BY <2>1, <2>2, <2>3
    <2>6. (xs = <<>> => s = <<>>) /\ (xs # <<>> => s # <<>> /\ Len(s) >= 2 * Len(xs) - 1)
      BY <2>3
    <2>7. a # <<>> /\ Len(a) = Len(xs) + 1 /\ a \in Seq(things)
      BY <2>4
    <2> HIDE DEF s, y, z, t, a
    <2>8. /\ z \in Seq(Token)
          /\ Len(s) \in Nat /\ Len(y) \in Nat /\ Len(y) >= 1
          /\ Len(z) = IF s = <<>> THEN Len(y) ELSE Len(s) + 1 + Len(y)
      BY <2>5, JoinedLength
    <2>9. xs = <<>> => Len(xs) = 0
      BY EmptySeq
    <2>10. Len(z) >= 2 * Len(a) - 1 /\ Len(z) >= 1
      BY <2>4, <2>6, <2>7, <2>8, <2>9
    <2>11. z # <<>>
      BY <2>8, <2>10, EmptySeq
    <2>12. Is(a)
      BY <2>7, <2>8, <2>10, <2>11 DEF z, a
    <2> HIDE DEF Is
    <2> QED
      BY <2>4, <2>12 DEF a
  <1>3. \A xs \in Seq(things) : xs \in T
    <2> HIDE DEF T
    <2> QED
      BY <1>1, <1>2, SequenceInduction
  <1>4. \A xs \in Seq(things) : Is(xs)
    <2> HIDE DEF Is
    <2> QED
      BY <1>3
  <1> QED
    BY <1>4, Zenon

\* A sequence of things is a list, if it is not too long.
LEMMA SequencesAreLists ==
  ASSUME NEW things, Texted(things), NEW xs \in Seq(things),
         xs # <<>> => Len(Separated(TextsOf(xs))) + 2 <= MaxTokens
  PROVE  Made(xs) \in Lists(things)
  <1>1. PICK of : /\ of[0] = {EmptyList}
                  /\ \A n \in 1..MaxTokens : of[n] = Longer(of[n - 1], things)
                  /\ Lists(things) = UNION {of[n] : n \in 0..(MaxTokens \div 2)}
    BY ListSteps
  <1> DEFINE t(ys) == Separated(TextsOf(ys))
             Fits(ys) == ys # <<>> => Len(t(ys)) + 2 <= MaxTokens
             T == {ys \in Seq(things) : Fits(ys) => Made(ys) \in of[Len(ys)]}
  <1>0. MaxTokens \in Nat
    BY BoundsAssumption
  <1>2. \A ys \in Seq(things) : /\ t(ys) \in Seq(Token)
                                /\ ys # <<>> => t(ys) # <<>> /\ Len(t(ys)) >= 2 * Len(ys) - 1
    BY MadeLength
  <1>3. <<>> \in T
    <2>1. TextsOf(<<>>) = <<>> /\ ItemsIn(<<>>) = <<>>
      BY DEF TextsOf, ItemsIn
    <2>2. Made(<<>>) = EmptyList
      BY <2>1, NothingSeparated, Zenon DEF Made, EmptyList
    <2>3. <<>> \in Seq(things) /\ Len(<<>>) = 0
      OBVIOUS
    <2> HIDE DEF Fits
    <2> QED
      BY <1>1, <2>2, <2>3
  <1>4. ASSUME NEW ys \in Seq(things), NEW x \in things, ys \in T PROVE Append(ys, x) \in T
    <2> DEFINE a == Append(ys, x)
               s == t(ys)
               y == x.text
               z == t(a)
               n == Len(ys)
    <2>1. a \in Seq(things) /\ Len(a) = n + 1 /\ n \in Nat
      BY AppendProperties, LenProperties
    <2>2. SUFFICES ASSUME Fits(a) PROVE Made(a) \in of[Len(a)]
      <3>1. (Fits(a) => Made(a) \in of[Len(a)]) => a \in T
        <4> HIDE DEF Fits, a
        <4> QED
          BY <2>1
      <3> QED
        BY <3>1
    <2>3. a # <<>>
      BY <2>1, EmptySeq
    <2>4. z = Joined(s, y)
      BY MadeGrows, Zenon
    <2>5. s \in Seq(Token) /\ y \in Seq(Token) /\ y # <<>>
      BY <1>2 DEF Texted
    <2>6. Len(z) + 2 <= MaxTokens /\ Len(z) >= 2 * Len(a) - 1
      BY <1>2, <2>1, <2>2, <2>3
    <2>7. Made(a) = [text |-> Joined(Made(ys).text, x.text), items |-> Append(Made(ys).items, x.item)]
      BY MadeGrows
    <2>8. Made(ys).text = s
      BY DEF Made
    <2>9. Fits(ys) => Made(ys) \in of[n]
      <3> HIDE DEF Fits
      <3> QED
        BY <1>4
    <2>10. Fits(ys) <=> (ys # <<>> => Len(s) + 2 <= MaxTokens)
      OBVIOUS
    <2>11. x.text = y
      OBVIOUS
    <2> HIDE DEF a, s, y, z, n, t, Fits
    <2>12. /\ Len(s) \in Nat /\ Len(y) \in Nat /\ Len(y) >= 1
           /\ Len(z) = IF s = <<>> THEN Len(y) ELSE Len(s) + 1 + Len(y)
      BY <2>4, <2>5, JoinedLength
    <2>13. s # <<>> => Len(s) + 2 <= MaxTokens
      BY <1>0, <2>6, <2>12
    <2>14. ys # <<>> => s # <<>>
      BY <1>2 DEF s
    <2>15. Made(ys) \in of[n]
      BY <2>9, <2>10, <2>13, <2>14
    <2>16. n + 1 \in 1..MaxTokens /\ (n + 1) - 1 = n
      BY <1>0, <2>1, <2>6
    <2>17. of[n + 1] = Longer(of[n], things)
      BY <1>1, <2>16
    <2>18. Len(Joined(Made(ys).text, x.text)) + 2 <= MaxTokens
      BY <2>4, <2>6, <2>8, <2>11
    <2> DEFINE l == Made(ys)
               m == of[n]
    <2>19. Made(a) \in Longer(m, things)
      <3>1. l \in m /\ Len(Joined(l.text, x.text)) + 2 <= MaxTokens
        BY <2>15, <2>18
      <3>2. Made(a) = [text |-> Joined(l.text, x.text), items |-> Append(l.items, x.item)]
        BY <2>7
      <3> HIDE DEF l, m
      <3> DEFINE fit == {w \in things : Len(Joined(l.text, w.text)) + 2 <= MaxTokens}
                 more(k) == {[text |-> Joined(k.text, w.text), items |-> Append(k.items, w.item)] :
                               w \in {v \in things : Len(Joined(k.text, v.text)) + 2 <= MaxTokens}}
      <3>3. x \in fit
        BY <3>1
      <3>4. Made(a) \in more(l)
        BY <3>2, <3>3, Zenon
      <3>5. Longer(m, things) = UNION {more(k) : k \in m}
        BY Zenon DEF Longer
      <3> HIDE DEF more
      <3> QED
        BY <3>1, <3>4, <3>5
    <2> QED
      BY <2>1, <2>17, <2>19
  <1>5. \A ys \in Seq(things) : ys \in T
    <2> HIDE DEF T
    <2> QED
      BY <1>3, <1>4, SequenceInduction
  <1>6. Made(xs) \in of[Len(xs)]
    BY <1>5
  <1>7. Len(xs) \in 0..(MaxTokens \div 2)
    <2>1. Len(xs) \in Nat /\ (xs = <<>> => Len(xs) = 0)
      BY EmptySeq, LenProperties
    <2>2. xs # <<>> => Len(t(xs)) >= 2 * Len(xs) - 1 /\ Len(t(xs)) \in Nat
      BY <1>2, LenProperties
    <2> HIDE DEF t
    <2>3. xs # <<>> => Len(t(xs)) + 2 <= MaxTokens
      BY DEF t
    <2> QED
      BY <1>0, <2>1, <2>2, <2>3
  <1> QED
    BY <1>1, <1>6, <1>7

\* A member more, that counts before all of its name.
LEMMA MeantGrows ==
  ASSUME NEW ms, Sequence(ms), NEW m
  PROVE  Meant(Append(ms, m)) = Updated(Meant(ms), m.name, m.value)
  <1> DEFINE n == Len(ms)
             a == Append(ms, m)
             of(k) == {i \in 1..n : ms[i].name = k}
             ofAll(k) == {i \in 1..(n + 1) : a[i].name = k}
             N == {ms[i].name : i \in 1..n}
             A == {a[i].name : i \in 1..(n + 1)}
             f == Meant(ms)
             v == m.value
             x == m.name
  <1>1. /\ DOMAIN a = 1..(n + 1) /\ DOMAIN ms = 1..n /\ n \in Nat
        /\ \A i \in 1..n : a[i] = ms[i]
        /\ a[n + 1] = m
    <2>1. /\ Sequence(a) /\ Len(a) = n + 1 /\ n \in Nat
          /\ \A i \in 1..n : a[i] = ms[i]
          /\ a[n + 1] = m
      BY AppendedElements
    <2> HIDE DEF a
    <2>2. DOMAIN a = 1..(n + 1) /\ DOMAIN ms = 1..n
      BY <2>1, LenProperties DEF Sequence
    <2> QED
      BY <2>1, <2>2
  <1>2. Meant(a) = [k \in A |-> a[Max(ofAll(k))].value]
    BY <1>1, Zenon DEF Meant
  <1>3. f = [k \in N |-> ms[Max(of(k))].value]
    BY <1>1, Zenon DEF Meant
  <1>4. Updated(f, x, v) = [k \in DOMAIN f \cup {x} |-> IF k = x THEN v ELSE f[k]]
    BY Zenon DEF Updated
  <1>5. DOMAIN f = N /\ \A k \in N : f[k] = ms[Max(of(k))].value
    BY <1>3, Zenon
  <1> HIDE DEF a, n, f, v
  <1>6. A = N \cup {x}
    <2>1. 1..(n + 1) = 1..n \cup {n + 1}
      BY <1>1
    <2>2. {a[i].name : i \in 1..n} = N
      BY <1>1
    <2>3. A = {a[i].name : i \in 1..n} \cup {a[n + 1].name}
      BY <2>1, Zenon
    <2> HIDE DEF A, N
    <2> QED
      BY <1>1, <2>2, <2>3
  <1>7. ASSUME NEW k \in A
        PROVE  a[Max(ofAll(k))].value = IF k = x THEN v ELSE f[k]
    <2>1. ofAll(k) \in SUBSET (1..(n + 1)) /\ n + 1 \in Nat
      BY <1>1
    <2>2. CASE k = x
      <3>1. n + 1 \in ofAll(k)
        BY <1>1, <2>2
      <3> DEFINE s == ofAll(k)
                 l == n + 1
      <3>2. s \in SUBSET (1..l) /\ l \in Nat /\ l \in s /\ s # {}
        BY <2>1, <3>1
      <3> HIDE DEF s, l
      <3>3. Max(s) \in s /\ \A y \in s : y <= Max(s)
        BY <3>2, MaxOf
      <3> DEFINE z == Max(s)
      <3>4. z = l
        <4>1. z \in 1..l /\ l <= z
          BY <3>2, <3>3
        <4> HIDE DEF z
        <4> QED
          BY <3>2, <4>1
      <3>5. a[Max(s)] = m
        BY <1>1, <3>4 DEF l
      <3> QED
        BY <2>2, <3>5, Zenon DEF s, v
    <2>3. CASE k # x
      <3>1. k \in N
        BY <1>6, <2>3
      <3>2. ofAll(k) = of(k)
        <4>1. a[n + 1].name # k
          BY <1>1, <2>3
        <4>2. \A i \in 1..(n + 1) : i \in 1..n \/ i = n + 1
          BY <1>1
        <4>3. 1..n \subseteq 1..(n + 1)
          BY <1>1
        <4> QED
          BY <1>1, <4>1, <4>2, <4>3
      <3> DEFINE s == of(k)
      <3>3. s \in SUBSET (1..n) /\ s # {}
        BY <3>1
      <3> HIDE DEF s
      <3>4. Max(s) \in s
        BY <1>1, <3>3, MaxOf
      <3>5. Max(s) \in 1..n
        BY <3>3, <3>4
      <3>6. a[Max(s)] = ms[Max(s)]
        BY <1>1, <3>5
      <3>7. f[k] = ms[Max(s)].value
        BY <1>5, <3>1, Zenon DEF s
      <3> HIDE DEF ofAll, of
      <3>8. a[Max(ofAll(k))] = ms[Max(s)]
        BY <3>2, <3>6, Zenon DEF s
      <3> QED
        BY <2>3, <3>7, <3>8, Zenon
    <2> QED
      BY <2>2, <2>3
  <1> HIDE DEF A, N, of, ofAll, x
  <1>8. [k \in A |-> a[Max(ofAll(k))].value] = [k \in A |-> IF k = x THEN v ELSE f[k]]
    BY <1>7, Zenon
  <1> QED
    BY <1>2, <1>4, <1>5, <1>6, <1>8, Zenon DEF a, f, v, x

LEMMA NothingMeant == Meant(<<>>) = <<>>
  BY DEF Meant

\* Each of the texts spells its value.
AllSpelled(inner, d, levels) == \A g \in inner : Spells(g.text, g.value, d, levels)

LEMMA NamesTyped == \A n \in TypedNames : n \in Seq(Int)
  <1> TAKE n \in TypedNames
  <1>1. PICK t \in Tokens : t.kind = "string" /\ n = t.chars
    BY DEF TypedNames
  <1>2. t \in Token
    BY <1>1, TokensAssumption
  <1> QED
    BY <1>1, <1>2, StringToken

\* What a thing is.
Item(x, inner) == \E g \in inner : x.text = g.text /\ x.item = g.value
NamedItem(x, inner) ==
  \E n \in TypedNames, g \in inner :
    /\ x.text = <<String(n), Colon>> \o g.text
    /\ x.item.name = n /\ x.item.value = g.value

LEMMA ThingsAre ==
  ASSUME NEW inner
  PROVE  /\ \A x \in Items(inner) : Item(x, inner)
         /\ \A x \in NamedItems(inner) : NamedItem(x, inner)
  <1>1. ASSUME NEW x \in Items(inner) PROVE Item(x, inner)
    <2>1. PICK g \in inner : x = [text |-> g.text, item |-> g.value]
      BY DEF Items
    <2>2. x.text = g.text /\ x.item = g.value
      BY <2>1
    <2> QED
      BY <2>2, Zenon DEF Item
  <1>2. ASSUME NEW x \in NamedItems(inner) PROVE NamedItem(x, inner)
    <2>0. NamedItems(inner) =
            UNION {{[text |-> <<String(n), Colon>> \o g.text, item |-> [name |-> n, value |-> g.value]] :
                      g \in inner} : n \in TypedNames}
      BY Zenon DEF NamedItems, Colon
    <2>1. PICK n \in TypedNames, g \in inner :
            x = [text |-> <<String(n), Colon>> \o g.text, item |-> [name |-> n, value |-> g.value]]
      BY <2>0
    <2>2. /\ x.text = <<String(n), Colon>> \o g.text
          /\ x.item = [name |-> n, value |-> g.value]
      BY <2>1
    <2>3. x.item.name = n /\ x.item.value = g.value
      BY <2>2
    <2> QED
      BY <2>2, <2>3, Zenon DEF NamedItem
  <1> QED
    BY <1>1, <1>2

\* Whatever has a text.
Written(inner) == \A g \in inner : g.text \in Seq(Token) /\ g.text # <<>>

LEMMA ThingsAreTexted ==
  ASSUME NEW inner, Written(inner)
  PROVE  Texted(Items(inner)) /\ Texted(NamedItems(inner))
  <1>1. ASSUME NEW x \in Items(inner) PROVE x.text \in Seq(Token) /\ x.text # <<>>
    <2>1. Item(x, inner)
      BY ThingsAre
    <2>2. PICK g \in inner : x.text = g.text
      BY <2>1, Zenon DEF Item
    <2> QED
      BY <2>2, Zenon DEF Written
  <1>2. ASSUME NEW x \in NamedItems(inner) PROVE x.text \in Seq(Token) /\ x.text # <<>>
    <2>0. NamedItem(x, inner)
      BY ThingsAre
    <2>1. PICK n \in TypedNames, g \in inner : x.text = <<String(n), Colon>> \o g.text
      BY <2>0 DEF NamedItem
    <2>2. n \in Seq(Int) /\ g.text \in Seq(Token)
      BY NamesTyped DEF Written
    <2> QED
      BY <2>1, <2>2, MemberTyped
  <1> QED
    BY <1>1, <1>2 DEF Texted

LEMMA ElementsTyped ==
  ASSUME NEW s, Sequence(s), NEW T, \A i \in 1..Len(s) : s[i] \in T
  PROVE  s \in Seq(T)
  <1> DEFINE n == Len(s)
             t == [i \in 1..n |-> s[i]]
  <1>1. PICK R : s \in Seq(R)
    BY DEF Sequence
  <1>2. n \in Nat
    BY <1>1, LenProperties
  <1>3. t \in Seq(T) /\ Len(t) = n /\ \A i \in 1..n : t[i] = s[i]
    <2>1. \A i \in 1..n : s[i] \in T
      OBVIOUS
    <2> HIDE DEF n
    <2> QED
      BY <1>2, <2>1
  <1> HIDE DEF t
  <1>4. t \in Seq(T \cup R) /\ s \in Seq(T \cup R)
    BY <1>1, <1>3, SeqMonotonic
  <1>5. t = s
    BY <1>3, <1>4, SeqEqual
  <1> QED
    BY <1>3, <1>5

LEMMA ListSpells ==
  ASSUME NEW inner, NEW d \in Nat, NEW levels \in Nat, AllSpelled(inner, d, levels),
         NEW xs \in Seq(Items(inner))
  PROVE  Spells(<<LeftBracket>> \o Made(xs).text \o <<RightBracket>>, Array(Made(xs).items),
                d + 1, levels)
  <1> DEFINE n == Len(xs)
             ts == TextsOf(xs)
             us == ItemsIn(xs)
  <1>1. Len(ts) = n /\ Sequence(us) /\ Len(us) = n /\ Sequence(ts)
    <2>1. PICK S : S = Items(inner)
      OBVIOUS
    <2>2. xs \in Seq(S)
      BY <2>1
    <2>3. CASE xs = <<>>
      <3>1. ts = <<>> /\ us = <<>>
        BY <2>3 DEF TextsOf, ItemsIn
      <3>2. Sequence(<<>>)
        BY EmptyBounded
      <3> HIDE DEF ts, us
      <3> QED
        BY <2>3, <3>1, <3>2
    <2>4. CASE xs # <<>>
      <3>1. xs[1] \in S
        BY <2>2, <2>4, EmptySeq, LenProperties, ElementOfSeq
      <3> QED
        BY <2>2, <3>1, TextsGrow, Zenon
    <2> QED
      BY <2>3, <2>4
  <1>2. \A i \in 1..n : ts[i] = xs[i].text /\ us[i] = xs[i].item
    BY Zenon DEF TextsOf, ItemsIn
  <1>3. \A i \in 1..n : Spells(ts[i], us[i], d, levels)
    <2> TAKE i \in 1..n
    <2>1. xs[i] \in Items(inner)
      BY ElementOfSeq
    <2>2. PICK g \in inner : xs[i].text = g.text /\ xs[i].item = g.value
      BY <2>1, ThingsAre, Zenon DEF Item
    <2> QED
      BY <1>2, <2>2, Zenon DEF AllSpelled
  <1>4. Made(xs).text = Separated(ts) /\ Made(xs).items = us
    BY DEF Made
  <1> HIDE DEF ts, us
  <1>5. ts \in Seq(Seq(Token))
    <2>1. \A i \in 1..n : ts[i] \in Seq(Token)
      BY <1>3, Zenon DEF Spells
    <2> HIDE DEF n
    <2> QED
      BY <1>1, <2>1, ElementsTyped
  <1>6. Spells(<<LeftBracket>> \o Separated(ts) \o <<RightBracket>>, Array(us), d + 1, levels)
    BY <1>1, <1>3, <1>5, ArraySpells
  <1> QED
    BY <1>4, <1>6, Zenon

\* What an object of the named things has in it.
Fields(xs) == Meant(ItemsIn(xs))

LEMMA FieldsGrow ==
  ASSUME NEW S, NEW xs \in Seq(S), NEW x \in S
  PROVE  /\ Fields(Append(xs, x)) = Updated(Fields(xs), x.item.name, x.item.value)
         /\ Fields(<<>>) = <<>>
  <1>1. /\ ItemsIn(Append(xs, x)) = Append(ItemsIn(xs), x.item)
        /\ Sequence(ItemsIn(xs)) /\ ItemsIn(<<>>) = <<>>
    BY TextsGrow
  <1> DEFINE ms == ItemsIn(xs)
             m == x.item
  <1>2. Meant(Append(ms, m)) = Updated(Meant(ms), m.name, m.value)
    <2> HIDE DEF ms, m
    <2>1. Sequence(ms)
      BY <1>1 DEF ms
    <2> QED
      BY <2>1, MeantGrows
  <1> QED
    BY <1>1, <1>2, NothingMeant, Zenon DEF Fields

\* Named things lead from an object that has none to one that has them.
LEMMA FieldsLead ==
  ASSUME NEW inner, NEW d \in Nat, NEW levels \in Nat, AllSpelled(inner, d, levels),
         NEW s, Sequence(s), Len(s) + (d + 1) <= levels
  PROVE  \A xs \in Seq(NamedItems(inner)) :
           xs # <<>> =>
             \E name : Leads(At(Append(s, OpenFields(<<>>, <<>>)), "first name"),
                             Separated(TextsOf(xs)),
                             At(Append(s, OpenFields(Fields(xs), name)), "more"), levels)
  <1> DEFINE t(xs) == Separated(TextsOf(xs))
             first == At(Append(s, OpenFields(<<>>, <<>>)), "first name")
             more(xs, name) == At(Append(s, OpenFields(Fields(xs), name)), "more")
             Is(xs) == xs # <<>> => \E name : Leads(first, t(xs), more(xs, name), levels)
             things == NamedItems(inner)
             T == {xs \in Seq(things) : Is(xs)}
  <1>0. Texted(things)
    <2>1. Written(inner)
      BY Zenon DEF Written, AllSpelled, Spells
    <2> QED
      BY <2>1, ThingsAreTexted
  <1>1. <<>> \in T
    OBVIOUS
  <1>2. ASSUME NEW xs \in Seq(things), NEW x \in things, Is(xs) PROVE Is(Append(xs, x))
    <2> DEFINE a == Append(xs, x)
    <2>1. NamedItem(x, inner)
      BY ThingsAre
    <2>2. PICK n \in TypedNames, g \in inner :
            /\ x.text = <<String(n), Colon>> \o g.text
            /\ x.item.name = n /\ x.item.value = g.value
      BY <2>1 DEF NamedItem
    <2>3. Spells(g.text, g.value, d, levels) /\ n \in Seq(Int)
      BY NamesTyped DEF AllSpelled
    <2> DEFINE y == x.text
               u == g.value
    <2>4. Fields(a) = Updated(Fields(xs), n, u) /\ Fields(<<>>) = <<>>
      BY <2>2, FieldsGrow
    <2>5. t(a) = Joined(t(xs), y)
      BY MadeGrows, Zenon
    <2>6. y = <<String(n), Colon>> \o g.text
      BY <2>2
    <2> HIDE DEF a, y, u, things
    <2>7. ASSUME NEW f, NEW name, NEW w \in Naming
          PROVE  Leads(At(Append(s, OpenFields(f, name)), w), y,
                       At(Append(s, OpenFields(Updated(f, n, u), n)), "more"), levels)
      BY <2>3, <2>6, NamedLeads, Zenon DEF u
    <2>8. CASE xs = <<>>
      <3>1. t(a) = y
        <4>1. t(xs) = <<>>
          <5>1. TextsOf(<<>>) = <<>>
            BY DEF TextsOf
          <5> QED
            BY <2>8, <5>1, NothingSeparated, Zenon
        <4> QED
          BY <2>5, <4>1, Zenon DEF Joined
      <3>2. "first name" \in Naming
        BY Zenon DEF Naming
      <3>3. Leads(first, y, At(Append(s, OpenFields(Updated(<<>>, n, u), n)), "more"), levels)
        BY <2>7, <3>2, Zenon
      <3>4. Leads(first, t(a), more(a, n), levels)
        BY <2>4, <2>8, <3>1, <3>3, Zenon
      <3> QED
        BY <3>4, Zenon DEF a
    <2>9. CASE xs # <<>>
      <3>1. PICK name : Leads(first, t(xs), more(xs, name), levels)
        BY <1>2, <2>9, Zenon
      <3> DEFINE r == At(Append(s, OpenFields(Fields(xs), name)), "name")
      <3>2. Consume(more(xs, name), Comma, levels) = r
        BY NameGoesOn, Zenon
      <3>3. "name" \in Naming
        BY Zenon DEF Naming
      <3>4. Leads(r, y, At(Append(s, OpenFields(Updated(Fields(xs), n, u), n)), "more"), levels)
        BY <2>7, <3>3, Zenon
      <3>5. Leads(r, y, more(a, n), levels)
        BY <2>4, <3>4, Zenon
      <3>6. t(xs) \in Seq(Token) /\ t(xs) # <<>>
        BY <1>0, <2>9, MadeLength
      <3>7. y \in Seq(Token) /\ y # <<>>
        BY <1>0, Zenon DEF Texted, y
      <3> DEFINE p == first
                 q == more(xs, name)
                 z == more(a, n)
                 v == t(xs)
      <3>8. Leads(p, v, q, levels) /\ Consume(q, Comma, levels) = r /\ Leads(r, y, z, levels)
        BY <3>1, <3>2, <3>5, Zenon
      <3>9. v \in Seq(Token) /\ v # <<>>
        BY <3>6
      <3> HIDE DEF p, q, r, z, v, t, first, more
      <3>10. Leads(p, Joined(v, y), z, levels)
        BY <3>7, <3>8, <3>9, JoinedLeads, Zenon
      <3>11. Leads(first, t(a), more(a, n), levels)
        BY <2>5, <3>10, Zenon DEF p, z, v
      <3> QED
        BY <3>11, Zenon DEF a
    <2> QED
      BY <2>8, <2>9
  <1>3. \A xs \in Seq(things) : xs \in T
    <2> HIDE DEF Is
    <2>1. \A xs \in Seq(things), x \in things : xs \in T => Append(xs, x) \in T
      <3> TAKE xs \in Seq(things), x \in things
      <3>1. Append(xs, x) \in Seq(things)
        <4> HIDE DEF things
        <4> QED
          BY AppendProperties
      <3> QED
        BY <1>2, <3>1, Zenon
    <2> HIDE DEF T, things
    <2> QED
      BY <1>1, <2>1, SequenceInduction
  <1>4. \A xs \in Seq(things) : Is(xs)
    <2> HIDE DEF Is
    <2> QED
      BY <1>3
  <1> QED
    BY <1>4, Zenon

LEMMA FieldsSpell ==
  ASSUME NEW inner, NEW d \in Nat, NEW levels \in Nat, AllSpelled(inner, d, levels),
         NEW xs \in Seq(NamedItems(inner))
  PROVE  Spells(<<LeftBrace>> \o Made(xs).text \o <<RightBrace>>, Object(Meant(Made(xs).items)),
                d + 1, levels)
  <1> DEFINE t == Separated(TextsOf(xs))
             text == <<LeftBrace>> \o t \o <<RightBrace>>
             f == Fields(xs)
  <1>1. Made(xs).text = t /\ Made(xs).items = ItemsIn(xs)
    BY DEF Made
  <1>2. Texted(NamedItems(inner))
    <2>1. Written(inner)
      BY Zenon DEF Written, AllSpelled, Spells
    <2> QED
      BY <2>1, ThingsAreTexted
  <1>3. t \in Seq(Token) /\ (xs = <<>> => t = <<>>)
    BY <1>2, MadeLength, Zenon
  <1>4. /\ text \in Seq(Token) /\ text # <<>>
    <2> HIDE DEF t
    <2>1. <<LeftBrace>> \in Seq(Token) /\ <<RightBrace>> \in Seq(Token)
      BY BracketsAreTokens
    <2>2. /\ <<LeftBrace>> \o t \in Seq(Token) /\ Len(<<LeftBrace>> \o t) = 1 + Len(t) /\ Len(t) \in Nat
      BY <1>3, <2>1, ConcatProperties, LenProperties
    <2>3. text \in Seq(Token) /\ Len(text) = 1 + Len(t) + 1
      BY <2>1, <2>2, ConcatProperties
    <2> QED
      BY <2>2, <2>3, EmptySeq
  <1>5. ASSUME NEW s, NEW w, Sequence(s), w \in Expecting, Len(s) + (d + 1) <= levels
        PROVE  Leads(At(s, w), text, Delivered(s, Object(f)), levels)
    <2> DEFINE first == At(Append(s, OpenFields(<<>>, <<>>)), "first name")
               p == At(s, w)
               z == Delivered(s, Object(f))
    <2>1. Len(s) \in Nat /\ Len(s) + 1 <= levels
      <3>1. Len(s) \in Nat
        BY <1>5, LenProperties DEF Sequence
      <3> QED
        BY <1>5, <3>1
    <2>2. Consume(p, LeftBrace, levels) = first
      BY <1>5, <2>1, OpensBracket, Zenon DEF LeftBrace
    <2>3. \E q : Leads(first, t, q, levels) /\ Consume(q, RightBrace, levels) = z
      <3>1. CASE xs = <<>>
        <4>1. Leads(first, t, first, levels)
          BY <1>3, <3>1, LeadsNowhere, Zenon
        <4>2. f = <<>>
          <5>1. ItemsIn(<<>>) = <<>>
            BY DEF ItemsIn
          <5> QED
            BY <3>1, <5>1, NothingMeant, Zenon DEF Fields
        <4>3. Consume(first, RightBrace, levels) = Delivered(s, Object(<<>>))
          BY <1>5, ObjectShuts, Zenon DEF RightBrace
        <4>4. Consume(first, RightBrace, levels) = z
          <5> HIDE DEF f, first
          <5> QED
            BY <4>2, <4>3, Zenon
        <4> QED
          BY <4>1, <4>4, Zenon
      <3>2. CASE xs # <<>>
        <4>1. PICK name : Leads(first, t, At(Append(s, OpenFields(f, name)), "more"), levels)
          BY <1>5, <3>2, FieldsLead, Zenon
        <4>2. Consume(At(Append(s, OpenFields(f, name)), "more"), RightBrace, levels) = z
          BY <1>5, ObjectShuts, Zenon DEF RightBrace
        <4> QED
          BY <4>1, <4>2, Zenon
      <3> QED
        BY <3>1, <3>2
    <2>4. PICK q : Leads(first, t, q, levels) /\ Consume(q, RightBrace, levels) = z
      BY <2>3, Zenon
    <2> HIDE DEF first, p, z, t
    <2>5. LeftBrace \in Token /\ RightBrace \in Token
      BY BracketsAreTokens
    <2>6. Leads(p, text, z, levels)
      BY <1>3, <2>2, <2>4, <2>5, BracketsLead, Zenon
    <2> QED
      BY <2>6, Zenon DEF p, z
  <1> HIDE DEF text
  <1>6. Spells(text, Object(f), d + 1, levels)
    BY <1>4, <1>5, Zenon DEF Spells
  <1> QED
    BY <1>1, <1>6, Zenon DEF text, Fields

LEMMA ScalarTokens == \A s \in Scalars : s \in ScalarValues /\ s \in Tokens
  <1> TAKE s \in Scalars
  <1>1. s \in Tokens /\ s.kind \in {"null", "boolean", "number", "string"}
    BY DEF Scalars
  <1>2. s \in Token
    BY <1>1, TokensAssumption
  <1>3. ~(s \in Marks)
    <2>1. s.kind \in Kinds
      BY <1>1, Zenon DEF Kinds
    <2>2. SUFFICES ASSUME s \in Marks PROVE FALSE
      OBVIOUS
    <2>3. PICK c \in {"[", "]", "{", "}", ",", ":"} : s = Mark(c)
      BY <2>2, Zenon DEF Marks
    <2>4. s.kind = c
      BY <2>3, Zenon DEF Mark
    <2> QED
      BY <2>1, <2>3, <2>4, MarksAreNoKinds, Zenon
  <1> QED
    BY <1>1, <1>2, <1>3, Zenon DEF Token

\* A level more is spelled with a level more.
LEMMA DeeperSpells ==
  ASSUME NEW inner, NEW d \in Nat, NEW levels \in Nat, AllSpelled(inner, d, levels)
  PROVE  AllSpelled(Deeper(inner), d + 1, levels)
  <1> DEFINE scalars == {[text |-> <<s>>, value |-> s] : s \in Scalars}
             arrays == {[text |-> <<LeftBracket>> \o l.text \o <<RightBracket>>, value |-> Array(l.items)] :
                          l \in Lists(Items(inner))}
             objects == {[text |-> <<LeftBrace>> \o l.text \o <<RightBrace>>, value |-> Object(Meant(l.items))] :
                           l \in Lists(NamedItems(inner))}
  <1>1. Deeper(inner) = scalars \cup arrays \cup objects
    BY Zenon DEF Deeper, LeftBracket, RightBracket, LeftBrace, RightBrace
  <1>2. ASSUME NEW g \in scalars PROVE Spells(g.text, g.value, d + 1, levels)
    <2>1. PICK s \in Scalars : g = [text |-> <<s>>, value |-> s]
      OBVIOUS
    <2>2. g.text = <<s>> /\ g.value = s
      BY <2>1
    <2>3. s \in ScalarValues
      BY ScalarTokens
    <2>4. Spells(<<s>>, s, 1, levels)
      BY <2>3, ScalarSpells
    <2>5. 1 \in Int /\ d + 1 \in Int /\ 1 <= d + 1
      OBVIOUS
    <2>6. Spells(<<s>>, s, d + 1, levels)
      BY <2>4, <2>5, SpellsWithMore
    <2> QED
      BY <2>2, <2>6
  <1>3. ASSUME NEW g \in arrays PROVE Spells(g.text, g.value, d + 1, levels)
    <2>1. PICK l \in Lists(Items(inner)) :
            g = [text |-> <<LeftBracket>> \o l.text \o <<RightBracket>>, value |-> Array(l.items)]
      OBVIOUS
    <2>2. g.text = <<LeftBracket>> \o l.text \o <<RightBracket>> /\ g.value = Array(l.items)
      BY <2>1
    <2>3. PICK xs \in Seq(Items(inner)) : l = Made(xs)
      BY ListsAreSequences
    <2> QED
      BY <2>2, <2>3, ListSpells, Zenon
  <1>4. ASSUME NEW g \in objects PROVE Spells(g.text, g.value, d + 1, levels)
    <2>1. PICK l \in Lists(NamedItems(inner)) :
            g = [text |-> <<LeftBrace>> \o l.text \o <<RightBrace>>, value |-> Object(Meant(l.items))]
      OBVIOUS
    <2>2. g.text = <<LeftBrace>> \o l.text \o <<RightBrace>> /\ g.value = Object(Meant(l.items))
      BY <2>1
    <2>3. PICK xs \in Seq(NamedItems(inner)) : l = Made(xs)
      BY ListsAreSequences
    <2> QED
      BY <2>2, <2>3, FieldsSpell, Zenon
  <1> HIDE DEF scalars, arrays, objects
  <1> QED
    BY <1>1, <1>2, <1>3, <1>4 DEF AllSpelled

\* The parser reads each text of the grammar as the value it means.
LEMMA GrammarSpells ==
  ASSUME NEW d \in 0..MaxDepth
  PROVE  AllSpelled(Grammar[d], d, MaxDepth)
  <1> DEFINE T == {n \in Nat : n <= MaxDepth => AllSpelled(Grammar[n], n, MaxDepth)}
  <1>0. MaxDepth \in Nat
    BY BoundsAssumption
  <1>1. 0 \in T
    <2>1. Grammar[0] = {}
      BY GrammarSteps
    <2>2. AllSpelled({}, 0, MaxDepth)
      BY DEF AllSpelled
    <2> QED
      BY <2>1, <2>2
  <1>2. ASSUME NEW n \in Nat, n \in T PROVE n + 1 \in T
    <2>1. SUFFICES ASSUME n + 1 <= MaxDepth PROVE AllSpelled(Grammar[n + 1], n + 1, MaxDepth)
      OBVIOUS
    <2>2. n + 1 \in 1..MaxDepth /\ (n + 1) - 1 = n /\ n <= MaxDepth
      BY <1>0, <2>1
    <2>3. Grammar[n + 1] = Deeper(Grammar[n])
      <3>1. Grammar[n + 1] = Deeper(Grammar[(n + 1) - 1])
        BY <2>2, GrammarSteps
      <3> QED
        BY <2>2, <3>1
    <2> DEFINE inner == Grammar[n]
    <2>4. AllSpelled(inner, n, MaxDepth)
      BY <1>2, <2>2
    <2> HIDE DEF inner
    <2>5. AllSpelled(Deeper(inner), n + 1, MaxDepth)
      BY <1>0, <2>4, DeeperSpells
    <2> QED
      BY <2>3, <2>5 DEF inner
  <1>3. \A n \in Nat : n \in T
    <2> HIDE DEF T
    <2> QED
      BY <1>1, <1>2, SetInduction
  <1>4. d \in Nat /\ d <= MaxDepth
    BY <1>0
  <1> QED
    BY <1>3, <1>4

LEMMA RefusalStays ==
  ASSUME NEW t, NEW levels
  PROVE  Consume(Refusal, t, levels) = Refusal
  <1> DEFINE p == Refusal
             colon == p.want = "colon" /\ t.kind = ":"
             comma == p.want = "more" /\ t.kind = ","
             named == At(Append(Front(p.stack), [Last(p.stack) EXCEPT !.name = t.chars]), "colon")
             goes == At(p.stack, IF Last(p.stack).kind = "array" THEN "value" ELSE "name")
  <1>1. p.want = "nothing"
    BY Zenon DEF Refusal, At
  <1>2. Consume(p, t, levels) = Within(p, t)
    BY <1>1, Zenon DEF Consume
  <1>3. Within(p, t) =
          CASE Shuts(p, t) -> Closed(p.stack)
            [] Names(p, t) -> named
            [] colon -> At(p.stack, "value")
            [] comma -> goes
            [] OTHER -> Refusal
    BY Zenon DEF Within
  <1>4. ~Shuts(p, t) /\ ~Names(p, t) /\ ~colon /\ ~comma
    BY <1>1, Zenon DEF Shuts, Names
  <1> HIDE DEF colon, comma, named, goes, p
  <1>5. Within(p, t) = Refusal
    BY <1>3, <1>4
  <1> QED
    BY <1>2, <1>5, Zenon DEF p

\* The parser reads every text of the grammar, as the value it means.
LEMMA GrammarIsRead ==
  ASSUME NEW g \in Texts
  PROVE  g.text \in Seq(Token) /\ Read(g.text, MaxDepth) = Whole(g.value)
  <1>0. MaxDepth \in Nat /\ MaxDepth \in 0..MaxDepth
    BY BoundsAssumption
  <1>1. Spells(g.text, g.value, MaxDepth, MaxDepth)
    BY <1>0, GrammarSpells DEF Texts, AllSpelled
  <1>2. Sequence(<<>>) /\ Len(<<>>) + MaxDepth <= MaxDepth
    BY <1>0, EmptyBounded
  <1>3. "value" \in Expecting
    BY Zenon DEF Expecting
  <1>4. Leads(At(<<>>, "value"), g.text, Delivered(<<>>, g.value), MaxDepth) /\ g.text \in Seq(Token)
    BY <1>1, <1>2, <1>3, Zenon DEF Spells
  <1>5. Delivered(<<>>, g.value) = Whole(g.value)
    BY Zenon DEF Delivered
  <1>6. Leads(Start, g.text, Whole(g.value), MaxDepth)
    BY <1>4, <1>5, Zenon DEF Start
  <1> QED
    BY <1>4, <1>6, LeadsReads, Zenon

\* It refuses none that one of them begins with.
LEMMA BeginningsAreRead ==
  ASSUME NEW text \in Beginnings
  PROVE  text \in Seq(Token) /\ Read(text, MaxDepth) # Refusal
  <1>1. PICK g \in Texts : \E n \in 0..Len(g.text) : text = SubSeq(g.text, 1, n)
    BY DEF Beginnings
  <1>2. PICK n \in 0..Len(g.text) : text = SubSeq(g.text, 1, n)
    BY <1>1
  <1>3. g.text \in Seq(Token) /\ Read(g.text, MaxDepth) = Whole(g.value)
    BY GrammarIsRead
  <1> DEFINE all == g.text
             m == Len(all)
  <1>4. PICK h : /\ h[0] = Start
                 /\ \A k \in 0..(Len(all) - 1) : h[k + 1] = Consume(h[k], all[k + 1], MaxDepth)
                 /\ Read(all, MaxDepth) = h[Len(all)]
    BY <1>3, ReadSteps
  <1>5. all \in Seq(Token) /\ m \in Nat /\ n \in Int /\ 1 \in Int /\ n \in 0..m
    BY <1>3, LenProperties
  <1> HIDE DEF all, m
  <1>6. \A i \in 1..n : all[i] \in Token
    <2>1. \A i \in 1..n : i \in 1..Len(all)
      BY <1>5 DEF m
    <2> QED
      BY <1>5, <2>1, ElementOfSeq
  <1>7. text \in Seq(Token) /\ Len(text) = n /\ \A i \in 1..n : text[i] = all[i]
    <2>1. /\ SubSeq(all, 1, n) \in Seq(Token)
          /\ Len(SubSeq(all, 1, n)) = IF 1 <= n THEN n - 1 + 1 ELSE 0
          /\ \A i \in 1..(n - 1 + 1) : SubSeq(all, 1, n)[i] = all[1 + i - 1]
      BY <1>5, <1>6, SubSeqProperties
    <2>2. text = SubSeq(all, 1, n)
      BY <1>2 DEF all
    <2> QED
      BY <1>5, <2>1, <2>2
  <1>8. \A k \in 0..(m - 1) : h[k + 1] = Consume(h[k], all[k + 1], MaxDepth)
    BY <1>4, Zenon DEF m
  <1>9. Leads(Start, text, h[n], MaxDepth)
    <2>1. ASSUME NEW k \in 0..(Len(text) - 1)
          PROVE  h[k + 1] = Consume(h[k], text[k + 1], MaxDepth)
      <3>1. k \in 0..(m - 1) /\ k + 1 \in 1..n
        BY <1>5, <1>7
      <3>2. text[k + 1] = all[k + 1]
        BY <1>7, <3>1
      <3> QED
        BY <1>8, <3>1, <3>2, Zenon
    <2>2. h[0] = Start /\ h[Len(text)] = h[n]
      BY <1>4, <1>7
    <2> QED
      BY <2>1, <2>2, Zenon DEF Leads
  <1>10. Read(text, MaxDepth) = h[n]
    BY <1>7, <1>9, LeadsReads
  <1>11. h[n] # Refusal
    <2>1. SUFFICES ASSUME h[n] = Refusal PROVE FALSE
      OBVIOUS
    <2> DEFINE T == {k \in Nat : n + k <= m => h[n + k] = Refusal}
    <2>2. 0 \in T
      BY <1>5, <2>1
    <2>3. ASSUME NEW k \in Nat, k \in T PROVE k + 1 \in T
      <3> DEFINE j == n + k
      <3>1. SUFFICES ASSUME n + (k + 1) <= m PROVE h[n + (k + 1)] = Refusal
        OBVIOUS
      <3>2. j \in 0..(m - 1) /\ j <= m /\ n + (k + 1) = j + 1
        BY <1>5, <3>1
      <3>3. h[j] = Refusal
        BY <2>3, <3>2
      <3> HIDE DEF j
      <3>4. h[j + 1] = Consume(h[j], all[j + 1], MaxDepth)
        BY <1>8, <3>2
      <3>5. h[j + 1] = Refusal
        BY <3>3, <3>4, RefusalStays, Zenon
      <3> QED
        BY <3>2, <3>5
    <2>4. \A k \in Nat : k \in T
      <3> HIDE DEF T
      <3> QED
        BY <2>2, <2>3, SetInduction
    <2>5. h[m] = Refusal
      <3>1. m - n \in Nat /\ n + (m - n) = m
        BY <1>5
      <3>2. m - n \in T
        BY <2>4, <3>1
      <3> QED
        BY <1>5, <3>1, <3>2
    <2>6. Whole(g.value) = Refusal
      BY <1>3, <1>4, <2>5, Zenon DEF all, m
    <2>7. Whole(g.value).want = "end" /\ Refusal.want = "nothing" /\ "end" # "nothing"
      BY Zenon DEF Whole, Refusal, At
    <2> QED
      BY <2>6, <2>7, Zenon
  <1> QED
    BY <1>7, <1>10, <1>11

----------------------------------------------------------------------------
(* What was read when something is open *)

\* After b a list was opened with l that has xs so far; it may have another.
Partly(b, l, xs) == b \o <<l>> \o Separated(TextsOf(xs))
GoesOn(b, l, xs) == IF xs = <<>> THEN b \o <<l>> ELSE Partly(b, l, xs) \o <<Comma>>

LEMMA PartlyGrows ==
  ASSUME NEW things, Texted(things), NEW xs \in Seq(things), NEW x \in things,
         NEW b \in Seq(Token), NEW l \in Token
  PROVE  /\ GoesOn(b, l, xs) \in Seq(Token) /\ Partly(b, l, xs) \in Seq(Token)
         /\ GoesOn(b, l, xs) \o x.text = Partly(b, l, Append(xs, x))
  <1> DEFINE c == Comma
             s == Separated(TextsOf(xs))
             t == x.text
             o == b \o <<l>>
  <1>1. s \in Seq(Token) /\ (xs = <<>> => s = <<>>) /\ (xs # <<>> => s # <<>>)
    BY MadeLength
  <1>2. t \in Seq(Token)
    BY DEF Texted
  <1>3. Separated(TextsOf(Append(xs, x))) = Joined(s, t)
    BY MadeGrows, Zenon
  <1>4. <<c>> \in Seq(Token) /\ <<l>> \in Seq(Token)
    <2>1. c \in Token
      BY Zenon DEF Token, Marks, Comma
    <2> HIDE DEF c
    <2> QED
      BY <2>1
  <1>5. o \in Seq(Token)
    <2> HIDE DEF c, s, t
    <2> QED
      BY <1>4, ConcatProperties
  <1>6. Partly(b, l, Append(xs, x)) = o \o Joined(s, t) /\ Partly(b, l, xs) = o \o s
    BY <1>3, Zenon DEF Partly
  <1>7. CASE xs = <<>>
    <2>1. Joined(s, t) = t
      BY <1>1, <1>7, Zenon DEF Joined
    <2>2. GoesOn(b, l, xs) = o
      BY <1>7, Zenon DEF GoesOn
    <2> HIDE DEF c, s, t, o
    <2>3. o \o s \in Seq(Token)
      BY <1>1, <1>5, ConcatProperties
    <2>4. GoesOn(b, l, xs) \o t = Partly(b, l, Append(xs, x))
      BY <1>6, <2>1, <2>2, Zenon
    <2> QED
      BY <1>5, <1>6, <2>2, <2>3, <2>4 DEF t
  <1>8. CASE xs # <<>>
    <2>1. Joined(s, t) = s \o <<c>> \o t
      BY <1>1, <1>8, Zenon DEF Joined, Comma
    <2>2. GoesOn(b, l, xs) = o \o s \o <<c>>
      BY <1>8, Zenon DEF GoesOn, Partly
    <2> HIDE DEF c, s, t, o
    <2>3. o \o s \in Seq(Token) /\ s \o <<c>> \in Seq(Token)
      BY <1>1, <1>4, <1>5, ConcatProperties
    <2>4. o \o s \o <<c>> \in Seq(Token)
      BY <1>4, <2>3, ConcatProperties
    <2> DEFINE k == <<c>>
    <2>5. o \o s \o k = o \o (s \o k)
      <3>1. k \in Seq(Token)
        BY <1>4
      <3> HIDE DEF k
      <3> QED
        BY <1>1, <1>5, <3>1, ConcatAssociative
    <2> DEFINE r == s \o <<c>>
    <2>6. (o \o r) \o t = o \o (r \o t)
      <3>1. r \in Seq(Token)
        BY <2>3
      <3> HIDE DEF r
      <3> QED
        BY <1>2, <1>5, <3>1, ConcatAssociative
    <2>7. GoesOn(b, l, xs) \o t = Partly(b, l, Append(xs, x))
      BY <1>6, <2>1, <2>2, <2>5, <2>6, Zenon
    <2> QED
      BY <1>6, <2>2, <2>3, <2>4, <2>7 DEF t
  <1> QED
    BY <1>7, <1>8

LEMMA PartlyTyped ==
  ASSUME NEW things, Texted(things), NEW xs \in Seq(things),
         NEW b \in Seq(Token), NEW l \in Token
  PROVE  GoesOn(b, l, xs) \in Seq(Token) /\ Partly(b, l, xs) \in Seq(Token)
  <1>1. CASE xs = <<>>
    <2> DEFINE o == b \o <<l>>
    <2>1. GoesOn(b, l, xs) = o
      BY <1>1, Zenon DEF GoesOn
    <2>2. TextsOf(<<>>) = <<>>
      BY DEF TextsOf
    <2>3. Partly(b, l, xs) = o \o <<>>
      BY <1>1, <2>2, NothingSeparated, Zenon DEF Partly
    <2>4. o \in Seq(Token)
      BY ConcatProperties
    <2> HIDE DEF o
    <2>5. o \o <<>> = o
      BY <2>4, ConcatEmptySeq
    <2> QED
      BY <2>1, <2>3, <2>4, <2>5
  <1>2. CASE xs # <<>>
    <2>1. \E x : x \in things
      BY <1>2, EmptySeq, LenProperties, ElementOfSeq
    <2> QED
      BY <2>1, PartlyGrows
  <1> QED
    BY <1>1, <1>2

LEMMA PartlyShuts ==
  ASSUME NEW things, Texted(things), NEW xs \in Seq(things),
         NEW b \in Seq(Token), NEW l \in Token, NEW m \in Token
  PROVE  /\ Partly(b, l, xs) \o <<m>> = b \o (<<l>> \o Made(xs).text \o <<m>>)
         /\ <<l>> \o Made(xs).text \o <<m>> \in Seq(Token)
         /\ Len(Partly(b, l, xs)) = Len(b) + 1 + Len(Made(xs).text)
         /\ Len(Made(xs).text) \in Nat /\ Len(b) \in Nat
  <1> DEFINE s == Separated(TextsOf(xs))
  <1>1. s \in Seq(Token)
    BY MadeLength
  <1>2. Made(xs).text = s
    BY DEF Made
  <1>3. Partly(b, l, xs) = b \o <<l>> \o s
    BY Zenon DEF Partly
  <1> HIDE DEF s
  <1>4. <<l>> \in Seq(Token) /\ <<m>> \in Seq(Token) /\ Len(<<l>>) = 1
    OBVIOUS
  <1>5. b \o <<l>> \in Seq(Token) /\ Len(b \o <<l>>) = Len(b) + 1 /\ s \o <<m>> \in Seq(Token)
    BY <1>1, <1>4, ConcatProperties
  <1>6. /\ (b \o <<l>>) \o s = b \o (<<l>> \o s)
        /\ <<l>> \o s \in Seq(Token)
        /\ Len((b \o <<l>>) \o s) = Len(b) + 1 + Len(s)
    BY <1>1, <1>4, <1>5, ConcatAssociative, ConcatProperties
  <1>7. (b \o (<<l>> \o s)) \o <<m>> = b \o ((<<l>> \o s) \o <<m>>)
    BY <1>4, <1>6, ConcatAssociative
  <1>8. (<<l>> \o s) \o <<m>> \in Seq(Token)
    BY <1>4, <1>6, ConcatProperties
  <1>9. Len(b) \in Nat /\ Len(s) \in Nat
    BY <1>1, LenProperties
  <1>10. Partly(b, l, xs) \o <<m>> = b \o (<<l>> \o Made(xs).text \o <<m>>)
    BY <1>2, <1>3, <1>6, <1>7, Zenon
  <1> QED
    BY <1>2, <1>3, <1>6, <1>8, <1>9, <1>10

\* What is open since b, when x was read: an array that waits for an item, or
\* an object that waits for a name, a colon or a value ...
AwaitsItem(b, x, e, inner) ==
  \E xs \in Seq(Items(inner)) : e = OpenList(ItemsIn(xs)) /\ x = GoesOn(b, LeftBracket, xs)
AwaitsName(b, x, e, inner) ==
  \E xs \in Seq(NamedItems(inner)) :
    /\ \E n : e = OpenFields(Fields(xs), n)
    /\ x = GoesOn(b, LeftBrace, xs)
AwaitsColon(b, x, e, inner) ==
  \E xs \in Seq(NamedItems(inner)), n \in TypedNames :
    e = OpenFields(Fields(xs), n) /\ x = GoesOn(b, LeftBrace, xs) \o <<String(n)>>
AwaitsField(b, x, e, inner) ==
  \E xs \in Seq(NamedItems(inner)), n \in TypedNames :
    e = OpenFields(Fields(xs), n) /\ x = GoesOn(b, LeftBrace, xs) \o <<String(n), Colon>>

AwaitsValue(b, x, e, inner) == AwaitsItem(b, x, e, inner) \/ AwaitsField(b, x, e, inner)

\* ... or one that has some.
HasItems(b, x, e, inner) ==
  \E xs \in Seq(Items(inner)) :
    xs # <<>> /\ e = OpenList(ItemsIn(xs)) /\ x = Partly(b, LeftBracket, xs)
HasFields(b, x, e, inner) ==
  \E xs \in Seq(NamedItems(inner)) :
    /\ xs # <<>> /\ x = Partly(b, LeftBrace, xs)
    /\ \E n : e = OpenFields(Fields(xs), n)

Awaited(w, b, x, e, inner) ==
  /\ w = "first value" => e = OpenList(<<>>) /\ x = b \o <<LeftBracket>>
  /\ w = "first name"  => (\E n : e = OpenFields(<<>>, n)) /\ x = b \o <<LeftBrace>>
  /\ w = "value"       => AwaitsValue(b, x, e, inner)
  /\ w = "name"        => AwaitsName(b, x, e, inner)
  /\ w = "colon"       => AwaitsColon(b, x, e, inner)
  /\ w = "more"        => HasItems(b, x, e, inner) \/ HasFields(b, x, e, inner)

Waiting == {"first value", "first name", "value", "name", "colon", "more"}

\* The texts of what is in the k-th that is open.
Inner(k) == Grammar[MaxDepth - k]

\* All that is open waits for a value, and b was read.
Nested(s, b) ==
  \E h : /\ h[0] = <<>> /\ h[Len(s)] = b
         /\ \A j \in 0..Len(s) : h[j] \in Seq(Token)
         /\ \A j \in 1..Len(s) : AwaitsValue(h[j - 1], h[j], s[j], Inner(j))

\* The parser has read the text: a beginning of one of the grammar's, unless it
\* refused.
Traced(p, text) ==
  \/ p = Refusal
  \/ \E v : p = Whole(v) /\ [text |-> text, value |-> v] \in Texts
  \/ p = Start /\ text = <<>>
  \/ \E s, e, w, b :
       /\ p = At(Append(s, e), w) /\ w \in Waiting
       /\ Sequence(s) /\ Len(s) + 1 <= MaxDepth
       /\ Nested(s, b) /\ Awaited(w, b, text, e, Inner(Len(s) + 1))

LEMMA GrammarIsWritten ==
  ASSUME NEW k \in 0..MaxDepth
  PROVE  /\ Written(Inner(k)) /\ Texted(Items(Inner(k))) /\ Texted(NamedItems(Inner(k)))
         /\ \A m \in 0..MaxDepth : k = m + 1 => Inner(m) = Deeper(Inner(k))
  <1> DEFINE d == MaxDepth - k
  <1>1. d \in 0..MaxDepth
    BY BoundsAssumption
  <1>2. AllSpelled(Grammar[d], d, MaxDepth)
    BY <1>1, GrammarSpells
  <1>3. Written(Inner(k))
    BY <1>2, Zenon DEF Written, AllSpelled, Spells, Inner
  <1>4. Texted(Items(Inner(k))) /\ Texted(NamedItems(Inner(k)))
    BY <1>3, ThingsAreTexted
  <1>5. ASSUME NEW m \in 0..MaxDepth, k = m + 1 PROVE Inner(m) = Deeper(Inner(k))
    <2>1. MaxDepth - m \in 1..MaxDepth /\ (MaxDepth - m) - 1 = MaxDepth - k
      BY <1>5, BoundsAssumption
    <2>2. Grammar[MaxDepth - m] = Deeper(Grammar[(MaxDepth - m) - 1])
      BY <2>1, GrammarSteps
    <2> QED
      BY <2>1, <2>2, Zenon DEF Inner
  <1> QED
    BY <1>3, <1>4, <1>5

LEMMA AwaitedCases ==
  ASSUME NEW b, NEW x, NEW e, NEW inner
  PROVE  /\ Awaited("first value", b, x, e, inner) <=> e = OpenList(<<>>) /\ x = b \o <<LeftBracket>>
         /\ Awaited("first name", b, x, e, inner) <=>
              (\E n : e = OpenFields(<<>>, n)) /\ x = b \o <<LeftBrace>>
         /\ Awaited("value", b, x, e, inner) <=> AwaitsValue(b, x, e, inner)
         /\ Awaited("name", b, x, e, inner) <=> AwaitsName(b, x, e, inner)
         /\ Awaited("colon", b, x, e, inner) <=> AwaitsColon(b, x, e, inner)
         /\ Awaited("more", b, x, e, inner) <=>
              HasItems(b, x, e, inner) \/ HasFields(b, x, e, inner)
         /\ "first value" \in Waiting /\ "first name" \in Waiting /\ "value" \in Waiting
         /\ "name" \in Waiting /\ "colon" \in Waiting /\ "more" \in Waiting
  <1> DEFINE A == e = OpenList(<<>>) /\ x = b \o <<LeftBracket>>
             B == (\E n : e = OpenFields(<<>>, n)) /\ x = b \o <<LeftBrace>>
             C == AwaitsValue(b, x, e, inner)
             D == AwaitsName(b, x, e, inner)
             E == AwaitsColon(b, x, e, inner)
             F == HasItems(b, x, e, inner) \/ HasFields(b, x, e, inner)
  <1>1. \A w : Awaited(w, b, x, e, inner) <=>
                 /\ w = "first value" => A
                 /\ w = "first name"  => B
                 /\ w = "value"       => C
                 /\ w = "name"        => D
                 /\ w = "colon"       => E
                 /\ w = "more"        => F
    BY Zenon DEF Awaited
  <1> HIDE DEF A, B, C, D, E, F
  <1>2. Awaited("first value", b, x, e, inner) <=> A
    BY <1>1, Zenon
  <1>3. Awaited("first name", b, x, e, inner) <=> B
    BY <1>1, Zenon
  <1>4. Awaited("value", b, x, e, inner) <=> C
    BY <1>1, Zenon
  <1>5. Awaited("name", b, x, e, inner) <=> D
    BY <1>1, Zenon
  <1>6. Awaited("colon", b, x, e, inner) <=> E
    BY <1>1, Zenon
  <1>7. Awaited("more", b, x, e, inner) <=> F
    BY <1>1, Zenon
  <1>8. /\ "first value" \in Waiting /\ "first name" \in Waiting /\ "value" \in Waiting
        /\ "name" \in Waiting /\ "colon" \in Waiting /\ "more" \in Waiting
    <2>1. "first value" \in Waiting
      BY Zenon DEF Waiting
    <2>2. "first name" \in Waiting
      BY Zenon DEF Waiting
    <2>3. "value" \in Waiting
      BY Zenon DEF Waiting
    <2>4. "name" \in Waiting
      BY Zenon DEF Waiting
    <2>5. "colon" \in Waiting
      BY Zenon DEF Waiting
    <2>6. "more" \in Waiting
      BY Zenon DEF Waiting
    <2> QED
      BY <2>1, <2>2, <2>3, <2>4, <2>5, <2>6, Zenon
  <1> QED
    BY <1>2, <1>3, <1>4, <1>5, <1>6, <1>7, <1>8, Zenon DEF A, B, C, D, E, F

LEMMA NothingNested == Nested(<<>>, <<>>)
  <1> DEFINE h == [j \in {0} |-> <<>>]
  <1>1. Len(<<>>) = 0 /\ h[0] = <<>> /\ 0..0 = {0} /\ 1..0 = {} /\ <<>> \in Seq(Token)
    OBVIOUS
  <1> HIDE DEF h
  <1>2. \A j \in 0..Len(<<>>) : h[j] \in Seq(Token)
    BY <1>1
  <1>3. \A j \in 1..Len(<<>>) : AwaitsValue(h[j - 1], h[j], <<>>[j], Inner(j))
    BY <1>1
  <1>4. h[Len(<<>>)] = <<>>
    BY <1>1
  <1> QED
    BY <1>1, <1>2, <1>3, <1>4, Zenon DEF Nested

LEMMA NestedGrows ==
  ASSUME NEW s, Sequence(s), NEW b, Nested(s, b), NEW x \in Seq(Token), NEW e,
         AwaitsValue(b, x, e, Inner(Len(s) + 1))
  PROVE  Nested(Append(s, e), x)
  <1> DEFINE n == Len(s)
             a == Append(s, e)
             m == n + 1
  <1>1. PICK h : /\ h[0] = <<>> /\ h[Len(s)] = b
                 /\ \A j \in 0..Len(s) : h[j] \in Seq(Token)
                 /\ \A j \in 1..Len(s) : AwaitsValue(h[j - 1], h[j], s[j], Inner(j))
    BY DEF Nested
  <1>2. /\ Len(a) = m /\ n \in Nat /\ a[m] = e /\ \A i \in 1..n : a[i] = s[i]
    BY AppendedElements
  <1>3. /\ h[n] = b /\ \A j \in 0..n : h[j] \in Seq(Token)
        /\ \A j \in 1..n : AwaitsValue(h[j - 1], h[j], s[j], Inner(j))
    BY <1>1, Zenon
  <1>4. AwaitsValue(b, x, e, Inner(m))
    OBVIOUS
  <1>5. m = n + 1
    OBVIOUS
  <1> DEFINE g == [j \in 0..m |-> IF j = m THEN x ELSE h[j]]
  <1> HIDE DEF n, a, m
  <1>6. g[m] = x /\ \A j \in 0..n : g[j] = h[j]
    BY <1>2, <1>5
  <1> HIDE DEF g
  <1>7. \A j \in 0..m : g[j] \in Seq(Token)
    <2> TAKE j \in 0..m
    <2>1. j = m \/ j \in 0..n
      BY <1>2, <1>5
    <2> QED
      BY <1>3, <1>6, <2>1, Zenon
  <1>8. \A j \in 1..m : AwaitsValue(g[j - 1], g[j], a[j], Inner(j))
    <2> TAKE j \in 1..m
    <2>1. CASE j = m
      <3>1. j - 1 = n /\ n \in 0..n
        BY <1>2, <1>5, <2>1
      <3> QED
        BY <1>2, <1>3, <1>4, <1>6, <2>1, <3>1, Zenon
    <2>2. CASE j # m
      <3>1. j \in 1..n /\ j \in 0..n /\ j - 1 \in 0..n
        BY <1>2, <1>5, <2>2
      <3> QED
        BY <1>2, <1>3, <1>6, <3>1, Zenon
    <2> QED
      BY <2>1, <2>2
  <1>9. g[0] = <<>>
    <2>1. 0 \in 0..n
      BY <1>2
    <2> QED
      BY <1>1, <1>6, <2>1
  <1> QED
    BY <1>2, <1>6, <1>7, <1>8, <1>9, Zenon DEF Nested, a

LEMMA NestedShrinks ==
  ASSUME NEW s, Sequence(s), s # <<>>, NEW b, Nested(s, b)
  PROVE  /\ Sequence(Front(s)) /\ Len(s) \in Nat /\ Len(s) = Len(Front(s)) + 1
         /\ \E a \in Seq(Token) : Nested(Front(s), a) /\ AwaitsValue(a, b, Last(s), Inner(Len(s)))
  <1> DEFINE n == Len(s)
             f == Front(s)
             m == Len(f)
  <1>1. PICK h : /\ h[0] = <<>> /\ h[Len(s)] = b
                 /\ \A j \in 0..Len(s) : h[j] \in Seq(Token)
                 /\ \A j \in 1..Len(s) : AwaitsValue(h[j - 1], h[j], s[j], Inner(j))
    BY DEF Nested
  <1>2. /\ n \in Nat /\ n \in 1..n /\ Sequence(f) /\ m = n - 1
        /\ \A i \in 1..m : i \in 1..n /\ f[i] = s[i]
    BY LastAndFront
  <1>3. Last(s) = s[n]
    BY DEF Last
  <1>4. /\ h[n] = b /\ \A j \in 0..n : h[j] \in Seq(Token)
        /\ \A j \in 1..n : AwaitsValue(h[j - 1], h[j], s[j], Inner(j))
    BY <1>1, Zenon
  <1> HIDE DEF n, f, m
  <1>5. n = m + 1 /\ n - 1 = m /\ m \in 0..n /\ m \in Nat
    BY <1>2
  <1>6. \A j \in 0..m : j \in 0..n
    BY <1>2
  <1>7. Nested(f, h[m])
    <2>1. \A j \in 0..m : h[j] \in Seq(Token)
      BY <1>4, <1>6
    <2>2. \A j \in 1..m : AwaitsValue(h[j - 1], h[j], f[j], Inner(j))
      BY <1>2, <1>4, Zenon
    <2> QED
      BY <1>1, <2>1, <2>2, Zenon DEF Nested, m
  <1>8. AwaitsValue(h[m], b, Last(s), Inner(n))
    BY <1>2, <1>3, <1>4, <1>5, Zenon
  <1>9. h[m] \in Seq(Token)
    BY <1>4, <1>5
  <1> QED
    BY <1>2, <1>5, <1>7, <1>8, <1>9, Zenon DEF n, f, m

LEMMA NestedTyped ==
  ASSUME NEW s, Sequence(s), NEW b, Nested(s, b)
  PROVE  b \in Seq(Token) /\ (s = <<>> => b = <<>>) /\ Len(s) \in Nat
  <1>1. PICK h : /\ h[0] = <<>> /\ h[Len(s)] = b
                 /\ \A j \in 0..Len(s) : h[j] \in Seq(Token)
    BY DEF Nested
  <1>2. Len(s) \in Nat /\ Len(s) \in 0..Len(s) /\ (s = <<>> => Len(s) = 0)
    <2>1. Len(s) \in Nat
      BY LenProperties DEF Sequence
    <2>2. Len(<<>>) = 0
      OBVIOUS
    <2> QED
      BY <2>1, <2>2
  <1> QED
    BY <1>1, <1>2

LEMMA DeeperHas ==
  ASSUME NEW inner
  PROVE  /\ \A s \in Scalars : [text |-> <<s>>, value |-> s] \in Deeper(inner)
         /\ \A l \in Lists(Items(inner)) :
              [text |-> <<LeftBracket>> \o l.text \o <<RightBracket>>, value |-> Array(l.items)]
                \in Deeper(inner)
         /\ \A l \in Lists(NamedItems(inner)) :
              [text |-> <<LeftBrace>> \o l.text \o <<RightBrace>>, value |-> Object(Meant(l.items))]
                \in Deeper(inner)
  <1> DEFINE scalars == {[text |-> <<s>>, value |-> s] : s \in Scalars}
             array(l) == [text |-> <<LeftBracket>> \o l.text \o <<RightBracket>>, value |-> Array(l.items)]
             object(l) == [text |-> <<LeftBrace>> \o l.text \o <<RightBrace>>, value |-> Object(Meant(l.items))]
             arrays == {array(l) : l \in Lists(Items(inner))}
             objects == {object(l) : l \in Lists(NamedItems(inner))}
  <1>1. Deeper(inner) = scalars \cup arrays \cup objects
    BY Zenon DEF Deeper, LeftBracket, RightBracket, LeftBrace, RightBrace
  <1>2. \A s \in Scalars : [text |-> <<s>>, value |-> s] \in scalars
    BY Zenon
  <1>3. \A l \in Lists(Items(inner)) : array(l) \in arrays
    <2> HIDE DEF array
    <2> QED
      BY Zenon
  <1>4. \A l \in Lists(NamedItems(inner)) : object(l) \in objects
    <2> HIDE DEF object
    <2> QED
      BY Zenon
  <1> HIDE DEF scalars, arrays, objects, array, object
  <1>5. /\ \A s \in Scalars : [text |-> <<s>>, value |-> s] \in Deeper(inner)
        /\ \A l \in Lists(Items(inner)) : array(l) \in Deeper(inner)
        /\ \A l \in Lists(NamedItems(inner)) : object(l) \in Deeper(inner)
    BY <1>1, <1>2, <1>3, <1>4, Zenon
  <1> QED
    BY <1>5, Zenon DEF array, object

LEMMA ItemsHave ==
  ASSUME NEW inner, NEW t, NEW v, [text |-> t, value |-> v] \in inner
  PROVE  /\ [text |-> t, item |-> v] \in Items(inner)
         /\ \A n \in TypedNames :
              [text |-> <<String(n), Colon>> \o t, item |-> [name |-> n, value |-> v]]
                \in NamedItems(inner)
  <1> DEFINE g == [text |-> t, value |-> v]
  <1>1. g.text = t /\ g.value = v /\ g \in inner
    OBVIOUS
  <1> HIDE DEF g
  <1>2. [text |-> g.text, item |-> g.value] \in Items(inner)
    BY <1>1, Zenon DEF Items
  <1>3. \A n \in TypedNames :
          [text |-> <<String(n), Colon>> \o g.text, item |-> [name |-> n, value |-> g.value]]
            \in NamedItems(inner)
    <2> TAKE n \in TypedNames
    <2> DEFINE named(m) == {[text |-> <<String(m), Colon>> \o k.text, item |-> [name |-> m, value |-> k.value]] :
                              k \in inner}
    <2>1. NamedItems(inner) = UNION {named(m) : m \in TypedNames}
      BY Zenon DEF NamedItems, Colon
    <2>2. [text |-> <<String(n), Colon>> \o g.text, item |-> [name |-> n, value |-> g.value]] \in named(n)
      BY <1>1, Zenon
    <2> HIDE DEF named
    <2> QED
      BY <2>1, <2>2
  <1> QED
    BY <1>1, <1>2, <1>3

\* A value that is complete is the whole, or goes into what is open.
LEMMA DeliveredTraced ==
  ASSUME NEW s, Sequence(s), Len(s) <= MaxDepth, NEW b, Nested(s, b), NEW t \in Seq(Token),
         NEW v, [text |-> t, value |-> v] \in Inner(Len(s))
  PROVE  Traced(Delivered(s, v), b \o t)
  <1>1. CASE s = <<>>
    <2>1. b = <<>>
      BY <1>1, NestedTyped
    <2>2. Delivered(s, v) = Whole(v)
      BY <1>1, Zenon DEF Delivered
    <2>3. b \o t = t
      BY <2>1, ConcatEmptySeq
    <2>4. Inner(Len(s)) = Texts
      <3>1. Len(s) = 0 /\ MaxDepth - 0 = MaxDepth
        BY <1>1, EmptySeq, BoundsAssumption
      <3> QED
        BY <3>1, Zenon DEF Inner, Texts
    <2>5. [text |-> b \o t, value |-> v] \in Texts
      BY <2>3, <2>4, Zenon
    <2> QED
      BY <2>2, <2>5, Zenon DEF Traced
  <1>2. CASE s # <<>>
    <2> DEFINE f == Front(s)
               e == Last(s)
               inner == Inner(Len(s))
    <2>1. /\ Sequence(f) /\ Len(s) \in Nat /\ Len(s) = Len(f) + 1
          /\ \E a \in Seq(Token) : Nested(f, a) /\ AwaitsValue(a, b, e, inner)
      BY <1>2, NestedShrinks
    <2>2. PICK a \in Seq(Token) : Nested(f, a) /\ AwaitsValue(a, b, e, inner)
      BY <2>1
    <2>3. Append(f, e) = s
      BY <1>2, FrontAppended
    <2>4. Len(f) + 1 <= MaxDepth /\ Inner(Len(f) + 1) = inner
      BY <2>1
    <2>5. Texted(Items(inner)) /\ Texted(NamedItems(inner))
      <3>1. Len(s) \in 0..MaxDepth
        BY <2>1, BoundsAssumption
      <3> QED
        BY <3>1, GrammarIsWritten
    <2>6. [text |-> t, value |-> v] \in inner
      OBVIOUS
    <2> HIDE DEF f, e, inner
    <2>7. ASSUME NEW k, HasItems(a, b \o t, k, inner) \/ HasFields(a, b \o t, k, inner)
          PROVE  Traced(At(Append(f, k), "more"), b \o t)
      <3>1. Awaited("more", a, b \o t, k, inner) /\ "more" \in Waiting
        BY <2>7, AwaitedCases, Zenon
      <3>2. Awaited("more", a, b \o t, k, Inner(Len(f) + 1))
        BY <2>4, <3>1, Zenon
      <3> QED
        BY <2>1, <2>2, <2>4, <3>1, <3>2, Zenon DEF Traced
    <2>8. CASE AwaitsItem(a, b, e, inner)
      <3>1. PICK xs \in Seq(Items(inner)) : e = OpenList(ItemsIn(xs)) /\ b = GoesOn(a, LeftBracket, xs)
        BY <2>8 DEF AwaitsItem
      <3> DEFINE x == [text |-> t, item |-> v]
                 ys == Append(xs, x)
      <3>2. x \in Items(inner) /\ x.text = t /\ x.item = v
        <4>1. x \in Items(inner)
          BY <2>6, ItemsHave
        <4> QED
          BY <4>1
      <3> HIDE DEF x
      <3>3. ys \in Seq(Items(inner)) /\ ys # <<>>
        BY <3>2, AppendProperties
      <3>4. ItemsIn(ys) = Append(ItemsIn(xs), v)
        BY <3>2, TextsGrow
      <3>5. LeftBracket \in Token
        BY BracketsAreTokens
      <3>6. GoesOn(a, LeftBracket, xs) \o t = Partly(a, LeftBracket, ys)
        BY <2>2, <2>5, <3>2, <3>5, PartlyGrows
      <3>7. Delivered(Append(f, OpenList(ItemsIn(xs))), v) = At(Append(f, OpenList(Append(ItemsIn(xs), v))), "more")
        BY <2>1, DeliveredInList, Zenon
      <3>8. Delivered(s, v) = At(Append(f, OpenList(ItemsIn(ys))), "more")
        BY <2>3, <3>1, <3>4, <3>7, Zenon
      <3>9. HasItems(a, b \o t, OpenList(ItemsIn(ys)), inner)
        BY <3>1, <3>3, <3>6, Zenon DEF HasItems
      <3> QED
        BY <2>7, <3>8, <3>9, Zenon
    <2>9. CASE AwaitsField(a, b, e, inner)
      <3>1. PICK xs \in Seq(NamedItems(inner)), n \in TypedNames :
              e = OpenFields(Fields(xs), n) /\ b = GoesOn(a, LeftBrace, xs) \o <<String(n), Colon>>
        BY <2>9 DEF AwaitsField
      <3> DEFINE m == <<String(n), Colon>>
                 x == [text |-> m \o t, item |-> [name |-> n, value |-> v]]
                 ys == Append(xs, x)
                 o == GoesOn(a, LeftBrace, xs)
      <3>2. x \in NamedItems(inner) /\ x.text = m \o t /\ x.item.name = n /\ x.item.value = v
        <4>1. x \in NamedItems(inner)
          BY <2>6, ItemsHave
        <4> QED
          BY <4>1
      <3>3. m \in Seq(Token)
        BY NamesTyped, MemberTyped
      <3>4. e = OpenFields(Fields(xs), n) /\ b = o \o m
        BY <3>1
      <3> HIDE DEF x, m
      <3>5. ys \in Seq(NamedItems(inner)) /\ ys # <<>>
        BY <3>2, AppendProperties
      <3>6. Fields(ys) = Updated(Fields(xs), n, v)
        BY <3>2, FieldsGrow
      <3>7. LeftBrace \in Token
        BY BracketsAreTokens
      <3>8. o \o (m \o t) = Partly(a, LeftBrace, ys) /\ o \in Seq(Token)
        <4> DEFINE r == m \o t
        <4>1. x.text = r
          BY <3>2
        <4> HIDE DEF r
        <4>2. o \o r = Partly(a, LeftBrace, ys) /\ o \in Seq(Token)
          BY <2>2, <2>5, <3>2, <3>7, <4>1, PartlyGrows
        <4> QED
          BY <4>2 DEF r
      <3> HIDE DEF o
      <3>9. b \o t = o \o (m \o t)
        <4>1. o \in Seq(Token)
          BY <3>8
        <4>2. (o \o m) \o t = o \o (m \o t)
          BY <3>3, <4>1, ConcatAssociative
        <4> QED
          BY <3>4, <4>2, Zenon
      <3>10. Delivered(Append(f, OpenFields(Fields(xs), n)), v) =
               At(Append(f, OpenFields(Updated(Fields(xs), n, v), n)), "more")
        BY <2>1, DeliveredInFields, Zenon
      <3>11. Delivered(s, v) = At(Append(f, OpenFields(Fields(ys), n)), "more")
        BY <2>3, <3>4, <3>6, <3>10, Zenon
      <3>12. HasFields(a, b \o t, OpenFields(Fields(ys), n), inner)
        BY <3>5, <3>8, <3>9, Zenon DEF HasFields
      <3> QED
        BY <2>7, <3>11, <3>12, Zenon
    <2> QED
      BY <2>2, <2>8, <2>9 DEF AwaitsValue
  <1> QED
    BY <1>1, <1>2

LEMMA MarkToken ==
  ASSUME NEW t \in Token, NEW c \in {"[", "]", "{", "}", ",", ":"}, t.kind = c
  PROVE  t = Mark(c)
  <1>1. CASE t \in ScalarValues
    <2>1. t.kind \in Kinds
      BY <1>1, ScalarCases DEF Kinds
    <2> QED
      BY <2>1, MarksAreNoKinds, Zenon
  <1>2. CASE t \in Marks
    <2>1. PICK k \in {"[", "]", "{", "}", ",", ":"} : t = Mark(k)
      BY <1>2, Zenon DEF Marks
    <2>2. t.kind = k
      BY <2>1, Zenon DEF Mark
    <2> QED
      BY <2>1, <2>2, Zenon
  <1> QED
    BY <1>1, <1>2, Zenon DEF Token

LEMMA NameToken ==
  ASSUME NEW t \in Tokens, t.kind = "string"
  PROVE  t.chars \in TypedNames /\ t = String(t.chars)
  <1>1. t.chars \in TypedNames
    BY DEF TypedNames
  <1>2. t \in ScalarValues
    <2>1. t \in Token
      BY TokensAssumption
    <2>2. "string" \in Kinds
      BY Zenon DEF Kinds
    <2>3. t \notin Marks
      <3>1. SUFFICES ASSUME t \in Marks PROVE FALSE
        OBVIOUS
      <3>2. PICK k \in {"[", "]", "{", "}", ",", ":"} : t = Mark(k)
        BY <3>1, Zenon DEF Marks
      <3>3. t.kind = k
        BY <3>2, Zenon DEF Mark
      <3> QED
        BY <2>2, <3>2, <3>3, MarksAreNoKinds, Zenon
    <2> QED
      BY <2>1, <2>3, Zenon DEF Token
  <1>3. t = String(t.chars)
    BY <1>2 DEF ScalarValues, String, Null, Bool
  <1> QED
    BY <1>1, <1>3

LEMMA OpenedTraced ==
  ASSUME NEW s, Sequence(s), Len(s) + 1 <= MaxDepth, NEW b, Nested(s, b)
  PROVE  /\ Traced(At(Append(s, OpenList(<<>>)), "first value"), b \o <<LeftBracket>>)
         /\ Traced(At(Append(s, OpenFields(<<>>, <<>>)), "first name"), b \o <<LeftBrace>>)
  <1> DEFINE x == b \o <<LeftBracket>>
             y == b \o <<LeftBrace>>
             e == OpenList(<<>>)
             k == OpenFields(<<>>, <<>>)
             inner == Inner(Len(s) + 1)
  <1>1. \E n : k = OpenFields(<<>>, n)
    OBVIOUS
  <1>2. Awaited("first value", b, x, e, inner) /\ "first value" \in Waiting
    BY AwaitedCases, Zenon
  <1>3. Awaited("first name", b, y, k, inner) /\ "first name" \in Waiting
    BY <1>1, AwaitedCases, Zenon
  <1> HIDE DEF x, y, e, k
  <1>4. Traced(At(Append(s, e), "first value"), x)
    BY <1>2, Zenon DEF Traced
  <1>5. Traced(At(Append(s, k), "first name"), y)
    BY <1>3, Zenon DEF Traced
  <1> QED
    BY <1>4, <1>5 DEF x, y, e, k

\* The start of a value, where one may come.
LEMMA ExpectedTraced ==
  ASSUME NEW s, Sequence(s), Len(s) <= MaxDepth, NEW b, Nested(s, b), NEW w \in Expecting,
         NEW t \in Tokens, StartsValue(t)
  PROVE  Traced(Consume(At(s, w), t, MaxDepth), b \o <<t>>)
  <1> DEFINE q == Consume(At(s, w), t, MaxDepth)
  <1>0. MaxDepth \in Nat /\ Len(s) \in Nat /\ t \in Token
    BY BoundsAssumption, TokensAssumption, NestedTyped
  <1>1. At(s, w).want \in {"value", "first value"} /\ At(s, w).stack = s
    <2>1. At(s, w).want = w /\ At(s, w).stack = s
      BY Zenon DEF At
    <2> QED
      BY <2>1, Zenon DEF Expecting
  <1>2. \/ Len(s) + 1 > MaxDepth /\ q = Refusal
        \/ ~(Len(s) + 1 > MaxDepth) /\ t.kind = "[" /\ q = Opened(s, "[")
        \/ ~(Len(s) + 1 > MaxDepth) /\ t.kind = "{" /\ q = Opened(s, "{")
        \/ ~(Len(s) + 1 > MaxDepth) /\ t.kind \notin {"[", "{"} /\ q = Delivered(s, t)
    BY <1>1, Zenon DEF Consume
  <1>3. ~(Len(s) + 1 > MaxDepth) => Len(s) + 1 <= MaxDepth
    BY <1>0
  <1>4. Opened(s, "[") = At(Append(s, OpenList(<<>>)), "first value")
    BY Zenon DEF Opened, OpenList
  <1>5. Opened(s, "{") = At(Append(s, OpenFields(<<>>, <<>>)), "first name")
    BY Zenon DEF Opened, OpenFields
  <1> HIDE DEF q
  <1>6. CASE q = Refusal
    BY <1>6, Zenon DEF Traced, q
  <1>7. CASE Len(s) + 1 <= MaxDepth /\ t.kind = "[" /\ q = Opened(s, "[")
    <2>1. t = LeftBracket
      BY <1>0, <1>7, MarkToken, Zenon DEF LeftBracket
    <2>2. Traced(At(Append(s, OpenList(<<>>)), "first value"), b \o <<LeftBracket>>)
      BY <1>7, OpenedTraced
    <2> QED
      BY <1>4, <1>7, <2>1, <2>2, Zenon DEF q
  <1>8. CASE Len(s) + 1 <= MaxDepth /\ t.kind = "{" /\ q = Opened(s, "{")
    <2>1. t = LeftBrace
      BY <1>0, <1>8, MarkToken, Zenon DEF LeftBrace
    <2>2. Traced(At(Append(s, OpenFields(<<>>, <<>>)), "first name"), b \o <<LeftBrace>>)
      BY <1>8, OpenedTraced
    <2> QED
      BY <1>5, <1>8, <2>1, <2>2, Zenon DEF q
  <1>9. CASE Len(s) + 1 <= MaxDepth /\ t.kind \notin {"[", "{"} /\ q = Delivered(s, t)
    <2>1. t \in ScalarValues
      BY <1>0, <1>9, StartsScalar, Zenon
    <2>2. t \in Scalars
      <3>1. t.kind \in {"null", "boolean", "number", "string"}
        BY <2>1, ScalarCases
      <3> QED
        BY <3>1 DEF Scalars
    <2> DEFINE inner == Inner(Len(s) + 1)
    <2>3. [text |-> <<t>>, value |-> t] \in Deeper(inner)
      BY <2>2, DeeperHas
    <2>4. Inner(Len(s)) = Deeper(inner)
      <3>1. Len(s) + 1 <= MaxDepth
        BY <1>9, Zenon
      <3>2. Len(s) \in 0..MaxDepth /\ Len(s) + 1 \in 0..MaxDepth
        BY <1>0, <3>1
      <3> QED
        BY <3>2, GrammarIsWritten
    <2>5. <<t>> \in Seq(Token)
      BY <1>0
    <2>6. [text |-> <<t>>, value |-> t] \in Inner(Len(s))
      BY <2>3, <2>4, Zenon
    <2> DEFINE u == <<t>>
    <2> HIDE DEF u
    <2>7. Traced(Delivered(s, t), b \o u)
      BY <2>5, <2>6, DeliveredTraced, Zenon DEF u
    <2> QED
      BY <1>9, <2>7, Zenon DEF q, u
  <1> QED
    BY <1>2, <1>3, <1>6, <1>7, <1>8, <1>9, Zenon

\* An array or an object is complete, if the text is not too long.
LEMMA ShutTraced ==
  ASSUME NEW s, Sequence(s), Len(s) + 1 <= MaxDepth, NEW b, Nested(s, b)
  PROVE  /\ \A xs \in Seq(Items(Inner(Len(s) + 1))) :
              Len(Partly(b, LeftBracket, xs)) + 1 <= MaxTokens =>
                Traced(Delivered(s, Array(ItemsIn(xs))), Partly(b, LeftBracket, xs) \o <<RightBracket>>)
         /\ \A xs \in Seq(NamedItems(Inner(Len(s) + 1))) :
              Len(Partly(b, LeftBrace, xs)) + 1 <= MaxTokens =>
                Traced(Delivered(s, Object(Fields(xs))), Partly(b, LeftBrace, xs) \o <<RightBrace>>)
  <1> DEFINE inner == Inner(Len(s) + 1)
  <1>0. /\ MaxDepth \in Nat /\ MaxTokens \in Nat /\ Len(s) \in Nat /\ b \in Seq(Token)
        /\ Len(s) <= MaxDepth
    BY BoundsAssumption, NestedTyped
  <1>1. Texted(Items(inner)) /\ Texted(NamedItems(inner)) /\ Inner(Len(s)) = Deeper(inner)
    <2>1. Len(s) \in 0..MaxDepth /\ Len(s) + 1 \in 0..MaxDepth
      BY <1>0
    <2> QED
      BY <2>1, GrammarIsWritten
  <1> HIDE DEF inner
  <1>2. ASSUME NEW xs \in Seq(Items(inner)), Len(Partly(b, LeftBracket, xs)) + 1 <= MaxTokens
        PROVE  Traced(Delivered(s, Array(ItemsIn(xs))), Partly(b, LeftBracket, xs) \o <<RightBracket>>)
    <2> DEFINE l == Made(xs)
               t == <<LeftBracket>> \o l.text \o <<RightBracket>>
               v == Array(l.items)
               x == Partly(b, LeftBracket, xs) \o <<RightBracket>>
    <2>1. LeftBracket \in Token /\ RightBracket \in Token
      BY BracketsAreTokens
    <2>2. /\ x = b \o t /\ t \in Seq(Token)
          /\ Len(Partly(b, LeftBracket, xs)) = Len(b) + 1 + Len(l.text)
          /\ Len(l.text) \in Nat /\ Len(b) \in Nat
      BY <1>0, <1>1, <2>1, PartlyShuts
    <2>3. l.text = Separated(TextsOf(xs)) /\ l.items = ItemsIn(xs)
      BY DEF Made
    <2>4. Len(Separated(TextsOf(xs))) + 2 <= MaxTokens
      BY <1>0, <1>2, <2>2, <2>3
    <2>5. l \in Lists(Items(inner))
      BY <1>1, <2>4, SequencesAreLists
    <2>6. [text |-> t, value |-> v] \in Deeper(inner)
      BY <2>5, DeeperHas, Zenon
    <2> HIDE DEF t, v, x, l
    <2>7. Traced(Delivered(s, v), b \o t)
      BY <1>0, <1>1, <2>2, <2>6, DeliveredTraced, Zenon
    <2> QED
      BY <2>2, <2>3, <2>7, Zenon DEF x, v
  <1>3. ASSUME NEW xs \in Seq(NamedItems(inner)), Len(Partly(b, LeftBrace, xs)) + 1 <= MaxTokens
        PROVE  Traced(Delivered(s, Object(Fields(xs))), Partly(b, LeftBrace, xs) \o <<RightBrace>>)
    <2> DEFINE l == Made(xs)
               t == <<LeftBrace>> \o l.text \o <<RightBrace>>
               v == Object(Meant(l.items))
               x == Partly(b, LeftBrace, xs) \o <<RightBrace>>
    <2>1. LeftBrace \in Token /\ RightBrace \in Token
      BY BracketsAreTokens
    <2>2. /\ x = b \o t /\ t \in Seq(Token)
          /\ Len(Partly(b, LeftBrace, xs)) = Len(b) + 1 + Len(l.text)
          /\ Len(l.text) \in Nat /\ Len(b) \in Nat
      BY <1>0, <1>1, <2>1, PartlyShuts
    <2>3. l.text = Separated(TextsOf(xs)) /\ l.items = ItemsIn(xs)
      BY DEF Made
    <2>4. Len(Separated(TextsOf(xs))) + 2 <= MaxTokens
      BY <1>0, <1>3, <2>2, <2>3
    <2>5. l \in Lists(NamedItems(inner))
      BY <1>1, <2>4, SequencesAreLists
    <2>6. [text |-> t, value |-> v] \in Deeper(inner)
      BY <2>5, DeeperHas, Zenon
    <2> HIDE DEF t, v, x, l
    <2>7. Traced(Delivered(s, v), b \o t)
      BY <1>0, <1>1, <2>2, <2>6, DeliveredTraced, Zenon
    <2> QED
      BY <2>2, <2>3, <2>7, Zenon DEF x, v, Fields
  <1> QED
    BY <1>2, <1>3, Zenon DEF inner

LEMMA NothingTyped == \A S : <<>> \in Seq(S)
  OBVIOUS

LEMMA NothingIn ==
  ASSUME NEW b \in Seq(Token), NEW l \in Token
  PROVE  /\ ItemsIn(<<>>) = <<>> /\ Fields(<<>>) = <<>>
         /\ GoesOn(b, l, <<>>) = b \o <<l>> /\ Partly(b, l, <<>>) = b \o <<l>>
  <1> DEFINE o == b \o <<l>>
  <1>1. TextsOf(<<>>) = <<>> /\ ItemsIn(<<>>) = <<>>
    BY DEF TextsOf, ItemsIn
  <1>2. Fields(<<>>) = <<>>
    BY <1>1, NothingMeant, Zenon DEF Fields
  <1>3. GoesOn(b, l, <<>>) = o
    BY Zenon DEF GoesOn
  <1>4. Partly(b, l, <<>>) = o \o <<>>
    BY <1>1, NothingSeparated, Zenon DEF Partly
  <1>5. o \in Seq(Token)
    BY ConcatProperties
  <1> HIDE DEF o
  <1>6. o \o <<>> = o
    BY <1>5, ConcatEmptySeq
  <1>7. GoesOn(b, l, <<>>) = o /\ Partly(b, l, <<>>) = o
    BY <1>3, <1>4, <1>6, Zenon
  <1> QED
    BY <1>1, <1>2, <1>7 DEF o

LEMMA WithinCases ==
  ASSUME NEW p, NEW t
  PROVE  \/ Shuts(p, t) /\ Within(p, t) = Closed(p.stack)
         \/ /\ Names(p, t)
            /\ Within(p, t) = At(Append(Front(p.stack), [Last(p.stack) EXCEPT !.name = t.chars]), "colon")
         \/ p.want = "colon" /\ t.kind = ":" /\ Within(p, t) = At(p.stack, "value")
         \/ /\ p.want = "more" /\ t.kind = ","
            /\ Within(p, t) = At(p.stack, IF Last(p.stack).kind = "array" THEN "value" ELSE "name")
         \/ Within(p, t) = Refusal
  <1> DEFINE colon == p.want = "colon" /\ t.kind = ":"
             comma == p.want = "more" /\ t.kind = ","
             named == At(Append(Front(p.stack), [Last(p.stack) EXCEPT !.name = t.chars]), "colon")
             goes == At(p.stack, IF Last(p.stack).kind = "array" THEN "value" ELSE "name")
             next == At(p.stack, "value")
  <1>1. Within(p, t) =
          CASE Shuts(p, t) -> Closed(p.stack)
            [] Names(p, t) -> named
            [] colon -> next
            [] comma -> goes
            [] OTHER -> Refusal
    BY Zenon DEF Within
  <1> HIDE DEF colon, comma, named, goes, next
  <1>2. \/ Shuts(p, t) /\ Within(p, t) = Closed(p.stack)
        \/ Names(p, t) /\ Within(p, t) = named
        \/ colon /\ Within(p, t) = next
        \/ comma /\ Within(p, t) = goes
        \/ Within(p, t) = Refusal
    BY <1>1
  <1> QED
    BY <1>2, Zenon DEF colon, comma, named, goes, next

\* What is open takes what it waits for.
LEMMA TakesValue ==
  ASSUME NEW b \in Seq(Token), NEW x, NEW e, NEW inner, NEW w \in Expecting,
         Awaited(w, b, x, e, inner)
  PROVE  AwaitsValue(b, x, e, inner)
  <1>1. CASE w = "value"
    BY <1>1, AwaitedCases, Zenon
  <1>2. CASE w = "first value"
    <2>1. e = OpenList(<<>>) /\ x = b \o <<LeftBracket>>
      BY <1>2, AwaitedCases, Zenon
    <2>2. LeftBracket \in Token
      BY BracketsAreTokens
    <2>3. ItemsIn(<<>>) = <<>> /\ GoesOn(b, LeftBracket, <<>>) = b \o <<LeftBracket>>
      BY <2>2, NothingIn
    <2>4. <<>> \in Seq(Items(inner))
      BY NothingTyped, Zenon
    <2>5. AwaitsItem(b, x, e, inner)
      BY <2>1, <2>3, <2>4, Zenon DEF AwaitsItem
    <2> QED
      BY <2>5, Zenon DEF AwaitsValue
  <1> QED
    BY <1>1, <1>2, Zenon DEF Expecting

LEMMA TakesName ==
  ASSUME NEW b \in Seq(Token), NEW x, NEW e, NEW inner, NEW w, w = "first name" \/ w = "name",
         Awaited(w, b, x, e, inner)
  PROVE  AwaitsName(b, x, e, inner)
  <1>1. CASE w = "name"
    BY <1>1, AwaitedCases, Zenon
  <1>2. CASE w = "first name"
    <2>1. (\E n : e = OpenFields(<<>>, n)) /\ x = b \o <<LeftBrace>>
      BY <1>2, AwaitedCases, Zenon
    <2>2. LeftBrace \in Token
      BY BracketsAreTokens
    <2>3. Fields(<<>>) = <<>> /\ GoesOn(b, LeftBrace, <<>>) = b \o <<LeftBrace>>
      BY <2>2, NothingIn
    <2>4. <<>> \in Seq(NamedItems(inner))
      BY NothingTyped, Zenon
    <2>5. PICK n : e = OpenFields(<<>>, n)
      BY <2>1, Zenon
    <2>6. e = OpenFields(Fields(<<>>), n)
      BY <2>3, <2>5, Zenon
    <2>7. x = GoesOn(b, LeftBrace, <<>>)
      BY <2>1, <2>3, Zenon
    <2> QED
      BY <2>4, <2>6, <2>7, Zenon DEF AwaitsName
  <1> QED
    BY <1>1, <1>2, Zenon

LEMMA ClosedOpen ==
  ASSUME NEW s, Sequence(s)
  PROVE  /\ \A items : /\ Closed(Append(s, OpenList(items))) = Delivered(s, Array(items))
                       /\ Last(Append(s, OpenList(items))).kind = "array"
         /\ \A f, n : /\ Closed(Append(s, OpenFields(f, n))) = Delivered(s, Object(f))
                      /\ Last(Append(s, OpenFields(f, n))).kind # "array"
  <1>1. ASSUME NEW items
        PROVE  /\ Closed(Append(s, OpenList(items))) = Delivered(s, Array(items))
               /\ Last(Append(s, OpenList(items))).kind = "array"
    <2> DEFINE a == Append(s, OpenList(items))
    <2>1. Last(a) = OpenList(items) /\ Front(a) = s
      BY AppendedFront
    <2>2. OpenList(items).kind = "array" /\ OpenList(items).items = items
      BY DEF OpenList
    <2> HIDE DEF a
    <2>3. Closed(a) = Delivered(s, Array(items))
      BY <2>1, <2>2, Zenon DEF Closed
    <2> QED
      BY <2>1, <2>2, <2>3, Zenon DEF a
  <1>2. ASSUME NEW f, NEW n
        PROVE  /\ Closed(Append(s, OpenFields(f, n))) = Delivered(s, Object(f))
               /\ Last(Append(s, OpenFields(f, n))).kind # "array"
    <2> DEFINE a == Append(s, OpenFields(f, n))
    <2>1. Last(a) = OpenFields(f, n) /\ Front(a) = s
      BY AppendedFront
    <2>2. OpenFields(f, n).kind # "array" /\ OpenFields(f, n).fields = f
      BY DEF OpenFields
    <2> HIDE DEF a
    <2>3. Closed(a) = Delivered(s, Object(f))
      BY <2>1, <2>2, Zenon DEF Closed
    <2> QED
      BY <2>1, <2>2, <2>3, Zenon DEF a
  <1> QED
    BY <1>1, <1>2, Zenon

\* A value begins in what is open.
LEMMA BeginTraced ==
  ASSUME NEW s, Sequence(s), Len(s) + 1 <= MaxDepth, NEW b, Nested(s, b), NEW x \in Seq(Token),
         NEW e, NEW w \in Expecting, Awaited(w, b, x, e, Inner(Len(s) + 1)),
         NEW t \in Tokens, StartsValue(t)
  PROVE  Traced(Consume(At(Append(s, e), w), t, MaxDepth), x \o <<t>>)
  <1> DEFINE a == Append(s, e)
  <1>1. b \in Seq(Token)
    BY NestedTyped
  <1>2. AwaitsValue(b, x, e, Inner(Len(s) + 1))
    BY <1>1, TakesValue, Zenon
  <1>3. Nested(a, x)
    BY <1>2, NestedGrows
  <1>4. Sequence(a) /\ Len(a) = Len(s) + 1
    BY AppendedElements
  <1> HIDE DEF a
  <1>5. Len(a) <= MaxDepth
    BY <1>4
  <1> QED
    BY <1>3, <1>4, <1>5, ExpectedTraced, Zenon DEF a

\* An end of what is open.
LEMMA EndTraced ==
  ASSUME NEW s, Sequence(s), Len(s) + 1 <= MaxDepth, NEW b, Nested(s, b), NEW x \in Seq(Token),
         NEW e, NEW w, Awaited(w, b, x, e, Inner(Len(s) + 1)), Len(x) + 1 <= MaxTokens,
         NEW t \in Token, Shuts(At(Append(s, e), w), t)
  PROVE  Traced(Closed(Append(s, e)), x \o <<t>>)
  <1> DEFINE a == Append(s, e)
             inner == Inner(Len(s) + 1)
  <1>1. b \in Seq(Token)
    BY NestedTyped
  <1>2. At(a, w).want = w /\ At(a, w).stack = a
    BY Zenon DEF At
  <1>3. LeftBracket \in Token /\ LeftBrace \in Token
    BY BracketsAreTokens
  <1>4. /\ t.kind = "]" => t = RightBracket
        /\ t.kind = "}" => t = RightBrace
    BY MarkToken, Zenon DEF RightBracket, RightBrace
  <1>5. \/ w = "first value" /\ t = RightBracket
        \/ w = "first name" /\ t = RightBrace
        \/ w = "more" /\ Last(a).kind = "array" /\ t = RightBracket
        \/ w = "more" /\ Last(a).kind # "array" /\ t = RightBrace
    BY <1>2, <1>4, Zenon DEF Shuts
  <1>6. ASSUME NEW xs \in Seq(Items(inner)), e = OpenList(ItemsIn(xs)),
               x = Partly(b, LeftBracket, xs), t = RightBracket
        PROVE  Traced(Closed(a), x \o <<t>>)
    <2>1. Len(Partly(b, LeftBracket, xs)) + 1 <= MaxTokens
      BY <1>6, Zenon
    <2>2. Traced(Delivered(s, Array(ItemsIn(xs))), Partly(b, LeftBracket, xs) \o <<RightBracket>>)
      BY <2>1, ShutTraced
    <2>3. Closed(a) = Delivered(s, Array(ItemsIn(xs)))
      BY <1>6, ClosedOpen, Zenon
    <2> QED
      BY <1>6, <2>2, <2>3, Zenon
  <1>7. ASSUME NEW xs \in Seq(NamedItems(inner)), NEW n, e = OpenFields(Fields(xs), n),
               x = Partly(b, LeftBrace, xs), t = RightBrace
        PROVE  Traced(Closed(a), x \o <<t>>)
    <2>1. Len(Partly(b, LeftBrace, xs)) + 1 <= MaxTokens
      BY <1>7, Zenon
    <2>2. Traced(Delivered(s, Object(Fields(xs))), Partly(b, LeftBrace, xs) \o <<RightBrace>>)
      BY <2>1, ShutTraced
    <2>3. Closed(a) = Delivered(s, Object(Fields(xs)))
      BY <1>7, ClosedOpen, Zenon
    <2> QED
      BY <1>7, <2>2, <2>3, Zenon
  <1>8. <<>> \in Seq(Items(inner)) /\ <<>> \in Seq(NamedItems(inner))
    BY NothingTyped, Zenon
  <1>9. CASE w = "first value" /\ t = RightBracket
    <2>1. e = OpenList(<<>>) /\ x = b \o <<LeftBracket>>
      BY <1>9, AwaitedCases, Zenon
    <2>2. ItemsIn(<<>>) = <<>> /\ Partly(b, LeftBracket, <<>>) = b \o <<LeftBracket>>
      BY <1>1, <1>3, NothingIn
    <2>3. e = OpenList(ItemsIn(<<>>)) /\ x = Partly(b, LeftBracket, <<>>)
      BY <2>1, <2>2, Zenon
    <2> QED
      BY <1>6, <1>8, <1>9, <2>3, Zenon
  <1>10. CASE w = "first name" /\ t = RightBrace
    <2>1. (\E n : e = OpenFields(<<>>, n)) /\ x = b \o <<LeftBrace>>
      BY <1>10, AwaitedCases, Zenon
    <2>2. Fields(<<>>) = <<>> /\ Partly(b, LeftBrace, <<>>) = b \o <<LeftBrace>>
      BY <1>1, <1>3, NothingIn
    <2>3. PICK n : e = OpenFields(<<>>, n)
      BY <2>1, Zenon
    <2>4. e = OpenFields(Fields(<<>>), n) /\ x = Partly(b, LeftBrace, <<>>)
      BY <2>1, <2>2, <2>3, Zenon
    <2> QED
      BY <1>7, <1>8, <1>10, <2>4, Zenon
  <1>11. w = "more" => HasItems(b, x, e, inner) \/ HasFields(b, x, e, inner)
    BY AwaitedCases, Zenon
  <1>12. HasItems(b, x, e, inner) =>
           Last(a).kind = "array" /\ (t = RightBracket => Traced(Closed(a), x \o <<t>>))
    <2>1. SUFFICES ASSUME HasItems(b, x, e, inner)
                   PROVE  Last(a).kind = "array" /\ (t = RightBracket => Traced(Closed(a), x \o <<t>>))
      OBVIOUS
    <2>2. PICK xs \in Seq(Items(inner)) : e = OpenList(ItemsIn(xs)) /\ x = Partly(b, LeftBracket, xs)
      BY <2>1, Zenon DEF HasItems
    <2>3. Last(a).kind = "array"
      BY <2>2, ClosedOpen, Zenon
    <2> QED
      BY <1>6, <2>2, <2>3, Zenon
  <1>13. HasFields(b, x, e, inner) =>
           Last(a).kind # "array" /\ (t = RightBrace => Traced(Closed(a), x \o <<t>>))
    <2>1. SUFFICES ASSUME HasFields(b, x, e, inner)
                   PROVE  Last(a).kind # "array" /\ (t = RightBrace => Traced(Closed(a), x \o <<t>>))
      OBVIOUS
    <2>2. PICK xs \in Seq(NamedItems(inner)) :
            x = Partly(b, LeftBrace, xs) /\ \E n : e = OpenFields(Fields(xs), n)
      BY <2>1, Zenon DEF HasFields
    <2>3. PICK n : e = OpenFields(Fields(xs), n)
      BY <2>2, Zenon
    <2>4. Last(a).kind # "array"
      BY <2>3, ClosedOpen, Zenon
    <2> QED
      BY <1>7, <2>2, <2>3, <2>4, Zenon
  <1> QED
    BY <1>5, <1>9, <1>10, <1>11, <1>12, <1>13, Zenon DEF a

\* A name, a colon, a comma.
LEMMA NameTraced ==
  ASSUME NEW s, Sequence(s), Len(s) + 1 <= MaxDepth, NEW b, Nested(s, b), NEW x \in Seq(Token),
         NEW e, NEW w, Awaited(w, b, x, e, Inner(Len(s) + 1)), NEW t \in Tokens,
         Names(At(Append(s, e), w), t)
  PROVE  Traced(At(Append(Front(Append(s, e)), [Last(Append(s, e)) EXCEPT !.name = t.chars]), "colon"),
                x \o <<t>>)
  <1> DEFINE a == Append(s, e)
             inner == Inner(Len(s) + 1)
             n == t.chars
  <1>1. b \in Seq(Token)
    BY NestedTyped
  <1>2. At(a, w).want = w
    BY Zenon DEF At
  <1>3. (w = "first name" \/ w = "name") /\ t.kind = "string"
    BY <1>2, Zenon DEF Names
  <1>4. AwaitsName(b, x, e, inner)
    BY <1>1, <1>3, TakesName, Zenon
  <1>5. n \in TypedNames /\ t = String(n)
    BY <1>3, NameToken
  <1>6. PICK xs \in Seq(NamedItems(inner)) :
          x = GoesOn(b, LeftBrace, xs) /\ \E m : e = OpenFields(Fields(xs), m)
    BY <1>4, Zenon DEF AwaitsName
  <1>7. PICK m : e = OpenFields(Fields(xs), m)
    BY <1>6, Zenon
  <1>8. Front(a) = s /\ Last(a) = e
    BY AppendedFront
  <1> HIDE DEF a, inner, n
  <1> DEFINE k == OpenFields(Fields(xs), n)
             y == x \o <<t>>
  <1>9. [e EXCEPT !.name = n] = k
    BY <1>7, Renamed
  <1>10. y = GoesOn(b, LeftBrace, xs) \o <<String(n)>>
    BY <1>5, <1>6, Zenon
  <1>11. AwaitsColon(b, y, k, inner)
    BY <1>5, <1>10, Zenon DEF AwaitsColon
  <1> HIDE DEF k, y
  <1>12. Awaited("colon", b, y, k, inner) /\ "colon" \in Waiting
    BY <1>11, AwaitedCases, Zenon
  <1>13. Traced(At(Append(s, k), "colon"), y)
    BY <1>12, Zenon DEF Traced, inner
  <1>14. At(Append(Front(a), [Last(a) EXCEPT !.name = n]), "colon") = At(Append(s, k), "colon")
    BY <1>8, <1>9, Zenon
  <1> QED
    BY <1>13, <1>14, Zenon DEF a, n, y

LEMMA ColonTraced ==
  ASSUME NEW s, Sequence(s), Len(s) + 1 <= MaxDepth, NEW b, Nested(s, b), NEW x \in Seq(Token),
         NEW e, Awaited("colon", b, x, e, Inner(Len(s) + 1))
  PROVE  Traced(At(Append(s, e), "value"), x \o <<Colon>>)
  <1> DEFINE inner == Inner(Len(s) + 1)
             c == Colon
             y == x \o <<c>>
  <1>1. b \in Seq(Token) /\ MaxDepth \in Nat /\ Len(s) \in Nat
    BY NestedTyped, BoundsAssumption
  <1>2. Len(s) + 1 \in 0..MaxDepth
    BY <1>1
  <1>3. Texted(NamedItems(inner))
    BY <1>2, GrammarIsWritten
  <1>4. AwaitsColon(b, x, e, inner)
    BY AwaitedCases, Zenon
  <1>5. PICK xs \in Seq(NamedItems(inner)), n \in TypedNames :
          e = OpenFields(Fields(xs), n) /\ x = GoesOn(b, LeftBrace, xs) \o <<String(n)>>
    BY <1>4, Zenon DEF AwaitsColon
  <1> DEFINE o == GoesOn(b, LeftBrace, xs)
             m == String(n)
             i == <<m>>
             k == <<c>>
  <1>6. LeftBrace \in Token
    BY BracketsAreTokens
  <1>7. o \in Seq(Token)
    BY <1>1, <1>3, <1>6, PartlyTyped
  <1>8. m \in Token /\ c \in Token
    <2>1. n \in Seq(Int)
      BY NamesTyped
    <2>2. m \in Token
      BY <2>1 DEF String, Token, ScalarValues
    <2>3. c \in Token
      BY Zenon DEF Token, Marks, Colon
    <2> QED
      BY <2>2, <2>3
  <1>9. i \in Seq(Token) /\ k \in Seq(Token) /\ i \o k = <<m, c>>
    <2> HIDE DEF m, c, o
    <2> QED
      BY <1>8, TwoTokens, Zenon
  <1> HIDE DEF o, m, c, i, k
  <1>10. (o \o i) \o k = o \o (i \o k)
    <2>1. i \in Seq(Token) /\ k \in Seq(Token)
      BY <1>9
    <2> QED
      BY <1>7, <2>1, ConcatAssociative
  <1>11. y = o \o <<m, c>>
    BY <1>5, <1>9, <1>10, Zenon DEF o, m, i, k
  <1>12. AwaitsField(b, y, e, inner)
    BY <1>5, <1>11, Zenon DEF AwaitsField, o, m, c
  <1> HIDE DEF y, inner
  <1>13. Awaited("value", b, y, e, inner) /\ "value" \in Waiting
    BY <1>12, AwaitedCases, Zenon DEF AwaitsValue
  <1>14. Traced(At(Append(s, e), "value"), y)
    BY <1>13, Zenon DEF Traced, inner
  <1> QED
    BY <1>14, Zenon DEF y, c

LEMMA CommaTraced ==
  ASSUME NEW s, Sequence(s), Len(s) + 1 <= MaxDepth, NEW b, Nested(s, b), NEW x \in Seq(Token),
         NEW e, Awaited("more", b, x, e, Inner(Len(s) + 1))
  PROVE  Traced(At(Append(s, e), IF Last(Append(s, e)).kind = "array" THEN "value" ELSE "name"),
                x \o <<Comma>>)
  <1> DEFINE inner == Inner(Len(s) + 1)
             a == Append(s, e)
             w == IF Last(a).kind = "array" THEN "value" ELSE "name"
             y == x \o <<Comma>>
  <1>1. HasItems(b, x, e, inner) \/ HasFields(b, x, e, inner)
    BY AwaitedCases, Zenon
  <1> HIDE DEF inner
  <1>2. CASE HasItems(b, x, e, inner)
    <2>1. PICK xs \in Seq(Items(inner)) :
            xs # <<>> /\ e = OpenList(ItemsIn(xs)) /\ x = Partly(b, LeftBracket, xs)
      BY <1>2, Zenon DEF HasItems
    <2>2. Last(a).kind = "array"
      BY <2>1, ClosedOpen, Zenon
    <2>3. y = GoesOn(b, LeftBracket, xs)
      BY <2>1, Zenon DEF GoesOn
    <2>4. AwaitsItem(b, y, e, inner)
      BY <2>1, <2>3, Zenon DEF AwaitsItem
    <2> HIDE DEF y, a
    <2>5. Awaited("value", b, y, e, inner) /\ "value" \in Waiting
      BY <2>4, AwaitedCases, Zenon DEF AwaitsValue
    <2>6. Traced(At(a, "value"), y)
      BY <2>5, Zenon DEF Traced, inner, a
    <2>7. w = "value"
      BY <2>2, Zenon
    <2> HIDE DEF w
    <2> QED
      BY <2>6, <2>7, Zenon DEF y, a, w
  <1>3. CASE HasFields(b, x, e, inner)
    <2>1. PICK xs \in Seq(NamedItems(inner)) :
            xs # <<>> /\ x = Partly(b, LeftBrace, xs) /\ \E n : e = OpenFields(Fields(xs), n)
      BY <1>3, Zenon DEF HasFields
    <2>2. Last(a).kind # "array"
      BY <2>1, ClosedOpen, Zenon
    <2>3. y = GoesOn(b, LeftBrace, xs)
      BY <2>1, Zenon DEF GoesOn
    <2>4. AwaitsName(b, y, e, inner)
      BY <2>1, <2>3, Zenon DEF AwaitsName
    <2> HIDE DEF y, a
    <2>5. Awaited("name", b, y, e, inner) /\ "name" \in Waiting
      BY <2>4, AwaitedCases, Zenon
    <2>6. Traced(At(a, "name"), y)
      BY <2>5, Zenon DEF Traced, inner, a
    <2>7. w = "name"
      BY <2>2, Zenon
    <2> HIDE DEF w
    <2> QED
      BY <2>6, <2>7, Zenon DEF y, a, w
  <1> QED
    BY <1>1, <1>2, <1>3

\* A token after the whole is refused.
LEMMA WholeRefuses ==
  ASSUME NEW v, NEW t, NEW levels
  PROVE  Consume(Whole(v), t, levels) = Refusal
  <1> DEFINE p == Whole(v)
  <1>1. p.want = "end"
    BY Zenon DEF Whole
  <1>2. Consume(p, t, levels) = Within(p, t)
    BY <1>1, Zenon DEF Consume
  <1>3. ~Shuts(p, t) /\ ~Names(p, t) /\ p.want # "colon" /\ p.want # "more"
    BY <1>1, Zenon DEF Shuts, Names
  <1> HIDE DEF p
  <1>4. Within(p, t) = Refusal
    BY <1>3, WithinCases, Zenon
  <1> QED
    BY <1>2, <1>4, Zenon DEF p

\* A token that does not start a value goes to what is open.
LEMMA WithinTraced ==
  ASSUME NEW s, Sequence(s), Len(s) + 1 <= MaxDepth, NEW b, Nested(s, b), NEW x \in Seq(Token),
         NEW e, NEW w, Awaited(w, b, x, e, Inner(Len(s) + 1)), Len(x) + 1 <= MaxTokens,
         NEW t \in Tokens
  PROVE  Traced(Within(At(Append(s, e), w), t), x \o <<t>>)
  <1> DEFINE a == Append(s, e)
             p == At(a, w)
             y == x \o <<t>>
  <1>1. p.want = w /\ p.stack = a
    BY Zenon DEF At
  <1>2. t \in Token
    BY TokensAssumption
  <1>3. CASE Shuts(p, t) /\ Within(p, t) = Closed(p.stack)
    <2>1. Traced(Closed(a), y)
      BY <1>2, <1>3, EndTraced, Zenon
    <2> QED
      BY <1>1, <1>3, <2>1, Zenon
  <1>4. CASE /\ Names(p, t)
             /\ Within(p, t) = At(Append(Front(p.stack), [Last(p.stack) EXCEPT !.name = t.chars]), "colon")
    <2>1. Traced(At(Append(Front(a), [Last(a) EXCEPT !.name = t.chars]), "colon"), y)
      BY <1>4, NameTraced, Zenon
    <2> QED
      BY <1>1, <1>4, <2>1, Zenon
  <1>5. CASE p.want = "colon" /\ t.kind = ":" /\ Within(p, t) = At(p.stack, "value")
    <2>1. t = Colon
      BY <1>2, <1>5, MarkToken, Zenon DEF Colon
    <2>2. Awaited("colon", b, x, e, Inner(Len(s) + 1))
      BY <1>1, <1>5, Zenon
    <2>3. Traced(At(a, "value"), x \o <<Colon>>)
      BY <2>2, ColonTraced, Zenon
    <2> QED
      BY <1>1, <1>5, <2>1, <2>3, Zenon
  <1>6. CASE /\ p.want = "more" /\ t.kind = ","
             /\ Within(p, t) = At(p.stack, IF Last(p.stack).kind = "array" THEN "value" ELSE "name")
    <2>1. t = Comma
      BY <1>2, <1>6, MarkToken, Zenon DEF Comma
    <2>2. Awaited("more", b, x, e, Inner(Len(s) + 1))
      BY <1>1, <1>6, Zenon
    <2>3. Traced(At(a, IF Last(a).kind = "array" THEN "value" ELSE "name"), x \o <<Comma>>)
      BY <2>2, CommaTraced, Zenon
    <2>4. Within(p, t) = At(a, IF Last(a).kind = "array" THEN "value" ELSE "name")
      BY <1>1, <1>6, Zenon
    <2> QED
      BY <2>1, <2>3, <2>4, Zenon
  <1>7. CASE Within(p, t) = Refusal
    BY <1>7, Zenon DEF Traced
  <1> QED
    BY <1>3, <1>4, <1>5, <1>6, <1>7, WithinCases, Zenon

\* At the start there is only a value.
LEMMA StartTraced ==
  ASSUME NEW t \in Tokens
  PROVE  Traced(Consume(Start, t, MaxDepth), <<>> \o <<t>>)
  <1> DEFINE p == Start
  <1>1. p.want = "value" /\ p.stack = <<>> /\ Start = At(<<>>, "value")
    BY Zenon DEF Start, At
  <1>2. CASE StartsValue(t)
    <2>1. Sequence(<<>>) /\ Len(<<>>) <= MaxDepth
      BY EmptyBounded, BoundsAssumption
    <2>2. "value" \in Expecting
      BY Zenon DEF Expecting
    <2>3. Traced(Consume(At(<<>>, "value"), t, MaxDepth), <<>> \o <<t>>)
      BY <1>2, <2>1, <2>2, NothingNested, ExpectedTraced, Zenon
    <2> QED
      BY <1>1, <2>3, Zenon
  <1>3. CASE ~StartsValue(t)
    <2>1. Consume(p, t, MaxDepth) = Within(p, t)
      BY <1>3, Zenon DEF Consume
    <2>2. ~Shuts(p, t) /\ ~Names(p, t) /\ p.want # "colon" /\ p.want # "more"
      BY <1>1, Zenon DEF Shuts, Names
    <2> HIDE DEF p
    <2>3. Within(p, t) = Refusal
      BY <2>2, WithinCases, Zenon
    <2> QED
      BY <2>1, <2>3, Zenon DEF Traced, p
  <1> QED
    BY <1>2, <1>3

\* A token makes of a beginning a longer one, or is refused.
LEMMA ConsumeTraced ==
  ASSUME NEW p, NEW text \in Seq(Token), Traced(p, text), Len(text) + 1 <= MaxTokens,
         NEW t \in Tokens
  PROVE  Traced(Consume(p, t, MaxDepth), text \o <<t>>)
  <1> DEFINE y == text \o <<t>>
             q == Consume(p, t, MaxDepth)
  <1>1. CASE p = Refusal
    <2>1. q = Refusal
      BY <1>1, RefusalStays, Zenon
    <2> QED
      BY <2>1, Zenon DEF Traced
  <1>2. CASE \E v : p = Whole(v) /\ [text |-> text, value |-> v] \in Texts
    <2>1. PICK v : p = Whole(v)
      BY <1>2, Zenon
    <2>2. q = Refusal
      BY <2>1, WholeRefuses, Zenon
    <2> QED
      BY <2>2, Zenon DEF Traced
  <1>3. CASE p = Start /\ text = <<>>
    BY <1>3, StartTraced, Zenon
  <1>4. CASE \E s, e, w, b :
               /\ p = At(Append(s, e), w) /\ w \in Waiting
               /\ Sequence(s) /\ Len(s) + 1 <= MaxDepth
               /\ Nested(s, b) /\ Awaited(w, b, text, e, Inner(Len(s) + 1))
    <2>1. PICK s, e, w, b :
            /\ p = At(Append(s, e), w) /\ w \in Waiting
            /\ Sequence(s) /\ Len(s) + 1 <= MaxDepth
            /\ Nested(s, b) /\ Awaited(w, b, text, e, Inner(Len(s) + 1))
      BY <1>4, Zenon
    <2> DEFINE r == At(Append(s, e), w)
    <2>2. r.want = w
      BY Zenon DEF At
    <2>3. CASE w \in Expecting /\ StartsValue(t)
      <3>1. Traced(Consume(r, t, MaxDepth), y)
        BY <2>1, <2>3, BeginTraced, Zenon
      <3> QED
        BY <2>1, <3>1, Zenon
    <2>4. CASE ~(w \in Expecting /\ StartsValue(t))
      <3>1. Traced(Within(r, t), y)
        BY <2>1, WithinTraced, Zenon
      <3>2. Consume(r, t, MaxDepth) = Within(r, t)
        BY <2>2, <2>4, Zenon DEF Consume, Expecting
      <3> QED
        BY <2>1, <3>1, <3>2, Zenon
    <2> QED
      BY <2>3, <2>4, Zenon
  <1> QED
    BY <1>1, <1>2, <1>3, <1>4, Zenon DEF Traced

LEMMA ReadGrows ==
  ASSUME NEW text \in Seq(Token), NEW t \in Token, NEW levels
  PROVE  /\ Read(text \o <<t>>, levels) = Consume(Read(text, levels), t, levels)
         /\ text \o <<t>> \in Seq(Token) /\ Append(text, t) = text \o <<t>>
         /\ Len(text \o <<t>>) = Len(text) + 1 /\ Len(text) \in Nat
  <1> DEFINE p == Read(text, levels)
             q == Consume(p, t, levels)
             u == <<t>>
             y == text \o u
  <1>1. Leads(Start, text, p, levels)
    BY ReadLeads
  <1>2. Leads(p, u, q, levels)
    BY LeadsByToken, Zenon
  <1>3. u \in Seq(Token) /\ Len(u) = 1
    OBVIOUS
  <1> HIDE DEF p, q
  <1>4. Append(text, t) = y
    BY AppendIsConcat
  <1> HIDE DEF u
  <1>5. Leads(Start, y, q, levels)
    BY <1>1, <1>2, <1>3, LeadsOn
  <1>6. y \in Seq(Token) /\ Len(y) = Len(text) + 1 /\ Len(text) \in Nat
    BY <1>3, ConcatProperties, LenProperties
  <1> HIDE DEF y
  <1>7. Read(y, levels) = q
    BY <1>5, <1>6, LeadsReads
  <1> QED
    BY <1>4, <1>6, <1>7, Zenon DEF y, u, q, p

LEMMA NothingRead ==
  ASSUME NEW levels
  PROVE  Read(<<>>, levels) = Start
  <1>1. <<>> \in Seq(Token) /\ Len(<<>>) = 0
    OBVIOUS
  <1>2. PICK g : /\ g[0] = Start
                 /\ Read(<<>>, levels) = g[Len(<<>>)]
    BY <1>1, ReadSteps
  <1> QED
    BY <1>1, <1>2

\* Wherever the parser is after a text, the text is a beginning of one of the
\* grammar's, unless it was refused.
LEMMA ReadTraced ==
  \A text \in Seq(Tokens) :
    Len(text) <= MaxTokens => text \in Seq(Token) /\ Traced(Read(text, MaxDepth), text)
  <1> DEFINE T == {text \in Seq(Tokens) :
                     Len(text) <= MaxTokens => text \in Seq(Token) /\ Traced(Read(text, MaxDepth), text)}
  <1>1. <<>> \in T
    <2>1. Read(<<>>, MaxDepth) = Start
      BY NothingRead, Zenon
    <2>2. Traced(Read(<<>>, MaxDepth), <<>>)
      BY <2>1, Zenon DEF Traced
    <2>3. <<>> \in Seq(Tokens) /\ <<>> \in Seq(Token)
      BY NothingTyped, Zenon
    <2> QED
      BY <2>2, <2>3
  <1>2. ASSUME NEW s \in Seq(Tokens), NEW t \in Tokens, s \in T
        PROVE  Append(s, t) \in T
    <2> DEFINE y == Append(s, t)
    <2>1. /\ y \in Seq(Tokens) /\ Len(y) = Len(s) + 1 /\ Len(s) \in Nat
          /\ s \in Seq(Token) /\ t \in Token
      BY TokensAssumption, AppendProperties, LenProperties, SeqMonotonic
    <2>2. ASSUME Len(y) <= MaxTokens PROVE y \in Seq(Token) /\ Traced(Read(y, MaxDepth), y)
      <3>1. Len(s) + 1 <= MaxTokens /\ Len(s) <= MaxTokens
        BY <2>1, <2>2, BoundsAssumption
      <3>2. Traced(Read(s, MaxDepth), s)
        BY <1>2, <3>1
      <3>3. Traced(Consume(Read(s, MaxDepth), t, MaxDepth), s \o <<t>>)
        BY <2>1, <3>1, <3>2, ConsumeTraced, Zenon
      <3>4. /\ Read(s \o <<t>>, MaxDepth) = Consume(Read(s, MaxDepth), t, MaxDepth)
            /\ s \o <<t>> \in Seq(Token) /\ y = s \o <<t>>
        BY <2>1, ReadGrows, Zenon
      <3> HIDE DEF y
      <3> QED
        BY <3>3, <3>4, Zenon
    <2> QED
      BY <2>1, <2>2
  <1>3. \A s \in Seq(Tokens) : s \in T
    <2> HIDE DEF T
    <2> QED
      BY <1>1, <1>2, SequenceInduction
  <1> QED
    BY <1>3

LEMMA TracedEnds ==
  ASSUME NEW p, NEW text, Traced(p, text), p.want = "end"
  PROVE  p = Whole(p.value) /\ [text |-> text, value |-> p.value] \in Texts
  <1>1. p # Refusal /\ p # Start
    <2>1. Refusal.want = "nothing" /\ Start.want = "value"
      BY Zenon DEF Refusal, Start, At
    <2>2. "nothing" # "end" /\ "value" # "end"
      BY Zenon
    <2> QED
      BY <2>1, <2>2, Zenon
  <1>2. "end" \notin Waiting
    BY Zenon DEF Waiting
  <1>3. \A s, w : At(s, w).want = w
    BY Zenon DEF At
  <1>4. ASSUME NEW s, NEW e, NEW w, p = At(Append(s, e), w), w \in Waiting PROVE FALSE
    BY <1>2, <1>3, <1>4, Zenon
  <1>5. \E v : p = Whole(v) /\ [text |-> text, value |-> v] \in Texts
    BY <1>1, <1>4, Zenon DEF Traced
  <1>6. PICK v : p = Whole(v) /\ [text |-> text, value |-> v] \in Texts
    BY <1>5, Zenon
  <1>7. p.value = v
    <2>1. Whole(v).value = v
      BY Zenon DEF Whole
    <2> QED
      BY <1>6, <2>1, Zenon
  <1> QED
    BY <1>6, <1>7, Zenon

\* Of every text of typed tokens, within the bound on its length, the parser
\* takes exactly those the grammar has within MaxDepth levels, each for the one
\* value the grammar gives it, and it refuses none before it has gone wrong:
\* what it refuses is no beginning of a text (json.hpp, json::parse).
THEOREM ReadsTheGrammar ==
  ASSUME NEW text \in Seq(Tokens), Len(text) <= MaxTokens
  PROVE  /\ Readable(text, MaxDepth) <=> \E g \in Texts : g.text = text
         /\ \A g \in Texts : g.text = text => g.value = Parsed(text, MaxDepth)
         /\ Read(text, MaxDepth) = Refusal => text \notin Beginnings
  <1> DEFINE p == Read(text, MaxDepth)
  <1>1. Traced(p, text)
    BY ReadTraced
  <1>2. ASSUME NEW g \in Texts, g.text = text
        PROVE  Readable(text, MaxDepth) /\ g.value = Parsed(text, MaxDepth)
    <2>1. p = Whole(g.value)
      BY <1>2, GrammarIsRead
    <2>2. Whole(g.value).want = "end" /\ Whole(g.value).value = g.value
      BY Zenon DEF Whole
    <2> QED
      BY <2>1, <2>2, Zenon DEF Readable, Parsed
  <1>3. ASSUME Readable(text, MaxDepth) PROVE \E g \in Texts : g.text = text
    <2>1. p.want = "end"
      BY <1>3, Zenon DEF Readable
    <2> HIDE DEF p
    <2> DEFINE g == [text |-> text, value |-> p.value]
    <2>2. g \in Texts
      BY <1>1, <2>1, TracedEnds, Zenon
    <2>3. g.text = text
      OBVIOUS
    <2> HIDE DEF g
    <2> QED
      BY <2>2, <2>3
  <1>4. p = Refusal => text \notin Beginnings
    BY BeginningsAreRead
  <1> QED
    BY <1>2, <1>3, <1>4, Zenon

\* The inductive invariant: the parser of a put has read what was typed.
TypedIsRead ==
  call.op = "put" =>
    /\ call.typed \in Seq(Tokens) /\ Len(call.typed) <= MaxTokens
    /\ call.parser = Read(call.typed, MaxDepth)

LEMMA TypedKept ==
  ASSUME TypedIsRead, [Next]_vars
  PROVE  TypedIsRead'
  <1> USE BoundsAssumption
  <1>1. CASE BeginPut
    <2> DEFINE c == [op |-> "put", typed |-> <<>>, parser |-> Start]
    <2>1. call' = c
      BY <1>1 DEF BeginPut
    <2>2. c.typed = <<>> /\ c.parser = Start
      OBVIOUS
    <2> HIDE DEF c
    <2>3. Read(<<>>, MaxDepth) = Start
      BY NothingRead, Zenon
    <2>4. <<>> \in Seq(Tokens) /\ Len(<<>>) <= MaxTokens
      OBVIOUS
    <2>5. /\ call'.typed = <<>> /\ call'.parser = Read(<<>>, MaxDepth)
      BY <2>1, <2>2, <2>3, Zenon
    <2>6. /\ call'.typed \in Seq(Tokens) /\ Len(call'.typed) <= MaxTokens
          /\ call'.parser = Read(call'.typed, MaxDepth)
      BY <2>4, <2>5, Zenon
    <2> QED
      BY <2>6, Zenon DEF TypedIsRead
  <1>2. CASE Type
    <2>1. PICK t \in Tokens :
            call' = [op     |-> "put",
                     typed  |-> Append(call.typed, t),
                     parser |-> Consume(call.parser, t, MaxDepth)]
      BY <1>2 DEF Type
    <2> DEFINE s == call.typed
               y == Append(s, t)
    <2>2. s \in Seq(Tokens) /\ Len(s) < MaxTokens /\ call.parser = Read(s, MaxDepth)
      BY <1>2 DEF Type, TypedIsRead
    <2>3. call'.typed = y /\ call'.parser = Consume(call.parser, t, MaxDepth)
      BY <2>1
    <2> HIDE DEF s
    <2>4. /\ y \in Seq(Tokens) /\ Len(y) <= MaxTokens /\ s \in Seq(Token) /\ t \in Token
      BY <2>2, TokensAssumption, AppendProperties, LenProperties, SeqMonotonic
    <2>5. y = s \o <<t>> /\ Read(s \o <<t>>, MaxDepth) = Consume(Read(s, MaxDepth), t, MaxDepth)
      BY <2>4, ReadGrows, Zenon
    <2> HIDE DEF y
    <2>6. /\ call'.typed \in Seq(Tokens) /\ Len(call'.typed) <= MaxTokens
          /\ call'.parser = Read(call'.typed, MaxDepth)
      BY <2>2, <2>3, <2>4, <2>5, Zenon
    <2> QED
      BY <2>6, Zenon DEF TypedIsRead
  <1>3. ASSUME call' = Idle PROVE TypedIsRead'
    BY <1>3 DEF TypedIsRead, Idle
  <1>4. ASSUME UNCHANGED call PROVE TypedIsRead'
    BY <1>4 DEF TypedIsRead
  <1>5. CASE InvalidRequest
    BY <1>3, <1>5 DEF InvalidRequest, Answers
  <1>6. CASE \E k \in PutKeys : Put(k)
    BY <1>3, <1>6 DEF Put, Answers
  <1>7. CASE \E k \in DOMAIN rows : Get(k)
    BY <1>3, <1>7 DEF Get, Answers
  <1>8. CASE \E q \in Queries : Query(q)
    <2>1. call' = Idle
      BY <1>8, Zenon DEF Query, Answers
    <2> QED
      BY <1>3, <2>1
  <1>9. CASE \E c \in Counts : Search(c)
    <2>1. call' = Idle
      BY <1>9, Zenon DEF Search, Answers
    <2> QED
      BY <1>3, <2>1
  <1>10. CASE Return
    BY <1>4, <1>10 DEF Return
  <1>11. CASE UNCHANGED vars
    BY <1>4, <1>11 DEF vars
  <1> QED
    BY <1>1, <1>2, <1>5, <1>6, <1>7, <1>8, <1>9, <1>10, <1>11 DEF Next

\* Whatever is typed, token by token, the parser ends with a value only on a
\* text of the grammar, and with the value the grammar gives it, and it refuses
\* only what no text begins with (json.hpp, Parser::parseValue, parseObject and
\* parseArray).
THEOREM ParserIsExact == Spec => []ParserExact
  <1>1. Init => TypedIsRead
    BY DEF Init, TypedIsRead, Idle
  <1>2. TypedIsRead /\ [Next]_vars => TypedIsRead'
    BY TypedKept
  <1>3. TypedIsRead => ParserExact
    <2>1. SUFFICES ASSUME TypedIsRead, call.op = "put"
                   PROVE  /\ call.parser.want = "end" =>
                               [text |-> call.typed, value |-> call.parser.value] \in Texts
                          /\ call.parser = Refusal => call.typed \notin Beginnings
      BY Zenon DEF ParserExact
    <2>2. /\ call.typed \in Seq(Tokens) /\ Len(call.typed) <= MaxTokens
          /\ call.parser = Read(call.typed, MaxDepth)
      BY <2>1, Zenon DEF TypedIsRead
    <2>3. Traced(call.parser, call.typed)
      <3>1. Traced(Read(call.typed, MaxDepth), call.typed)
        BY <2>2, ReadTraced, Zenon
      <3> QED
        BY <2>2, <3>1, Zenon
    <2>4. call.parser = Refusal => call.typed \notin Beginnings
      BY <2>2, ReadsTheGrammar, Zenon
    <2> QED
      BY <2>3, <2>4, TracedEnds, Zenon
  <1> QED
    BY <1>1, <1>2, <1>3, PTL DEF Spec

=============================================================================
