--------------------------- MODULE VectorsProofs ----------------------------
(***************************************************************************)
(* The invariants of Vectors, for every number of handles, indexes, keys   *)
(* and tables: what a search compares with is of its own embedding and no  *)
(* call reaches another index, while calls that overlap are on one index   *)
(* and none is a reindex; and what an answer promises.                     *)
(***************************************************************************)
EXTENDS VectorsInvariant, FiniteSetTheorems, SequenceTheorems, NaturalsInduction,
        WellFoundedInduction, TLAPS

----------------------------------------------------------------------------
(* Numbers *)

\* A set of numbers with a bound has a largest one.
LEMMA Largest ==
  ASSUME NEW S, S \subseteq Nat, S # {}, NEW b \in Nat, \A n \in S : n <= b
  PROVE  \E n \in S : \A m \in S : m <= n
<1> DEFINE T == {b - n : n \in S}
<1>1. \A n \in S : n \in Nat /\ b - n \in Nat /\ b - n \in T
  OBVIOUS
<1>2. \A x \in T : x \in Nat /\ \E n \in S : x = b - n
  BY <1>1
<1>3. T \subseteq Nat /\ T # {}
  BY <1>1, <1>2
<1> HIDE DEF T
<1>4. PICK x \in T : \A y \in T : ~(<<y, x>> \in OpToRel(<, Nat))
  BY <1>3, NatLessThanWellFounded, WFMin
<1>5. \A y \in T : ~(y < x)
  BY <1>3, <1>4 DEF OpToRel
<1>6. PICK n \in S : x = b - n
  BY <1>2
<1>7. \A m \in S : m <= n
  BY <1>1, <1>2, <1>5, <1>6
<1> QED
  BY <1>7

MetaTyped == meta \in [Indexes -> Metas \cup {None}]

\* NextRowid is one more than the largest rowid, or 1.
RowidsBelow ==
  /\ NextRowid \in 1 .. MaxTables + 1
  /\ \A i \in Recorded : meta[i] \in Metas /\ meta[i].rowid \in 1 .. MaxTables
                         /\ meta[i].rowid < NextRowid
  /\ NextRowid = 1 \/ \E i \in Recorded : meta[i].rowid = NextRowid - 1

LEMMA NextRowidIs == MetaTyped => RowidsBelow
<1> SUFFICES ASSUME MetaTyped PROVE RowidsBelow
  OBVIOUS
<1> DEFINE P(n) == /\ \A i \in Recorded : meta[i].rowid < n
                   /\ n = 1 \/ \E i \in Recorded : meta[i].rowid = n - 1
           R == {meta[i].rowid : i \in Recorded}
<1>1. \A i \in Recorded : meta[i] \in Metas /\ meta[i].rowid \in 1 .. MaxTables
  BY DEF MetaTyped, Recorded, Metas
<1>2. MaxTables \in Nat
  BY VectorsAssumption
<1>3. \E n \in 1 .. MaxTables + 1 : P(n)
  <2>1. CASE Recorded = {}
    BY <1>2, <2>1
  <2>2. CASE Recorded # {}
    <3>1. R \subseteq Nat /\ R # {} /\ \A n \in R : n <= MaxTables
      BY <1>1, <1>2, <2>2
    <3>2. PICK n \in R : \A m \in R : m <= n
      <4> HIDE DEF R
      <4> QED
        BY <3>1, <1>2, Largest
    <3>3. PICK i \in Recorded : meta[i].rowid = n
      BY <3>2
    <3>4. n + 1 \in 1 .. MaxTables + 1 /\ n \in Nat
      BY <1>1, <1>2, <3>3
    <3>5. P(n + 1)
      <4>1. \A j \in Recorded : meta[j].rowid <= n /\ meta[j].rowid \in Nat
        BY <1>1, <1>2, <3>2
      <4>2. meta[i].rowid = (n + 1) - 1
        BY <3>3, <3>4
      <4> QED
        BY <4>1, <4>2, <3>3, <3>4
    <3> QED
      BY <3>4, <3>5
  <2> QED
    BY <2>1, <2>2
<1>4. NextRowid = CHOOSE n \in 1 .. MaxTables + 1 : P(n)
  BY DEF NextRowid
<1> HIDE DEF P
<1>5. NextRowid \in 1 .. MaxTables + 1 /\ P(NextRowid)
  BY <1>3, <1>4
<1> QED
  BY <1>1, <1>5 DEF P, RowidsBelow

LEMMA NextRowidIsNext == MetaTyped' => RowidsBelow'
BY NextRowidIs, PTL

\* It grows by one when an index is recorded with it, and else it does not.
LEMMA NextRowidSteps ==
  ASSUME MetaTyped, MetaTyped'
  PROVE  /\ (\A i \in Indexes : meta'[i] \in {meta[i], None}) => NextRowid' <= NextRowid
         /\ (\A i \in Indexes : meta'[i] \in {meta[i], None} \/ meta'[i].rowid = NextRowid)
               => NextRowid' <= NextRowid + 1
         /\ NextRowid \in Nat /\ NextRowid' \in Nat
<1>1. RowidsBelow /\ RowidsBelow'
  BY NextRowidIs, NextRowidIsNext
<1>2. NextRowid \in Nat \ {0} /\ NextRowid' \in Nat \ {0}
  BY <1>1, VectorsAssumption DEF RowidsBelow
<1>3. ASSUME NextRowid' # 1
      PROVE  \E i \in Indexes : meta'[i] # None /\ meta'[i].rowid = NextRowid' - 1
  BY <1>1, <1>3 DEF RowidsBelow, Recorded
<1>4. \A i \in Indexes : meta[i] # None => meta[i].rowid \in Nat /\ meta[i].rowid < NextRowid
  BY <1>1, VectorsAssumption DEF RowidsBelow, Recorded
<1>5. ASSUME \A i \in Indexes : meta'[i] \in {meta[i], None}
      PROVE  NextRowid' <= NextRowid
  BY <1>2, <1>3, <1>4, <1>5
<1>6. ASSUME \A i \in Indexes : meta'[i] \in {meta[i], None} \/ meta'[i].rowid = NextRowid
      PROVE  NextRowid' <= NextRowid + 1
  BY <1>2, <1>3, <1>4, <1>6
<1> QED
  BY <1>2, <1>5, <1>6

----------------------------------------------------------------------------
(* Calls as values *)

WriteSteps == Creating \cup {"create"} \cup Writing
DeleteSteps == {"delete_vector", "delete_payload"}
SearchSteps == {"count", "match", "payloads"}

\* d is c at another step, with the same locals but for the table and the
\* vectors still to write.
SameWrite(c, d) ==
  /\ d \in WriteCalls
  /\ d.op = c.op /\ d.index = c.index /\ d.embedding = c.embedding
  /\ d.found = c.found /\ d.batch = c.batch /\ d.alone = c.alone

\* A vector to write and an index are no None.
LEMMA Nothing ==
  /\ None \notin Values /\ None \notin Metas /\ None \notin Stored /\ None \notin Tables
  /\ \A k \in Keys : NoRows[k] = None
BY NoneAssumption DEF NoRows

LEMMA CallKinds ==
  ASSUME NEW c \in Calls
  PROVE  /\ c.at \in {"idle"} \cup WriteSteps \cup DeleteSteps \cup SearchSteps
         /\ c.at = "idle" => c \in Idle
         /\ c.at \in WriteSteps => c \in WriteCalls
         /\ c.at \in DeleteSteps => c \in DeleteCalls
         /\ c.at \in SearchSteps => c \in SearchCalls
         /\ c \in Idle => c.at = "idle"
BY DEF Calls, Idle, WriteCalls, DeleteCalls, SearchCalls, WriteSteps, DeleteSteps,
       SearchSteps, Creating, Dropping, Writing

LEMMA CallFields ==
  /\ \A c \in WriteCalls :
       /\ c.at \in WriteSteps /\ c.op \in {"upsert", "reindex"} /\ c.index \in Indexes
       /\ c.embedding \in Embeddings /\ c.found \in Metas \cup {None}
       /\ c.table \in 0 .. MaxTables /\ c.batch \in Batches /\ c.todo \in Batches
       /\ c.alone \in BOOLEAN
  /\ \A c \in DeleteCalls :
       /\ c.at \in DeleteSteps /\ c.op = "delete" /\ c.index \in Indexes /\ c.key \in Keys
       /\ c.table \in 0 .. MaxTables /\ c.alone \in BOOLEAN
  /\ \A c \in SearchCalls :
       /\ c.at \in SearchSteps /\ c.op = "search" /\ c.index \in Indexes
       /\ c.embedding \in Embeddings /\ c.table \in 1 .. MaxTables
       /\ c.hits \in [Keys -> Stored \cup {None}] /\ c.alone \in BOOLEAN
  /\ \A a \in Answers : Answered(a) \in Idle /\ Answered(a).at = "idle"
BY DEF Idle, Answered, WriteCalls, DeleteCalls, SearchCalls, WriteSteps, DeleteSteps,
       SearchSteps, Creating, Dropping, Writing

\* A list of vectors, its first one and the rest.
LEMMA BatchShape ==
  /\ \A b \in Batches : /\ b \in Seq(Vecs) /\ Len(b) \in 0 .. MaxBatch
                        /\ DOMAIN b = 1 .. Len(b)
  /\ \A b \in Batches : b # <<>> =>
       /\ Head(b) \in Vecs /\ Head(b) = b[1] /\ Tail(b) \in Batches
       /\ Len(b) > 0 /\ Len(Tail(b)) = Len(b) - 1
       /\ \A n \in 1 .. Len(b) - 1 : Tail(b)[n] = b[n + 1]
  /\ \A v \in Vecs : <<v>> \in Batches /\ Len(<<v>>) = 1 /\ <<v>>[1] = v
<1>1. ASSUME NEW b \in Batches
      PROVE  b \in Seq(Vecs) /\ Len(b) \in 0 .. MaxBatch /\ DOMAIN b = 1 .. Len(b)
  <2>1. PICK n \in 0 .. MaxBatch : b \in [1 .. n -> Vecs]
    BY DEF Batches
  <2>2. n \in Nat
    BY VectorsAssumption
  <2>3. b \in Seq(Vecs)
    BY <2>1, <2>2, SeqDef
  <2>4. Len(b) = n
    BY <2>1, <2>2, <2>3
  <2> QED
    BY <2>1, <2>3, <2>4
<1>2. ASSUME NEW b \in Seq(Vecs), Len(b) \in 0 .. MaxBatch PROVE b \in Batches
  <2>1. b \in [1 .. Len(b) -> Vecs]
    OBVIOUS
  <2> QED
    BY <1>2, <2>1 DEF Batches
<1>3. ASSUME NEW b \in Batches, b # <<>>
      PROVE  /\ Head(b) \in Vecs /\ Head(b) = b[1] /\ Tail(b) \in Batches
             /\ Len(b) > 0 /\ Len(Tail(b)) = Len(b) - 1
             /\ \A n \in 1 .. Len(b) - 1 : Tail(b)[n] = b[n + 1]
  <2>1. b \in Seq(Vecs) /\ Len(b) \in 0 .. MaxBatch /\ MaxBatch \in Nat
    BY <1>1, VectorsAssumption
  <2>2. /\ Head(b) \in Vecs /\ Head(b) = b[1] /\ Len(b) > 0
        /\ Tail(b) \in Seq(Vecs) /\ Len(Tail(b)) = Len(b) - 1
        /\ \A n \in 1 .. Len(b) - 1 : Tail(b)[n] = b[n + 1]
    BY <2>1, <1>3
  <2>3. Len(Tail(b)) \in 0 .. MaxBatch
    BY <2>1, <2>2
  <2>4. Tail(b) \in Batches
    BY <2>2, <2>3, <1>2
  <2> QED
    BY <2>2, <2>4
<1>4. ASSUME NEW v \in Vecs PROVE <<v>> \in Batches /\ Len(<<v>>) = 1 /\ <<v>>[1] = v
  <2>1. <<v>> \in Seq(Vecs) /\ Len(<<v>>) = 1 /\ <<v>>[1] = v
    OBVIOUS
  <2>2. Len(<<v>>) \in 0 .. MaxBatch
    BY <2>1, VectorsAssumption
  <2>3. <<v>> \in Batches
    BY <2>1, <2>2, <1>2
  <2> QED
    BY <2>1, <2>3
<1> QED
  BY <1>1, <1>3, <1>4

\* The steps of a call that writes.
LEMMA WriteMoves ==
  ASSUME NEW c \in WriteCalls
  PROVE  /\ \A s \in WriteSteps :
              LET d == [c EXCEPT !.at = s]
              IN  SameWrite(c, d) /\ d.at = s /\ d.table = c.table /\ d.todo = c.todo
         /\ \A n \in 0 .. MaxTables :
              LET d == [c EXCEPT !.at = "record", !.table = n]
              IN  SameWrite(c, d) /\ d.at = "record" /\ d.table = n /\ d.todo = c.todo
         /\ \A t \in Batches :
              LET d == [c EXCEPT !.todo = t]
              IN  SameWrite(c, d) /\ d.at = c.at /\ d.table = c.table /\ d.todo = t
BY DEF WriteCalls, SameWrite, WriteSteps, Creating, Dropping, Writing

LEMMA WriteNextIs ==
  ASSUME NEW c
  PROVE  \/ WriteNext(c) = Answered("ok") /\ c.todo = <<>>
         \/ WriteNext(c) = Answered("mismatch")
         \/ /\ WriteNext(c) = [c EXCEPT !.at = "unkey"]
            /\ c.todo # <<>> /\ Head(c.todo).length = c.embedding.dimension
BY DEF WriteNext

\* A call whose read found m in _index_meta.
LEMMA EnteredIs ==
  ASSUME NEW h \in Handles, NEW op \in {"upsert", "reindex"}, NEW i \in Indexes,
         NEW m \in Metas \cup {None}, NEW e \in Embeddings, NEW b \in Batches
  PROVE  LET c == Entered(h, op, i, m, e, b)
         IN  /\ c \in WriteCalls /\ c.at = "allocate" /\ c.op = op /\ c.index = i
             /\ c.embedding = e /\ c.found = m /\ c.batch = b /\ c.todo = b
             /\ c.table = (IF m = None THEN 0 ELSE m.table)
             /\ c.alone = (Others(h) = {})
<1>1. (IF m = None THEN 0 ELSE m.table) \in 0 .. MaxTables
  BY VectorsAssumption DEF Metas
<1>2. (Others(h) = {}) \in BOOLEAN
  OBVIOUS
<1> QED
  BY <1>1, <1>2 DEF Entered, WriteCalls

\* A call that is alone no longer is the same call.
LEMMA NotAlone ==
  ASSUME NEW c \in Calls, c.at # "idle"
  PROVE  LET d == [c EXCEPT !.alone = FALSE]
         IN  /\ d \in Calls /\ d.at = c.at /\ d.op = c.op /\ d.index = c.index
             /\ d.table = c.table
             /\ c.at \in WriteSteps => /\ d.embedding = c.embedding /\ d.found = c.found
                                       /\ d.batch = c.batch /\ d.todo = c.todo
             /\ c.at \in DeleteSteps => d.key = c.key
             /\ c.at \in SearchSteps => d.embedding = c.embedding /\ d.hits = c.hits
             /\ d.alone = FALSE
<1>1. CASE c \in WriteCalls
  BY <1>1 DEF Calls, WriteCalls, WriteSteps, DeleteSteps, SearchSteps, Creating, Dropping, Writing
<1>2. CASE c \in DeleteCalls
  BY <1>2 DEF Calls, DeleteCalls, WriteSteps, DeleteSteps, SearchSteps, Creating, Dropping, Writing
<1>3. CASE c \in SearchCalls
  BY <1>3 DEF Calls, SearchCalls, WriteSteps, DeleteSteps, SearchSteps, Creating, Dropping, Writing
<1> QED
  BY <1>1, <1>2, <1>3 DEF Calls, Idle

----------------------------------------------------------------------------
(* What a step makes of the calls *)

\* Only the call of h changes.
OthersStay(h) ==
  /\ call' \in [Handles -> Calls]
  /\ \A g \in Handles \ {h} : call'[g] = call[g]

LEMMA CallTyped ==
  ASSUME TypeOK
  PROVE  /\ call \in [Handles -> Calls]
         /\ \A h \in Handles : call[h] \in Calls /\ (Ready(h) <=> call[h].at = "idle")
BY DEF TypeOK, Calls, Ready

LEMMA GoToEffect ==
  ASSUME TypeOK, NEW h \in Handles, call[h].at \in WriteSteps, NEW s \in WriteSteps, GoTo(h, s)
  PROVE  /\ call[h] \in WriteCalls /\ SameWrite(call[h], call'[h]) /\ call'[h].at = s
         /\ call'[h].table = call[h].table /\ call'[h].todo = call[h].todo
         /\ OthersStay(h)
<1> DEFINE d == [call[h] EXCEPT !.at = s]
<1>1. call[h] \in WriteCalls /\ call \in [Handles -> Calls]
  BY CallTyped, CallKinds
<1>2. SameWrite(call[h], d) /\ d.at = s /\ d.table = call[h].table /\ d.todo = call[h].todo
  BY <1>1, WriteMoves
<1>3. call' = [call EXCEPT ![h] = d]
  BY DEF GoTo
<1> HIDE DEF d
<1>4. d \in Calls
  BY <1>2 DEF SameWrite, Calls
<1> QED
  BY <1>1, <1>2, <1>3, <1>4 DEF OthersStay

LEMMA AnswerEffect ==
  ASSUME TypeOK, NEW h \in Handles, NEW a \in Answers, Answer(h, a)
  PROVE  call'[h] = Answered(a) /\ call'[h].at = "idle" /\ OthersStay(h)
<1>1. call \in [Handles -> Calls] /\ Answered(a) \in Calls /\ Answered(a).at = "idle"
  BY CallTyped, CallFields DEF Calls
<1> QED
  BY <1>1 DEF Answer, OthersStay

LEMMA WriteNextEffect ==
  ASSUME TypeOK, NEW h \in Handles, NEW c \in WriteCalls,
         call' = [call EXCEPT ![h] = WriteNext(c)]
  PROVE  /\ OthersStay(h)
         /\ \/ call'[h] = Answered("ok") /\ c.todo = <<>> /\ call'[h].at = "idle"
            \/ call'[h] = Answered("mismatch") /\ call'[h].at = "idle"
            \/ /\ SameWrite(c, call'[h]) /\ call'[h].at = "unkey"
               /\ call'[h].table = c.table /\ call'[h].todo = c.todo
               /\ c.todo # <<>> /\ Head(c.todo).length = c.embedding.dimension
<1> DEFINE d == WriteNext(c)
           u == [c EXCEPT !.at = "unkey"]
<1>1. /\ Answered("ok") \in Idle /\ Answered("ok").at = "idle"
      /\ Answered("mismatch") \in Idle /\ Answered("mismatch").at = "idle"
  BY CallFields DEF Answers
<1>2. SameWrite(c, u) /\ u.at = "unkey" /\ u.table = c.table /\ u.todo = c.todo
  BY WriteMoves DEF WriteSteps, Writing
<1>3. \/ d = Answered("ok") /\ c.todo = <<>>
      \/ d = Answered("mismatch")
      \/ d = u /\ c.todo # <<>> /\ Head(c.todo).length = c.embedding.dimension
  BY WriteNextIs
<1> HIDE DEF d, u
<1>4. d \in Calls
  BY <1>1, <1>2, <1>3 DEF Calls, SameWrite
<1>5. call'[h] = d /\ OthersStay(h)
  BY <1>4, CallTyped DEF OthersStay, d
<1> QED
  BY <1>1, <1>2, <1>3, <1>5

----------------------------------------------------------------------------
(* Types *)

\* The calls that may create an index still fit.
LEMMA FitsKeeps ==
  ASSUME TypeOK, Fits, MetaTyped', NEW h \in Handles, OthersStay(h),
         \/ /\ call'[h].at \in Creating => call[h].at \in Creating
            /\ \A i \in Indexes : meta'[i] \in {meta[i], None}
         \/ /\ call[h].at \in Creating /\ call'[h].at \notin Creating
            /\ \A i \in Indexes : meta'[i] \in {meta[i], None} \/ meta'[i].rowid = NextRowid
  PROVE  Fits'
<1>1. /\ NextRowid \in Nat /\ NextRowid' \in Nat /\ MaxTables \in Nat
      /\ (\A i \in Indexes : meta'[i] \in {meta[i], None}) => NextRowid' <= NextRowid
      /\ (\A i \in Indexes : meta'[i] \in {meta[i], None} \/ meta'[i].rowid = NextRowid)
            => NextRowid' <= NextRowid + 1
  BY NextRowidSteps, VectorsAssumption DEF TypeOK, MetaTyped
<1>2. IsFiniteSet(Creators) /\ IsFiniteSet(Creators') /\ Creators \subseteq Handles
  BY VectorsAssumption, FS_Subset DEF Creators
<1>3. Cardinality(Creators) \in Nat /\ Cardinality(Creators') \in Nat
  BY <1>2, FS_CardinalityType
<1>4. CASE call'[h].at \in Creating => call[h].at \in Creating
  <2>1. Creators' \subseteq Creators
    BY <1>4 DEF Creators, OthersStay
  <2>2. Cardinality(Creators') <= Cardinality(Creators)
    BY <2>1, <1>2, FS_Subset
  <2>3. ASSUME \A i \in Indexes : meta'[i] \in {meta[i], None} PROVE Fits'
    BY <1>1, <1>3, <2>2, <2>3 DEF Fits
  <2>4. ASSUME call[h].at \in Creating, call'[h].at \notin Creating,
               \A i \in Indexes : meta'[i] \in {meta[i], None} \/ meta'[i].rowid = NextRowid
        PROVE  Fits'
    <3>1. Creators' \subseteq Creators \ {h} /\ h \in Creators
      BY <2>4 DEF Creators, OthersStay
    <3>2. /\ IsFiniteSet(Creators \ {h})
          /\ Cardinality(Creators \ {h}) = Cardinality(Creators) - 1
      BY <3>1, <1>2, FS_RemoveElement
    <3>3. Cardinality(Creators') <= Cardinality(Creators) - 1
      BY <3>1, <3>2, FS_Subset
    <3>4. NextRowid' <= NextRowid + 1
      BY <1>1, <2>4
    <3> QED
      BY <1>1, <1>3, <3>3, <3>4 DEF Fits
  <2> QED
    BY <2>3, <2>4
<1> QED
  BY <1>4

\* A call that may still create an index finds a table left for it.
LEMMA TableLeft ==
  ASSUME TypeOK, Fits, NEW h \in Handles, call[h].at \in Creating
  PROVE  NextRowid \in 1 .. MaxTables
<1>1. NextRowid \in 1 .. MaxTables + 1 /\ MaxTables \in Nat
  BY NextRowidIs, VectorsAssumption DEF TypeOK, MetaTyped, RowidsBelow
<1>2. IsFiniteSet(Creators) /\ h \in Creators
  BY VectorsAssumption, FS_Subset DEF Creators
<1>3. Cardinality(Creators) \in Nat /\ Cardinality(Creators) # 0
  BY <1>2, FS_CardinalityType, FS_EmptySet
<1> QED
  BY <1>1, <1>3 DEF Fits

\* A step of h keeps the types if what it changes has its type.
LEMMA TypedStep ==
  ASSUME TInv, NEW h \in Handles, OthersStay(h), Placed(call'[h]),
         MetaTyped', table' \in [1 .. MaxTables -> Tables \cup {None}],
         payload' \in [Indexes -> [Keys -> Values \cup {None}]],
         \/ /\ call'[h].at \in Creating => call[h].at \in Creating
            /\ \A i \in Indexes : meta'[i] \in {meta[i], None}
         \/ /\ call[h].at \in Creating /\ call'[h].at \notin Creating
            /\ \A i \in Indexes : meta'[i] \in {meta[i], None} \/ meta'[i].rowid = NextRowid
  PROVE  TInv'
<1>1. TypeOK'
  BY DEF TypeOK, MetaTyped, OthersStay, Calls
<1>2. Fits'
  BY FitsKeeps DEF TInv
<1>3. \A g \in Handles : Placed(call'[g])
  BY DEF TInv, OthersStay
<1> QED
  BY <1>1, <1>2, <1>3 DEF TInv, Placed

\* A row of a vec0 table is written or deleted.
PutRow(T, n, k, r) == [T EXCEPT ![n].rows[k] = r]

\* U is T with r as the row of key k in table n.
WithRow(T, U, n, k, r) ==
  /\ U \in [1 .. MaxTables -> Tables \cup {None}]
  /\ \A m \in 1 .. MaxTables \ {n} : U[m] = T[m]
  /\ U[n] \in Tables /\ U[n].dimension = T[n].dimension
  /\ U[n].rows[k] = r /\ \A j \in Keys \ {k} : U[n].rows[j] = T[n].rows[j]

LEMMA RowPut ==
  ASSUME NEW T \in [1 .. MaxTables -> Tables \cup {None}], NEW n \in 1 .. MaxTables,
         T[n] # None, NEW k \in Keys, NEW r \in Stored \cup {None}
  PROVE  WithRow(T, PutRow(T, n, k, r), n, k, r)
<1> DEFINE rows == [T[n].rows EXCEPT ![k] = r]
           t == [T[n] EXCEPT !.rows = rows]
<1>1. T[n] \in Tables /\ T[n].rows \in [Keys -> Stored \cup {None}]
  BY DEF Tables
<1>2. /\ rows \in [Keys -> Stored \cup {None}] /\ rows[k] = r
      /\ \A j \in Keys \ {k} : rows[j] = T[n].rows[j]
  BY <1>1
<1>3. t \in Tables /\ t.dimension = T[n].dimension /\ t.rows = rows
  <2> HIDE DEF rows
  <2> QED
    BY <1>1, <1>2 DEF Tables
<1>4. PutRow(T, n, k, r) = [T EXCEPT ![n] = t]
  BY DEF PutRow
<1> HIDE DEF rows, t
<1> QED
  BY <1>2, <1>3, <1>4 DEF WithRow

\* A payload is written or deleted.
LEMMA PayloadPut ==
  ASSUME NEW P \in [Indexes -> [Keys -> Values \cup {None}]], NEW i \in Indexes,
         NEW k \in Keys, NEW v \in Values \cup {None}
  PROVE  LET U == [P EXCEPT ![i][k] = v]
         IN  /\ U \in [Indexes -> [Keys -> Values \cup {None}]]
             /\ \A j \in Indexes \ {i} : U[j] = P[j]
             /\ U[i][k] = v /\ \A j \in Keys \ {k} : U[i][j] = P[i][j]
OBVIOUS

\* What a call that is under way works on.
LEMMA Underway ==
  ASSUME TInv, NEW h \in Handles, call[h].at \in WriteSteps
  PROVE  /\ call[h] \in WriteCalls /\ call[h].index \in Indexes
         /\ call[h].at \in {"drop_table", "record", "create"} \cup Writing
              => call[h].table \in 1 .. MaxTables
         /\ call[h].at \in Writing =>
              /\ Item(h) \in Vecs /\ Item(h).key \in Keys /\ Item(h).value \in Values
              /\ Item(h).length = call[h].embedding.dimension
              /\ call[h].todo # <<>> /\ Tail(call[h].todo) \in Batches
         /\ table \in [1 .. MaxTables -> Tables \cup {None}]
         /\ payload \in [Indexes -> [Keys -> Values \cup {None}]]
         /\ meta \in [Indexes -> Metas \cup {None}]
         /\ call[h].embedding \in Embeddings /\ call[h].embedding.dimension \in Dimensions
<1>1. call[h] \in WriteCalls /\ call[h].index \in Indexes /\ call[h].todo \in Batches
      /\ call[h].embedding \in Embeddings
  BY CallTyped, CallKinds, CallFields DEF TInv
<1>2. Placed(call[h])
  BY DEF TInv
<1>3. ASSUME call[h].at \in Writing
      PROVE  /\ Item(h) \in Vecs /\ Item(h).length = call[h].embedding.dimension
             /\ call[h].todo # <<>> /\ Tail(call[h].todo) \in Batches
  BY <1>1, <1>2, <1>3, BatchShape DEF Placed, Item
<1>4. \A v \in Vecs : v.key \in Keys /\ v.value \in Values
  BY DEF Vecs
<1>5. call[h].embedding.dimension \in Dimensions
  BY <1>1 DEF Embeddings
<1> QED
  BY <1>1, <1>2, <1>3, <1>4, <1>5 DEF Placed, TInv, TypeOK

----------------------------------------------------------------------------

LEMMA DropTableTyped == ASSUME TInv, NEW h \in Handles, DropTable(h) PROVE TInv'
<1>1. call[h].at = "drop_table" /\ GoTo(h, "drop_values")
      /\ table' = [table EXCEPT ![call[h].table] = None] /\ UNCHANGED <<meta, payload>>
  BY DEF DropTable, At
<1>2. call[h].at \in WriteSteps /\ "drop_values" \in WriteSteps
  BY <1>1 DEF WriteSteps, Creating, Dropping
<1>3. call'[h].at = "drop_values" /\ OthersStay(h)
  BY <1>1, <1>2, GoToEffect DEF TInv
<1>4. Placed(call'[h])
  BY <1>3 DEF Placed, Writing
<1>5. table' \in [1 .. MaxTables -> Tables \cup {None}]
  BY <1>1, <1>2, Underway
<1>6. call[h].at \in Creating
  BY <1>1 DEF Creating, Dropping
<1> QED
  BY <1>1, <1>2, <1>3, <1>4, <1>5, <1>6, Underway, TypedStep DEF MetaTyped

LEMMA DropValuesTyped == ASSUME TInv, NEW h \in Handles, DropValues(h) PROVE TInv'
<1>1. call[h].at = "drop_values" /\ GoTo(h, "drop_meta")
      /\ payload' = [payload EXCEPT ![call[h].index] = NoRows] /\ UNCHANGED <<meta, table>>
  BY DEF DropValues, At
<1>2. call[h].at \in WriteSteps /\ "drop_meta" \in WriteSteps
  BY <1>1 DEF WriteSteps, Creating, Dropping
<1>3. call'[h].at = "drop_meta" /\ OthersStay(h)
  BY <1>1, <1>2, GoToEffect DEF TInv
<1>4. Placed(call'[h])
  BY <1>3 DEF Placed, Writing
<1>5. payload' \in [Indexes -> [Keys -> Values \cup {None}]]
  BY <1>1, <1>2, Underway DEF NoRows
<1>6. call[h].at \in Creating
  BY <1>1 DEF Creating, Dropping
<1> QED
  BY <1>1, <1>2, <1>3, <1>4, <1>5, <1>6, Underway, TypedStep DEF MetaTyped

LEMMA DropMetaTyped == ASSUME TInv, NEW h \in Handles, DropMeta(h) PROVE TInv'
<1>1. call[h].at = "drop_meta" /\ GoTo(h, "allocate")
      /\ meta' = [meta EXCEPT ![call[h].index] = None] /\ UNCHANGED <<table, payload>>
  BY DEF DropMeta, At
<1>2. call[h].at \in WriteSteps /\ "allocate" \in WriteSteps
  BY <1>1 DEF WriteSteps, Creating, Dropping
<1>3. call'[h].at = "allocate" /\ OthersStay(h)
  BY <1>1, <1>2, GoToEffect DEF TInv
<1>4. Placed(call'[h])
  BY <1>3 DEF Placed, Writing
<1>5. MetaTyped' /\ \A i \in Indexes : meta'[i] \in {meta[i], None}
  BY <1>1, <1>2, Underway DEF MetaTyped
<1>6. call[h].at \in Creating
  BY <1>1 DEF Creating, Dropping
<1> QED
  BY <1>1, <1>2, <1>3, <1>4, <1>5, <1>6, Underway, TypedStep

LEMMA AllocateEffect ==
  ASSUME TInv, NEW h \in Handles, Allocate(h)
  PROVE  /\ SameWrite(call[h], call'[h]) /\ call'[h].at = "record"
         /\ call'[h].table = NextRowid /\ call'[h].todo = call[h].todo
         /\ OthersStay(h) /\ NextRowid \in 1 .. MaxTables
<1> DEFINE d == [call[h] EXCEPT !.at = "record", !.table = NextRowid]
<1>1. call[h].at = "allocate" /\ call' = [call EXCEPT ![h] = d]
  BY DEF Allocate, At
<1>2. call[h].at \in WriteSteps /\ call[h].at \in Creating
  BY <1>1 DEF WriteSteps, Creating
<1>3. NextRowid \in 1 .. MaxTables /\ NextRowid \in 0 .. MaxTables
  BY <1>2, TableLeft, VectorsAssumption DEF TInv
<1>4. call[h] \in WriteCalls /\ call \in [Handles -> Calls]
  BY <1>2, Underway, CallTyped DEF TInv
<1>5. SameWrite(call[h], d) /\ d.at = "record" /\ d.table = NextRowid /\ d.todo = call[h].todo
  BY <1>3, <1>4, WriteMoves
<1> HIDE DEF d
<1>6. d \in Calls
  BY <1>5 DEF SameWrite, Calls
<1> QED
  BY <1>1, <1>3, <1>4, <1>5, <1>6 DEF OthersStay

LEMMA AllocateTyped == ASSUME TInv, NEW h \in Handles, Allocate(h) PROVE TInv'
<1>1. call'[h].at = "record" /\ call'[h].table \in 1 .. MaxTables /\ OthersStay(h)
  BY AllocateEffect
<1>2. Placed(call'[h])
  BY <1>1 DEF Placed, Writing
<1>3. call[h].at = "allocate" /\ UNCHANGED <<meta, table, payload>>
  BY DEF Allocate, At
<1>4. call[h].at \in Creating /\ call[h].at \in WriteSteps
  BY <1>3 DEF Creating, WriteSteps
<1> QED
  BY <1>1, <1>2, <1>3, <1>4, Underway, TypedStep DEF MetaTyped

\* The row of _index_meta that Record writes.
RowFor(h) == [rowid |-> NextRowid, table |-> call[h].table, embedding |-> call[h].embedding]

LEMMA RecordEffect ==
  ASSUME TInv, NEW h \in Handles, Record(h)
  PROVE  /\ call[h].at = "record" /\ OthersStay(h) /\ UNCHANGED <<table, payload>>
         /\ \/ /\ meta[call[h].index] # None /\ UNCHANGED meta
               /\ call'[h] = Answered("error") /\ call'[h].at = "idle"
            \/ /\ meta[call[h].index] = None
               /\ meta' = [meta EXCEPT ![call[h].index] = RowFor(h)]
               /\ RowFor(h) \in Metas /\ RowFor(h).rowid = NextRowid
               /\ RowFor(h).table = call[h].table /\ RowFor(h).embedding = call[h].embedding
               /\ SameWrite(call[h], call'[h]) /\ call'[h].at = "create"
               /\ call'[h].table = call[h].table /\ call'[h].todo = call[h].todo
<1>1. call[h].at = "record" /\ UNCHANGED <<table, payload>>
  BY DEF Record, At
<1>2. call[h].at \in WriteSteps /\ call[h].at \in Creating /\ "create" \in WriteSteps
  BY <1>1 DEF WriteSteps, Creating
<1>3. CASE meta[call[h].index] # None
  <2>1. Answer(h, "error") /\ UNCHANGED meta
    BY <1>3 DEF Record
  <2>2. call'[h] = Answered("error") /\ call'[h].at = "idle" /\ OthersStay(h)
    BY <2>1, AnswerEffect DEF Answers, TInv
  <2> QED
    BY <1>1, <1>3, <2>1, <2>2
<1>4. CASE meta[call[h].index] = None
  <2>1. GoTo(h, "create") /\ meta' = [meta EXCEPT ![call[h].index] = RowFor(h)]
    BY <1>4 DEF Record, RowFor
  <2>2. SameWrite(call[h], call'[h]) /\ call'[h].at = "create" /\ OthersStay(h)
        /\ call'[h].table = call[h].table /\ call'[h].todo = call[h].todo
    BY <1>2, <2>1, GoToEffect DEF TInv
  <2>3. NextRowid \in 1 .. MaxTables
    BY <1>2, TableLeft DEF TInv
  <2>4. call[h].table \in 1 .. MaxTables /\ call[h].embedding \in Embeddings
    BY <1>1, <1>2, Underway
  <2>5. RowFor(h) \in Metas /\ RowFor(h).rowid = NextRowid
        /\ RowFor(h).table = call[h].table /\ RowFor(h).embedding = call[h].embedding
    BY <2>3, <2>4 DEF RowFor, Metas
  <2> QED
    BY <1>1, <1>4, <2>1, <2>2, <2>5
<1> QED
  BY <1>3, <1>4

LEMMA RecordTyped == ASSUME TInv, NEW h \in Handles, Record(h) PROVE TInv'
<1>1. call[h].at = "record" /\ OthersStay(h) /\ UNCHANGED <<table, payload>>
  BY RecordEffect
<1>2. call[h].at \in WriteSteps /\ call[h].at \in Creating
  BY <1>1 DEF WriteSteps, Creating
<1>3. CASE UNCHANGED meta /\ call'[h].at = "idle"
  <2>1. Placed(call'[h])
    BY <1>3 DEF Placed, Writing
  <2> QED
    BY <1>1, <1>2, <1>3, <2>1, Underway, TypedStep DEF MetaTyped
<1>4. CASE /\ meta' = [meta EXCEPT ![call[h].index] = RowFor(h)]
           /\ RowFor(h) \in Metas /\ RowFor(h).rowid = NextRowid
           /\ call'[h].at = "create" /\ call'[h].table = call[h].table
  <2>1. Placed(call'[h])
    BY <1>1, <1>2, <1>4, Underway DEF Placed, Writing
  <2>2. call'[h].at \notin Creating
    BY <1>4 DEF Creating, Dropping
  <2>3. MetaTyped' /\ \A i \in Indexes : meta'[i] \in {meta[i], None} \/ meta'[i].rowid = NextRowid
    BY <1>2, <1>4, Underway DEF MetaTyped
  <2> QED
    BY <1>1, <1>2, <2>1, <2>2, <2>3, Underway, TypedStep
<1> QED
  BY <1>3, <1>4, RecordEffect

\* What follows a vector that is written, or the creation of the table.
LEMMA WritesOn ==
  ASSUME TInv, NEW h \in Handles, call[h].at \in WriteSteps \ Creating,
         NEW c \in WriteCalls, c.table = call[h].table,
         call' = [call EXCEPT ![h] = WriteNext(c)]
  PROVE  /\ OthersStay(h) /\ Placed(call'[h]) /\ call'[h].at \notin Creating
         /\ \/ call'[h] = Answered("ok") /\ c.todo = <<>> /\ call'[h].at = "idle"
            \/ call'[h] = Answered("mismatch") /\ call'[h].at = "idle"
            \/ /\ SameWrite(c, call'[h]) /\ call'[h].at = "unkey"
               /\ call'[h].table = c.table /\ call'[h].todo = c.todo
               /\ c.todo # <<>> /\ Head(c.todo).length = c.embedding.dimension
<1>1. /\ OthersStay(h)
      /\ \/ call'[h] = Answered("ok") /\ c.todo = <<>> /\ call'[h].at = "idle"
         \/ call'[h] = Answered("mismatch") /\ call'[h].at = "idle"
         \/ /\ SameWrite(c, call'[h]) /\ call'[h].at = "unkey"
            /\ call'[h].table = c.table /\ call'[h].todo = c.todo
            /\ c.todo # <<>> /\ Head(c.todo).length = c.embedding.dimension
  BY WriteNextEffect DEF TInv
<1>2. call[h].table \in 1 .. MaxTables
  BY Underway DEF WriteSteps
<1>3. call'[h].at \notin Creating
  BY <1>1 DEF Creating, Dropping
<1>4. Placed(call'[h])
  BY <1>1, <1>2 DEF Placed, Writing, SameWrite
<1> QED
  BY <1>1, <1>3, <1>4

LEMMA CreateTyped == ASSUME TInv, NEW h \in Handles, Create(h) PROVE TInv'
<1> DEFINE n == call[h].table
           t == [dimension |-> call[h].embedding.dimension, rows |-> NoRows]
<1>1. /\ call[h].at = "create" /\ call' = [call EXCEPT ![h] = WriteNext(call[h])]
      /\ table' = [table EXCEPT ![n] = IF table[n] = None THEN t ELSE table[n]]
      /\ UNCHANGED <<meta, payload>>
  <2>1. call' = [call EXCEPT ![h] = WriteNext(@)] /\ h \in DOMAIN call
    BY DEF Create, TInv, TypeOK
  <2>2. /\ call[h].at = "create" /\ UNCHANGED <<meta, payload>>
        /\ table' = [table EXCEPT ![n] = IF table[n] = None THEN t ELSE table[n]]
    BY DEF Create, At
  <2> QED
    BY <2>1, <2>2
<1>2. call[h].at \in WriteSteps \ Creating
  BY <1>1 DEF WriteSteps, Creating, Dropping
<1>3. OthersStay(h) /\ Placed(call'[h]) /\ call'[h].at \notin Creating
  BY <1>1, <1>2, Underway, WritesOn
<1>4. t \in Tables
  BY <1>2, Underway DEF Tables, NoRows
<1>5. table' \in [1 .. MaxTables -> Tables \cup {None}]
  <2> HIDE DEF t
  <2> QED
    BY <1>1, <1>2, <1>4, Underway
<1> QED
  BY <1>1, <1>2, <1>3, <1>5, Underway, TypedStep DEF MetaTyped

LEMMA UnkeyTyped == ASSUME TInv, NEW h \in Handles, Unkey(h) PROVE TInv'
<1>1. call[h].at = "unkey" /\ UNCHANGED <<meta, payload>>
  BY DEF Unkey, At
<1>2. call[h].at \in WriteSteps /\ call[h].at \notin Creating /\ "insert" \in WriteSteps
      /\ call[h].at \in Writing
  BY <1>1 DEF WriteSteps, Creating, Dropping, Writing
<1>3. CASE Answer(h, "error") /\ UNCHANGED table
  <2>1. call'[h].at = "idle" /\ OthersStay(h)
    BY <1>3, AnswerEffect DEF Answers, TInv
  <2>2. Placed(call'[h]) /\ call'[h].at \notin Creating
    BY <2>1 DEF Placed, Writing, Creating, Dropping
  <2> QED
    BY <1>1, <1>2, <1>3, <2>1, <2>2, Underway, TypedStep DEF MetaTyped
<1>4. CASE /\ table[call[h].table] # None /\ GoTo(h, "insert")
           /\ table' = [table EXCEPT ![call[h].table].rows[Item(h).key] = None]
  <2>1. /\ SameWrite(call[h], call'[h]) /\ call'[h].at = "insert"
        /\ call'[h].table = call[h].table /\ call'[h].todo = call[h].todo /\ OthersStay(h)
    BY <1>2, <1>4, GoToEffect DEF TInv
  <2>2. Placed(call[h])
    BY DEF TInv
  <2>3. Placed(call'[h]) /\ call'[h].at \notin Creating
    BY <1>1, <2>1, <2>2 DEF Placed, Writing, Creating, Dropping, SameWrite
  <2>4. table' \in [1 .. MaxTables -> Tables \cup {None}]
    BY <1>2, <1>4, Underway, RowPut DEF PutRow, WithRow
  <2> QED
    BY <1>1, <1>2, <2>1, <2>3, <2>4, Underway, TypedStep DEF MetaTyped
<1> QED
  BY <1>3, <1>4 DEF Unkey

LEMMA InsertTyped == ASSUME TInv, NEW h \in Handles, Insert(h) PROVE TInv'
<1> DEFINE r == [embedding |-> call[h].embedding, value |-> Item(h).value]
<1>1. call[h].at = "insert" /\ UNCHANGED <<meta, payload>>
  BY DEF Insert, At
<1>2. call[h].at \in WriteSteps /\ call[h].at \notin Creating /\ "payload" \in WriteSteps
      /\ call[h].at \in Writing
  BY <1>1 DEF WriteSteps, Creating, Dropping, Writing
<1>3. CASE Answer(h, "error") /\ UNCHANGED table
  <2>1. call'[h].at = "idle" /\ OthersStay(h)
    BY <1>3, AnswerEffect DEF Answers, TInv
  <2>2. Placed(call'[h]) /\ call'[h].at \notin Creating
    BY <2>1 DEF Placed, Writing, Creating, Dropping
  <2> QED
    BY <1>1, <1>2, <1>3, <2>1, <2>2, Underway, TypedStep DEF MetaTyped
<1>4. CASE /\ table[call[h].table] # None /\ GoTo(h, "payload")
           /\ table' = [table EXCEPT ![call[h].table].rows[Item(h).key] = r]
  <2>1. /\ SameWrite(call[h], call'[h]) /\ call'[h].at = "payload"
        /\ call'[h].table = call[h].table /\ call'[h].todo = call[h].todo /\ OthersStay(h)
    BY <1>2, <1>4, GoToEffect DEF TInv
  <2>2. Placed(call[h])
    BY DEF TInv
  <2>3. Placed(call'[h]) /\ call'[h].at \notin Creating
    BY <1>1, <2>1, <2>2 DEF Placed, Writing, Creating, Dropping, SameWrite
  <2>4. r \in Stored
    BY <1>2, Underway DEF Stored
  <2>5. table' \in [1 .. MaxTables -> Tables \cup {None}]
    <3> HIDE DEF r
    <3> QED
      BY <1>2, <1>4, <2>4, Underway, RowPut DEF PutRow, WithRow
  <2> QED
    BY <1>1, <1>2, <2>1, <2>3, <2>5, Underway, TypedStep DEF MetaTyped
<1> QED
  BY <1>3, <1>4 DEF Insert, Takes

\* The call of h with its first vector written.
Written(h) == [call[h] EXCEPT !.todo = Tail(call[h].todo)]

LEMMA SetPayloadEffect ==
  ASSUME TInv, NEW h \in Handles, SetPayload(h)
  PROVE  /\ call[h].at = "payload" /\ UNCHANGED <<meta, table>>
         /\ payload' = [payload EXCEPT ![call[h].index][Item(h).key] = Item(h).value]
         /\ call' = [call EXCEPT ![h] = WriteNext(Written(h))]
         /\ SameWrite(call[h], Written(h)) /\ Written(h).at = "payload"
         /\ Written(h).table = call[h].table /\ Written(h).todo = Tail(call[h].todo)
<1>1. /\ call[h].at = "payload" /\ UNCHANGED <<meta, table>>
      /\ payload' = [payload EXCEPT ![call[h].index][Item(h).key] = Item(h).value]
  BY DEF SetPayload, At
<1>2. call' = [call EXCEPT ![h] = WriteNext([call[h] EXCEPT !.todo = Tail(@)])]
  BY DEF SetPayload
<1>4. call[h].at \in WriteSteps /\ call[h].at \in Writing
  BY <1>1 DEF WriteSteps, Writing
<1>6. call[h] \in WriteCalls /\ Tail(call[h].todo) \in Batches
  BY <1>4, Underway
<1>7. [call[h] EXCEPT !.todo = Tail(@)] = Written(h)
  BY <1>6 DEF Written, WriteCalls
<1>3. call' = [call EXCEPT ![h] = WriteNext(Written(h))]
  BY <1>2, <1>7
<1>5. SameWrite(call[h], Written(h)) /\ Written(h).at = "payload"
      /\ Written(h).table = call[h].table /\ Written(h).todo = Tail(call[h].todo)
  BY <1>1, <1>6, WriteMoves DEF Written
<1> QED
  BY <1>1, <1>3, <1>5

LEMMA SetPayloadTyped == ASSUME TInv, NEW h \in Handles, SetPayload(h) PROVE TInv'
<1>1. /\ call[h].at = "payload" /\ UNCHANGED <<meta, table>>
      /\ payload' = [payload EXCEPT ![call[h].index][Item(h).key] = Item(h).value]
      /\ call' = [call EXCEPT ![h] = WriteNext(Written(h))]
      /\ SameWrite(call[h], Written(h)) /\ Written(h).table = call[h].table
  BY SetPayloadEffect
<1>2. call[h].at \in WriteSteps \ Creating /\ call[h].at \in Writing
  BY <1>1 DEF WriteSteps, Creating, Dropping, Writing
<1>3. OthersStay(h) /\ Placed(call'[h]) /\ call'[h].at \notin Creating
  BY <1>1, <1>2, WritesOn DEF SameWrite
<1>4. payload' \in [Indexes -> [Keys -> Values \cup {None}]]
  BY <1>1, <1>2, Underway, PayloadPut
<1> QED
  BY <1>1, <1>2, <1>3, <1>4, Underway, TypedStep DEF MetaTyped

LEMMA AnswerTyped ==
  ASSUME TInv, NEW h \in Handles, NEW a \in Answers, Answer(h, a), UNCHANGED meta,
         table' \in [1 .. MaxTables -> Tables \cup {None}],
         payload' \in [Indexes -> [Keys -> Values \cup {None}]]
  PROVE  TInv'
<1>1. call'[h].at = "idle" /\ OthersStay(h)
  BY AnswerEffect DEF TInv
<1>2. Placed(call'[h]) /\ call'[h].at \notin Creating
  BY <1>1 DEF Placed, Writing, Creating, Dropping
<1>3. MetaTyped' /\ \A i \in Indexes : meta'[i] \in {meta[i], None}
  BY DEF TInv, TypeOK, MetaTyped
<1> QED
  BY <1>1, <1>2, <1>3, TypedStep

LEMMA FailTyped == ASSUME TInv, NEW h \in Handles, Fail(h) PROVE TInv'
<1>1. Answer(h, "error") /\ UNCHANGED <<meta, table, payload>>
  BY DEF Fail
<1> QED
  BY <1>1, AnswerTyped DEF Answers, TInv, TypeOK

\* A delete that goes on from its vector to its payload.
LEMMA DeleteGoes ==
  ASSUME TInv, NEW h \in Handles, At(h, "delete_vector")
  PROVE  /\ call[h] \in DeleteCalls /\ call[h].at = "delete_vector"
         /\ call[h].index \in Indexes /\ call[h].key \in Keys
         /\ call[h].table \in 1 .. MaxTables
         /\ GoTo(h, "delete_payload") =>
              /\ OthersStay(h) /\ call'[h].at = "delete_payload" /\ call'[h].op = "delete"
              /\ call'[h].index = call[h].index /\ call'[h].key = call[h].key
              /\ call'[h].alone = call[h].alone
<1>1. call[h].at = "delete_vector" /\ call[h] \in Calls /\ call \in [Handles -> Calls]
  BY CallTyped DEF At, TInv
<1>2. call[h] \in DeleteCalls
  BY <1>1, CallKinds DEF DeleteSteps
<1>3. call[h].index \in Indexes /\ call[h].key \in Keys
  BY <1>2, CallFields
<1>4. call[h].table \in 1 .. MaxTables
  BY <1>1 DEF TInv, Placed
<1>5. ASSUME GoTo(h, "delete_payload")
      PROVE  /\ OthersStay(h) /\ call'[h].at = "delete_payload" /\ call'[h].op = "delete"
             /\ call'[h].index = call[h].index /\ call'[h].key = call[h].key
             /\ call'[h].alone = call[h].alone
  <2> DEFINE d == [call[h] EXCEPT !.at = "delete_payload"]
  <2>1. call' = [call EXCEPT ![h] = d]
    BY <1>5 DEF GoTo
  <2>2. d \in DeleteCalls /\ d.at = "delete_payload" /\ d.op = "delete"
        /\ d.index = call[h].index /\ d.key = call[h].key /\ d.alone = call[h].alone
    BY <1>2 DEF DeleteCalls
  <2> HIDE DEF d
  <2>3. d \in Calls
    BY <2>2 DEF Calls
  <2> QED
    BY <1>1, <2>1, <2>2, <2>3 DEF OthersStay
<1> QED
  BY <1>1, <1>2, <1>3, <1>4, <1>5

LEMMA DeleteVectorTyped == ASSUME TInv, NEW h \in Handles, DeleteVector(h) PROVE TInv'
<1>1. At(h, "delete_vector") /\ UNCHANGED <<meta, payload>>
  BY DEF DeleteVector
<1>2. /\ table \in [1 .. MaxTables -> Tables \cup {None}]
      /\ payload \in [Indexes -> [Keys -> Values \cup {None}]] /\ MetaTyped
  BY DEF TInv, TypeOK, MetaTyped
<1>3. CASE Answer(h, "error") /\ UNCHANGED table
  BY <1>1, <1>2, <1>3, AnswerTyped DEF Answers
<1>4. CASE /\ table[call[h].table] # None /\ GoTo(h, "delete_payload")
           /\ table' = [table EXCEPT ![call[h].table].rows[call[h].key] = None]
  <2>1. OthersStay(h) /\ call'[h].at = "delete_payload"
    BY <1>1, <1>4, DeleteGoes
  <2>2. Placed(call'[h]) /\ call'[h].at \notin Creating
    BY <2>1 DEF Placed, Writing, Creating, Dropping
  <2>3. table' \in [1 .. MaxTables -> Tables \cup {None}]
    BY <1>1, <1>2, <1>4, DeleteGoes, RowPut DEF PutRow, WithRow
  <2> QED
    BY <1>1, <1>2, <2>1, <2>2, <2>3, TypedStep DEF MetaTyped
<1> QED
  BY <1>3, <1>4 DEF DeleteVector

LEMMA DeletePayloadTyped == ASSUME TInv, NEW h \in Handles, DeletePayload(h) PROVE TInv'
<1>1. /\ call[h].at = "delete_payload" /\ Answer(h, "ok") /\ UNCHANGED <<meta, table>>
      /\ \/ payload' = [payload EXCEPT ![call[h].index][call[h].key] = None]
         \/ UNCHANGED payload
  BY DEF DeletePayload, At
<1>2. /\ table \in [1 .. MaxTables -> Tables \cup {None}]
      /\ payload \in [Indexes -> [Keys -> Values \cup {None}]]
  BY DEF TInv, TypeOK
<1>3. call[h] \in DeleteCalls
  BY <1>1, CallTyped, CallKinds DEF DeleteSteps, TInv
<1>4. call[h].index \in Indexes /\ call[h].key \in Keys
  BY <1>3, CallFields
<1>5. None \in Values \cup {None}
  OBVIOUS
<1>6. [payload EXCEPT ![call[h].index][call[h].key] = None]
        \in [Indexes -> [Keys -> Values \cup {None}]]
  BY <1>2, <1>4, <1>5, PayloadPut
<1>7. payload' \in [Indexes -> [Keys -> Values \cup {None}]]
  BY <1>1, <1>2, <1>6
<1> QED
  BY <1>1, <1>2, <1>7, AnswerTyped DEF Answers

\* A search that goes on.
LEMMA SearchGoes ==
  ASSUME TInv, NEW h \in Handles, call[h].at \in {"count", "match"}
  PROVE  /\ call[h] \in SearchCalls /\ call[h].table \in 1 .. MaxTables
         /\ call[h].index \in Indexes /\ call[h].embedding \in Embeddings
         /\ GoTo(h, "match") =>
              /\ OthersStay(h) /\ call'[h].at = "match" /\ call'[h].op = "search"
              /\ call'[h].index = call[h].index /\ call'[h].table = call[h].table
              /\ call'[h].embedding = call[h].embedding
         /\ \A hits \in [Keys -> Stored \cup {None}] :
              call' = [call EXCEPT ![h].at = "payloads", ![h].hits = hits] =>
                /\ OthersStay(h) /\ call'[h].at = "payloads" /\ call'[h].op = "search"
                /\ call'[h].index = call[h].index /\ call'[h].hits = hits
                /\ call'[h].embedding = call[h].embedding
<1>1. call[h] \in Calls /\ call \in [Handles -> Calls]
  BY CallTyped DEF TInv
<1>2. call[h] \in SearchCalls
  BY <1>1, CallKinds DEF SearchSteps
<1>3. /\ call[h].table \in 1 .. MaxTables /\ call[h].index \in Indexes
      /\ call[h].embedding \in Embeddings
  BY <1>2, CallFields
<1>4. ASSUME GoTo(h, "match")
      PROVE  /\ OthersStay(h) /\ call'[h].at = "match" /\ call'[h].op = "search"
             /\ call'[h].index = call[h].index /\ call'[h].table = call[h].table
             /\ call'[h].embedding = call[h].embedding
  <2> DEFINE d == [call[h] EXCEPT !.at = "match"]
  <2>1. call' = [call EXCEPT ![h] = d]
    BY <1>4 DEF GoTo
  <2>2. d \in SearchCalls /\ d.at = "match" /\ d.op = "search" /\ d.index = call[h].index
        /\ d.table = call[h].table /\ d.embedding = call[h].embedding
    BY <1>2 DEF SearchCalls
  <2> HIDE DEF d
  <2>3. d \in Calls
    BY <2>2 DEF Calls
  <2> QED
    BY <1>1, <2>1, <2>2, <2>3 DEF OthersStay
<1>5. ASSUME NEW hits \in [Keys -> Stored \cup {None}],
             call' = [call EXCEPT ![h].at = "payloads", ![h].hits = hits]
      PROVE  /\ OthersStay(h) /\ call'[h].at = "payloads" /\ call'[h].op = "search"
             /\ call'[h].index = call[h].index /\ call'[h].hits = hits
             /\ call'[h].embedding = call[h].embedding
  <2> DEFINE d == [call[h] EXCEPT !.at = "payloads", !.hits = hits]
  <2>1. call' = [call EXCEPT ![h] = d]
    BY <1>5
  <2>2. d \in SearchCalls /\ d.at = "payloads" /\ d.op = "search" /\ d.index = call[h].index
        /\ d.hits = hits /\ d.embedding = call[h].embedding
    BY <1>2 DEF SearchCalls
  <2> HIDE DEF d
  <2>3. d \in Calls
    BY <2>2 DEF Calls
  <2> QED
    BY <1>1, <2>1, <2>2, <2>3 DEF OthersStay
<1> QED
  BY <1>2, <1>3, <1>4, <1>5

\* A call that cannot create an index, at a step that needs no table, goes on.
LEMMA IdlyTyped ==
  ASSUME TInv, NEW h \in Handles, OthersStay(h), UNCHANGED <<meta, table, payload>>,
         call'[h].at \in {"idle", "match", "payloads"}
  PROVE  TInv'
<1>1. Placed(call'[h]) /\ call'[h].at \notin Creating
  BY DEF Placed, Writing, Creating, Dropping
<1> QED
  BY <1>1, TypedStep DEF MetaTyped, TInv, TypeOK

LEMMA CountTyped == ASSUME TInv, NEW h \in Handles, Count(h) PROVE TInv'
<1>1. UNCHANGED <<meta, table, payload>> /\ call[h].at = "count"
  BY DEF Count, At
<1>2. CASE Answer(h, "ok")
  BY <1>1, <1>2, AnswerEffect, IdlyTyped DEF Answers, TInv
<1>3. CASE GoTo(h, "match")
  BY <1>1, <1>3, SearchGoes, IdlyTyped
<1> QED
  BY <1>2, <1>3 DEF Count

\* What a search answers is in its table, if that is of the search's dimension.
Matched(h, hits) ==
  /\ table[call[h].table] # None
  /\ \A k \in Keys : hits[k] # None => hits[k] = table[call[h].table].rows[k]

LEMMA MatchEffect ==
  ASSUME TInv, NEW h \in Handles, Match(h)
  PROVE  /\ UNCHANGED <<meta, table, payload>> /\ call[h].at = "match"
         /\ \/ Answer(h, "error")
            \/ \E hits \in [Keys -> Stored \cup {None}] :
                 /\ Matched(h, hits)
                 /\ call' = [call EXCEPT ![h].at = "payloads", ![h].hits = hits]
<1>1. UNCHANGED <<meta, table, payload>> /\ call[h].at = "match"
  BY DEF Match, At
<1>2. CASE Answer(h, "error")
  BY <1>1, <1>2
<1>3. ASSUME table[call[h].table] # None, NEW some \in SUBSET Keys,
             LET t == table[call[h].table]
                 found == IF t.dimension = call[h].embedding.dimension THEN some ELSE {}
                 hits  == [k \in Keys |-> IF k \in found THEN t.rows[k] ELSE None]
             IN  call' = [call EXCEPT ![h].at = "payloads", ![h].hits = hits]
      PROVE  \E hits \in [Keys -> Stored \cup {None}] :
                 /\ Matched(h, hits)
                 /\ call' = [call EXCEPT ![h].at = "payloads", ![h].hits = hits]
  <2> DEFINE t == table[call[h].table]
             found == IF t.dimension = call[h].embedding.dimension THEN some ELSE {}
             hits == [k \in Keys |-> IF k \in found THEN t.rows[k] ELSE None]
  <2>1. call' = [call EXCEPT ![h].at = "payloads", ![h].hits = hits]
    BY <1>3
  <2>2. call[h].table \in 1 .. MaxTables
    BY <1>1, SearchGoes
  <2>3. t \in Tables
    BY <1>3, <2>2 DEF TInv, TypeOK
  <2>4. t.rows \in [Keys -> Stored \cup {None}]
    BY <2>3 DEF Tables
  <2> HIDE DEF t, found
  <2>5. hits \in [Keys -> Stored \cup {None}]
    BY <2>4
  <2>6. \A k \in Keys : hits[k] # None => hits[k] = t.rows[k]
    OBVIOUS
  <2> HIDE DEF hits
  <2>7. Matched(h, hits)
    BY <1>3, <2>6 DEF Matched, t
  <2> QED
    BY <2>1, <2>5, <2>7
<1> QED
  BY <1>1, <1>2, <1>3 DEF Match

LEMMA MatchTyped == ASSUME TInv, NEW h \in Handles, Match(h) PROVE TInv'
<1>1. UNCHANGED <<meta, table, payload>> /\ call[h].at = "match"
  BY MatchEffect
<1>2. CASE Answer(h, "error")
  BY <1>1, <1>2, AnswerEffect, IdlyTyped DEF Answers, TInv
<1>3. ASSUME NEW hits \in [Keys -> Stored \cup {None}],
             call' = [call EXCEPT ![h].at = "payloads", ![h].hits = hits]
      PROVE  TInv'
  BY <1>1, <1>3, SearchGoes, IdlyTyped
<1> QED
  BY <1>2, <1>3, MatchEffect

LEMMA PayloadsTyped == ASSUME TInv, NEW h \in Handles, Payloads(h) PROVE TInv'
<1>1. Answer(h, "ok") /\ UNCHANGED <<meta, table, payload>>
  BY DEF Payloads
<1> QED
  BY <1>1, AnswerTyped DEF Answers, TInv, TypeOK

\* How a call begins: at what step, and what it has found of its index.
Begins(h, c) ==
  /\ c \in Calls
  /\ c.at # "idle" =>
       c.index \in Indexes /\ MayOverlap(h, c.op, c.index) /\ c.alone = (Others(h) = {})
  /\ c.at \in WriteSteps =>
       /\ Room(h) /\ c.todo = c.batch
       /\ c.op = "upsert" => Len(c.batch) = 1
       /\ \/ c.at = "allocate" /\ c.found = None
          \/ c.at = "drop_table" /\ c.op = "reindex" /\ Names(c)
          \/ /\ c.at = "unkey" /\ c.op = "upsert" /\ Names(c)
             /\ meta[c.index].embedding = c.embedding
             /\ c.todo # <<>> /\ Head(c.todo).length = c.embedding.dimension
  /\ c.at \in DeleteSteps =>
       \/ c.at = "delete_vector" /\ Names(c)
       \/ c.at = "delete_payload" /\ (Misreads \/ meta[c.index] = None)
  /\ c.at \in SearchSteps =>
       c.at \in {"count", "match"} /\ Names(c) /\ meta[c.index].embedding = c.embedding

LEMMA AnsweredBegins == ASSUME NEW h, NEW a \in Answers PROVE Begins(h, Answered(a))
<1>1. Answered(a) \in Idle /\ Answered(a).at = "idle"
  BY CallFields
<1> QED
  BY <1>1 DEF Begins, Calls, WriteSteps, DeleteSteps, SearchSteps, Creating, Dropping, Writing

LEMMA FoundIs ==
  ASSUME TypeOK, NEW i \in Indexes, NEW m \in Found(i)
  PROVE  /\ m \in Metas \cup {None}
         /\ m # None => m = meta[i]
         /\ m = None => Misreads \/ meta[i] = None
         /\ m # None => m \in Metas /\ m.table \in 1 .. MaxTables
BY DEF Found, TypeOK, Metas

LEMMA UpsertBegins ==
  ASSUME TypeOK, NEW h \in Handles, NEW i \in Indexes, NEW e \in Embeddings, NEW v \in Vecs,
         Upsert(h, i, e, v)
  PROVE  \E c : Begins(h, c) /\ Enters(h, c)
<1>1. /\ Room(h) /\ MayOverlap(h, "upsert", i)
      /\ \E m \in Found(i) :
           LET c == Entered(h, "upsert", i, m, e, <<v>>)
           IN  Enters(h, IF m = None THEN c
                         ELSE IF m.embedding # e THEN Answered("mismatch") ELSE WriteNext(c))
  BY DEF Upsert
<1>2. PICK m \in Found(i) :
        LET c == Entered(h, "upsert", i, m, e, <<v>>)
        IN  Enters(h, IF m = None THEN c
                      ELSE IF m.embedding # e THEN Answered("mismatch") ELSE WriteNext(c))
  BY <1>1
<1> DEFINE c == Entered(h, "upsert", i, m, e, <<v>>)
           u == [c EXCEPT !.at = "unkey"]
<1>3. <<v>> \in Batches /\ Len(<<v>>) = 1 /\ m \in Metas \cup {None}
  BY BatchShape, FoundIs
<1>4. /\ c \in WriteCalls /\ c.at = "allocate" /\ c.op = "upsert" /\ c.index = i
      /\ c.embedding = e /\ c.found = m /\ c.batch = <<v>> /\ c.todo = <<v>>
      /\ c.table = (IF m = None THEN 0 ELSE m.table) /\ c.alone = (Others(h) = {})
  BY <1>3, EnteredIs
<1>5. SameWrite(c, u) /\ u.at = "unkey" /\ u.table = c.table /\ u.todo = c.todo
  BY <1>4, WriteMoves DEF WriteSteps, Writing
<1>6. /\ WriteNext(c) = Answered("ok") \/ WriteNext(c) = Answered("mismatch")
         \/ (WriteNext(c) = u /\ c.todo # <<>> /\ Head(c.todo).length = c.embedding.dimension)
  BY WriteNextIs
<1> HIDE DEF c, u
<1>7. CASE m = None
  <2>1. Enters(h, c)
    BY <1>2, <1>7 DEF c
  <2>2. Begins(h, c)
    BY <1>1, <1>3, <1>4, <1>7 DEF Begins, Calls, WriteSteps, DeleteSteps, SearchSteps, Creating,
       Dropping, Writing
  <2> QED
    BY <2>1, <2>2
<1>8. CASE m # None /\ m.embedding # e
  <2>1. Enters(h, Answered("mismatch"))
    BY <1>2, <1>8
  <2> QED
    BY <2>1, AnsweredBegins DEF Answers
<1>9. CASE m # None /\ m.embedding = e
  <2>1. Enters(h, WriteNext(c))
    BY <1>2, <1>9 DEF c
  <2>2. CASE WriteNext(c) \in {Answered("ok"), Answered("mismatch")}
    BY <2>1, <2>2, AnsweredBegins DEF Answers
  <2>3. CASE WriteNext(c) = u /\ c.todo # <<>> /\ Head(c.todo).length = c.embedding.dimension
    <3>1. u \in WriteCalls /\ u.op = "upsert" /\ u.index = i /\ u.embedding = e
          /\ u.batch = <<v>> /\ u.todo = <<v>> /\ u.table = m.table /\ u.alone = (Others(h) = {})
      BY <1>4, <1>5, <1>9 DEF SameWrite
    <3>2. meta[u.index] = m /\ Names(u)
      BY <3>1, <1>9, FoundIs DEF Names
    <3>3. Begins(h, u)
      BY <1>1, <1>3, <1>4, <1>5, <1>9, <2>3, <3>1, <3>2 DEF Begins, Calls, WriteSteps,
         DeleteSteps, SearchSteps, Creating, Dropping, Writing
    <3> QED
      BY <2>1, <2>3, <3>3
  <2> QED
    BY <1>6, <2>2, <2>3
<1> QED
  BY <1>7, <1>8, <1>9

LEMMA ReindexBegins ==
  ASSUME TypeOK, NEW h \in Handles, NEW i \in Indexes, NEW e \in Embeddings,
         NEW batch \in Batches, Reindex(h, i, e, batch)
  PROVE  \E c : Begins(h, c) /\ Enters(h, c)
<1>1. /\ Room(h) /\ MayOverlap(h, "reindex", i)
      /\ \E m \in Found(i) :
           LET c == Entered(h, "reindex", i, m, e, batch)
           IN  Enters(h, IF m = None THEN c ELSE [c EXCEPT !.at = "drop_table"])
  BY DEF Reindex
<1>2. PICK m \in Found(i) :
        LET c == Entered(h, "reindex", i, m, e, batch)
        IN  Enters(h, IF m = None THEN c ELSE [c EXCEPT !.at = "drop_table"])
  BY <1>1
<1> DEFINE c == Entered(h, "reindex", i, m, e, batch)
           u == [c EXCEPT !.at = "drop_table"]
<1>3. m \in Metas \cup {None}
  BY FoundIs
<1>4. /\ c \in WriteCalls /\ c.at = "allocate" /\ c.op = "reindex" /\ c.index = i
      /\ c.embedding = e /\ c.found = m /\ c.batch = batch /\ c.todo = batch
      /\ c.table = (IF m = None THEN 0 ELSE m.table) /\ c.alone = (Others(h) = {})
  BY <1>3, EnteredIs
<1>5. SameWrite(c, u) /\ u.at = "drop_table" /\ u.table = c.table /\ u.todo = c.todo
  BY <1>4, WriteMoves DEF WriteSteps, Creating, Dropping
<1> HIDE DEF c, u
<1>7. CASE m = None
  <2>1. Enters(h, c)
    BY <1>2, <1>7 DEF c
  <2>2. Begins(h, c)
    BY <1>1, <1>3, <1>4, <1>7 DEF Begins, Calls, WriteSteps, DeleteSteps, SearchSteps, Creating,
       Dropping, Writing
  <2> QED
    BY <2>1, <2>2
<1>8. CASE m # None
  <2>1. Enters(h, u)
    BY <1>2, <1>8 DEF c, u
  <2>2. u \in WriteCalls /\ u.op = "reindex" /\ u.index = i /\ u.batch = batch
        /\ u.todo = batch /\ u.table = m.table /\ u.alone = (Others(h) = {})
    BY <1>4, <1>5, <1>8 DEF SameWrite
  <2>3. meta[u.index] = m /\ Names(u)
    BY <2>2, <1>8, FoundIs DEF Names
  <2>4. Begins(h, u)
    BY <1>1, <1>4, <1>5, <1>8, <2>2, <2>3 DEF Begins, Calls, WriteSteps, DeleteSteps,
       SearchSteps, Creating, Dropping, Writing
  <2> QED
    BY <2>1, <2>4
<1> QED
  BY <1>7, <1>8

LEMMA DeleteBegins ==
  ASSUME TypeOK, NEW h \in Handles, NEW i \in Indexes, NEW k \in Keys, Delete(h, i, k)
  PROVE  \E c : Begins(h, c) /\ Enters(h, c)
<1> DEFINE D(m) == [at |-> IF m = None THEN "delete_payload" ELSE "delete_vector",
                    op |-> "delete", index |-> i, key |-> k,
                    table |-> IF m = None THEN 0 ELSE m.table, alone |-> Others(h) = {}]
<1>1. MayOverlap(h, "delete", i) /\ \E m \in Found(i) : Enters(h, D(m))
  BY DEF Delete
<1>2. PICK m \in Found(i) : Enters(h, D(m))
  BY <1>1
<1> DEFINE c == D(m)
           n == IF m = None THEN 0 ELSE m.table
           alone == (Others(h) = {})
<1>3. /\ m # None => m = meta[i] /\ m.table \in 1 .. MaxTables
      /\ m = None => Misreads \/ meta[i] = None
  BY FoundIs
<1>4. n \in 0 .. MaxTables /\ alone \in BOOLEAN
  BY <1>3, VectorsAssumption
<1>5. /\ c \in DeleteCalls /\ c.at = (IF m = None THEN "delete_payload" ELSE "delete_vector")
      /\ c.op = "delete" /\ c.index = i /\ c.table = n /\ c.alone = alone
  <2> HIDE DEF n, alone
  <2>1. c = [at |-> IF m = None THEN "delete_payload" ELSE "delete_vector",
             op |-> "delete", index |-> i, key |-> k, table |-> n, alone |-> alone]
    BY DEF n, alone
  <2> HIDE DEF c
  <2> QED
    BY <1>4, <2>1 DEF DeleteCalls
<1> HIDE DEF c
<1>6. Names(c) \/ m = None
  BY <1>3, <1>5 DEF Names
<1>7. Begins(h, c)
  BY <1>1, <1>3, <1>5, <1>6 DEF Begins, Calls, WriteSteps, DeleteSteps, SearchSteps, Creating,
     Dropping, Writing
<1> QED
  BY <1>2, <1>7 DEF c

LEMMA SearchBegins ==
  ASSUME TypeOK, NEW h \in Handles, NEW i \in Indexes, NEW e \in Embeddings,
         NEW first \in {"count", "match"}, Search(h, i, e, first)
  PROVE  \E c : Begins(h, c) /\ Enters(h, c)
<1> DEFINE S(m) == [at |-> first, op |-> "search", index |-> i, embedding |-> e,
                    table |-> m.table, hits |-> NoRows, alone |-> Others(h) = {}]
<1>1. /\ MayOverlap(h, "search", i)
      /\ \E m \in Found(i) :
           Enters(h, IF m = None THEN Answered("ok")
                     ELSE IF m.embedding # e THEN Answered("mismatch") ELSE S(m))
  BY DEF Search
<1>2. PICK m \in Found(i) :
        Enters(h, IF m = None THEN Answered("ok")
                  ELSE IF m.embedding # e THEN Answered("mismatch") ELSE S(m))
  BY <1>1
<1>3. CASE m = None
  BY <1>2, <1>3, AnsweredBegins DEF Answers
<1>4. CASE m # None /\ m.embedding # e
  BY <1>2, <1>4, AnsweredBegins DEF Answers
<1>5. CASE m # None /\ m.embedding = e
  <2> DEFINE c == S(m)
             alone == (Others(h) = {})
  <2>1. m = meta[i] /\ m.table \in 1 .. MaxTables /\ alone \in BOOLEAN
    BY <1>5, FoundIs
  <2>2. NoRows \in [Keys -> Stored \cup {None}]
    BY DEF NoRows
  <2>3. /\ c \in SearchCalls /\ c.at = first /\ c.op = "search" /\ c.index = i
        /\ c.embedding = e /\ c.table = m.table /\ c.alone = alone
    <3> HIDE DEF alone
    <3>1. c = [at |-> first, op |-> "search", index |-> i, embedding |-> e,
               table |-> m.table, hits |-> NoRows, alone |-> alone]
      BY DEF alone
    <3> HIDE DEF c
    <3> QED
      BY <2>1, <2>2, <3>1 DEF SearchCalls
  <2>4. Enters(h, c)
    BY <1>2, <1>5
  <2> HIDE DEF c
  <2>5. Names(c) /\ meta[c.index].embedding = c.embedding
    BY <1>5, <2>1, <2>3 DEF Names
  <2>6. Begins(h, c)
    BY <1>1, <2>3, <2>5 DEF Begins, Calls, WriteSteps, DeleteSteps, SearchSteps, Creating,
       Dropping, Writing
  <2> QED
    BY <2>4, <2>6
<1> QED
  BY <1>3, <1>4, <1>5

LEMMA EnterBegins ==
  ASSUME TypeOK, NEW h \in Handles, Enter(h)
  PROVE  /\ Ready(h) /\ UNCHANGED <<meta, table, payload>>
         /\ \E c : Begins(h, c) /\ Enters(h, c)
<1>1. Ready(h) /\ UNCHANGED <<meta, table, payload>>
  BY DEF Enter, Upsert, Reindex, Delete, Search
<1>2. \E c : Begins(h, c) /\ Enters(h, c)
  BY UpsertBegins, ReindexBegins, DeleteBegins, SearchBegins DEF Enter
<1> QED
  BY <1>1, <1>2

\* When a call begins the others go on where they were, alone no longer.
Goes(c, d) ==
  /\ d.at = c.at
  /\ c.at # "idle" => d.op = c.op /\ d.index = c.index /\ d.table = c.table /\ d.alone = FALSE
  /\ c.at \in WriteSteps =>
       d.embedding = c.embedding /\ d.found = c.found /\ d.batch = c.batch /\ d.todo = c.todo
  /\ c.at \in DeleteSteps => d.key = c.key
  /\ c.at \in SearchSteps => d.embedding = c.embedding /\ d.hits = c.hits
  /\ c.at = "idle" => d = c

LEMMA EntersEffect ==
  ASSUME TypeOK, NEW h \in Handles, Ready(h), NEW c \in Calls, Enters(h, c)
  PROVE  /\ call' \in [Handles -> Calls] /\ call'[h] = c
         /\ \A g \in Handles \ {h} : Goes(call[g], call'[g])
<1>1. call \in [Handles -> Calls]
      /\ \A g \in Handles : call[g] \in Calls /\ (Ready(g) <=> call[g].at = "idle")
  BY CallTyped
<1>2. \A g \in Handles :
        call'[g] = IF g = h THEN c
                   ELSE IF Ready(g) THEN call[g] ELSE [call[g] EXCEPT !.alone = FALSE]
  BY DEF Enters
<1>3. \A g \in Handles \ {h} : call'[g] \in Calls /\ Goes(call[g], call'[g])
  <2> TAKE g \in Handles \ {h}
  <2>1. CASE Ready(g)
    <3>1. call'[g] = call[g] /\ call[g].at = "idle" /\ call[g] \in Calls
      BY <1>1, <1>2, <2>1
    <3> QED
      BY <3>1 DEF Goes, WriteSteps, DeleteSteps, SearchSteps, Creating, Dropping, Writing
  <2>2. CASE ~Ready(g)
    <3> DEFINE d == [call[g] EXCEPT !.alone = FALSE]
    <3>1. call'[g] = d /\ call[g].at # "idle" /\ call[g] \in Calls
      BY <1>1, <1>2, <2>2
    <3>2. /\ d \in Calls /\ d.at = call[g].at /\ d.op = call[g].op /\ d.index = call[g].index
          /\ d.table = call[g].table
          /\ call[g].at \in WriteSteps =>
               /\ d.embedding = call[g].embedding /\ d.found = call[g].found
               /\ d.batch = call[g].batch /\ d.todo = call[g].todo
          /\ call[g].at \in DeleteSteps => d.key = call[g].key
          /\ call[g].at \in SearchSteps => d.embedding = call[g].embedding /\ d.hits = call[g].hits
      BY <3>1, NotAlone
    <3>3. d.alone = FALSE
      BY <3>1, NotAlone
    <3> HIDE DEF d
    <3> QED
      BY <3>1, <3>2, <3>3 DEF Goes
  <2> QED
    BY <2>1, <2>2
<1>4. \A g \in Handles : call'[g] \in Calls
  BY <1>2, <1>3
<1>5. call' = [g \in Handles |-> call'[g]]
  BY DEF Enters
<1> QED
  BY <1>2, <1>3, <1>4, <1>5

LEMMA BeginsPlaced ==
  ASSUME TypeOK, NEW h \in Handles, NEW c, Begins(h, c) PROVE Placed(c)
<1>1. c \in Calls
  BY DEF Begins
<1>2. CASE c.at \in WriteSteps
  <2>1. /\ c.at \in {"allocate", "drop_table", "unkey"}
        /\ c.at \in {"drop_table", "unkey"} => Names(c)
        /\ c.at = "unkey" => c.todo # <<>> /\ Head(c.todo).length = c.embedding.dimension
    BY <1>2 DEF Begins
  <2>2. c.index \in Indexes
    BY <1>1, <1>2, CallKinds, CallFields
  <2>3. Names(c) => c.table \in 1 .. MaxTables
    BY <2>2 DEF Names, TypeOK, Metas
  <2> QED
    BY <2>1, <2>3 DEF Placed, Writing
<1>3. CASE c.at \in DeleteSteps
  <2>1. c.index \in Indexes
    BY <1>1, <1>3, CallKinds, CallFields
  <2>2. Names(c) => c.table \in 1 .. MaxTables
    BY <2>1 DEF Names, TypeOK, Metas
  <2>3. c.at = "delete_vector" => Names(c)
    BY <1>3 DEF Begins
  <2>4. c.at \in {"delete_vector", "delete_payload"}
    BY <1>3 DEF Begins
  <2> QED
    BY <2>2, <2>3, <2>4 DEF Placed, Writing, Begins, DeleteSteps
<1>4. CASE c.at \in {"idle"} \cup SearchSteps
  BY <1>4 DEF Placed, Writing, SearchSteps
<1> QED
  BY <1>1, <1>2, <1>3, <1>4, CallKinds

LEMMA EnterTyped == ASSUME TInv, NEW h \in Handles, Enter(h) PROVE TInv'
<1>1. Ready(h) /\ UNCHANGED <<meta, table, payload>> /\ \E c : Begins(h, c) /\ Enters(h, c)
  BY EnterBegins DEF TInv
<1>2. PICK c : Begins(h, c) /\ Enters(h, c)
  BY <1>1
<1>3. c \in Calls
  BY <1>2 DEF Begins
<1>4. /\ call' \in [Handles -> Calls] /\ call'[h] = c
      /\ \A g \in Handles \ {h} : Goes(call[g], call'[g])
  BY <1>1, <1>2, <1>3, EntersEffect DEF TInv
<1>5. TypeOK'
  BY <1>1, <1>4 DEF TypeOK, TInv, Calls
<1>6. \A g \in Handles : Placed(call'[g])
  <2>1. Placed(c)
    BY <1>2, BeginsPlaced DEF TInv
  <2>2. ASSUME NEW g \in Handles \ {h} PROVE Placed(call'[g])
    <3>1. Placed(call[g]) /\ Goes(call[g], call'[g])
      BY <1>4 DEF TInv
    <3> QED
      BY <3>1 DEF Placed, Goes, WriteSteps, Writing
  <2> QED
    BY <1>4, <2>1, <2>2
<1>7. NextRowid' = NextRowid
  BY <1>1 DEF NextRowid, Recorded
<1>8. Fits'
  <2>1. CASE c.at \in Creating
    <3>1. c.at \in WriteSteps
      BY <2>1 DEF WriteSteps
    <3>2. NextRowid + Cardinality(Others(h)) <= MaxTables
      BY <1>2, <3>1 DEF Begins, Room
    <3>3. Creators' \subseteq Others(h) \cup {h}
      BY <1>4, CallTyped DEF Creators, Others, Goes, Creating, Dropping, TInv
    <3>4. IsFiniteSet(Others(h)) /\ h \notin Others(h)
      BY VectorsAssumption, FS_Subset DEF Others
    <3>5. /\ IsFiniteSet(Others(h) \cup {h})
          /\ Cardinality(Others(h) \cup {h}) = Cardinality(Others(h)) + 1
      BY <3>4, FS_AddElement
    <3>6. Cardinality(Creators') <= Cardinality(Others(h)) + 1 /\ IsFiniteSet(Creators')
      BY <3>3, <3>5, FS_Subset
    <3>7. Cardinality(Others(h)) \in Nat /\ Cardinality(Creators') \in Nat
      BY <3>4, <3>6, FS_CardinalityType
    <3>8. NextRowid \in Nat /\ MaxTables \in Nat
      BY NextRowidIs, VectorsAssumption DEF RowidsBelow, TInv, TypeOK, MetaTyped
    <3> QED
      BY <1>7, <3>2, <3>6, <3>7, <3>8 DEF Fits
  <2>2. CASE c.at \notin Creating
    <3>1. Creators' \subseteq Creators
      BY <1>4, <2>2 DEF Creators, Goes
    <3>2. IsFiniteSet(Creators)
      BY VectorsAssumption, FS_Subset DEF Creators
    <3>3. Cardinality(Creators') <= Cardinality(Creators) /\ IsFiniteSet(Creators')
      BY <3>1, <3>2, FS_Subset
    <3>4. Cardinality(Creators) \in Nat /\ Cardinality(Creators') \in Nat
      BY <3>2, <3>3, FS_CardinalityType
    <3>5. NextRowid \in Nat /\ MaxTables \in Nat
      BY NextRowidIs, VectorsAssumption DEF RowidsBelow, TInv, TypeOK, MetaTyped
    <3> QED
      BY <1>7, <3>3, <3>4, <3>5 DEF Fits, TInv
  <2> QED
    BY <2>1, <2>2
<1> QED
  BY <1>5, <1>6, <1>8 DEF TInv, Placed

LEMMA TInvInit == Init => TInv
<1> SUFFICES ASSUME Init PROVE TInv
  OBVIOUS
<1>1. /\ meta = [i \in Indexes |-> None] /\ table = [n \in 1 .. MaxTables |-> None]
      /\ payload = [i \in Indexes |-> NoRows] /\ call = [h \in Handles |-> Answered("ok")]
  BY DEF Init
<1>2. \A h \in Handles : call[h] \in Idle /\ call[h].at = "idle"
  BY <1>1, CallFields DEF Answers
<1>3. TypeOK
  BY <1>1, <1>2 DEF TypeOK, NoRows
<1>4. \A h \in Handles : Placed(call[h])
  BY <1>2 DEF Placed, Writing
<1>5. Creators = {} /\ Cardinality(Creators) = 0
  BY <1>2, FS_EmptySet DEF Creators, Creating, Dropping
<1>6. NextRowid \in 1 .. MaxTables + 1
  BY <1>3, NextRowidIs DEF RowidsBelow, TypeOK, MetaTyped
<1>7. Fits
  BY <1>5, <1>6, VectorsAssumption DEF Fits
<1> QED
  BY <1>3, <1>4, <1>7 DEF TInv

LEMMA TInvStep == TInv /\ [Next]_vectorVars => TInv'
<1> SUFFICES ASSUME TInv, [Next]_vectorVars PROVE TInv'
  OBVIOUS
<1>1. ASSUME NEW h \in Handles, Enter(h) PROVE TInv'
  BY <1>1, EnterTyped
<1>2. ASSUME NEW h \in Handles, Continue(h) PROVE TInv'
  BY <1>2, DropTableTyped, DropValuesTyped, DropMetaTyped, AllocateTyped, RecordTyped,
     CreateTyped, UnkeyTyped, InsertTyped, SetPayloadTyped, DeleteVectorTyped,
     DeletePayloadTyped, CountTyped, MatchTyped, PayloadsTyped DEF Continue
<1>3. ASSUME NEW h \in Handles, Fail(h) PROVE TInv'
  BY <1>3, FailTyped
<1>4. CASE UNCHANGED vectorVars
  BY <1>4 DEF vectorVars, TInv, TypeOK, Fits, NextRowid, Recorded, Creators, Placed
<1> QED
  BY <1>1, <1>2, <1>3, <1>4 DEF Next

\* However calls overlap, whatever fails and whatever is misread, the indexes,
\* the tables and the calls are of their types: no call names a table that was
\* never given to it, and none outlives the vectors it was given.
THEOREM VectorsTyped == Spec => []TypeOK
<1>1. Spec => []TInv
  BY TInvInit, TInvStep, PTL DEF Spec
<1>2. TInv => TypeOK
  BY DEF TInv
<1> QED
  BY <1>1, <1>2, PTL

----------------------------------------------------------------------------
(* While calls that overlap are on one index and none is a reindex *)

\* The rows that searches of the indexes compare with.
Rooted ==
  \A i \in Recorded, k \in Keys :
    table[meta[i].table] # None /\ table[meta[i].table].rows[k] # None =>
      table[meta[i].table].rows[k].embedding = meta[i].embedding

LEMMA HomogeneousIs == Homogeneous <=> Rooted
<1>1. \A i \in Indexes, k \in Keys : NoRows[k] = None
  BY DEF NoRows
<1> QED
  BY <1>1 DEF Homogeneous, Rooted, Entries, Recorded

LEMMA HomogeneousNext == Homogeneous' <=> Rooted'
BY HomogeneousIs, PTL

\* A step of h leaves what other indexes than its own find.
Untouched(h) ==
  \A j \in Indexes :
    j # call[h].index => Entries'[j] = Entries[j] /\ payload'[j] = payload[j]

\* A step on the rows of the table of h, which its index names.
LEMMA TableSteps ==
  ASSUME HInv, NEW h \in Handles, Names(call[h]), call[h].index \in Indexes,
         UNCHANGED <<meta, payload>>, \A m \in 1 .. MaxTables \ {call[h].table} : table'[m] = table[m],
         \A k \in Keys :
           table'[call[h].table] # None /\ table'[call[h].table].rows[k] # None =>
             table'[call[h].table].rows[k].embedding = meta[call[h].index].embedding
  PROVE  OwnTables' /\ NoStrays' /\ Homogeneous' /\ Untouched(h)
<1>1. /\ meta \in [Indexes -> Metas \cup {None}]
      /\ \A j \in Recorded : meta[j].table \in 1 .. MaxTables
  BY DEF HInv, TInv, TypeOK, Metas, Recorded
<1>2. call[h].index \in Recorded /\ meta[call[h].index].table = call[h].table
  BY DEF Names, Recorded
<1>3. Recorded' = Recorded
  BY DEF Recorded
<1>4. OwnTables'
  BY <1>3 DEF OwnTables, HInv
<1>5. \A j \in Recorded : j # call[h].index => meta[j].table # call[h].table
  BY <1>2 DEF OwnTables, HInv
<1>6. NoStrays'
  <2>1. ASSUME NEW m \in 1 .. MaxTables, table'[m] # None
        PROVE  \E i \in Recorded : meta[i].table = m
    BY <1>2, <2>1 DEF HInv, NoStrays
  <2> QED
    BY <1>3, <2>1 DEF NoStrays, HInv
<1>7. Homogeneous'
  <2>1. Rooted
    BY HomogeneousIs DEF HInv
  <2>2. Rooted'
    BY <1>1, <1>2, <1>3, <1>5, <2>1 DEF Rooted
  <2> QED
    BY <2>2, HomogeneousNext
<1>8. Untouched(h)
  BY <1>1, <1>5 DEF Untouched, Entries, Recorded
<1> QED
  BY <1>4, <1>6, <1>7, <1>8

\* A step on the payloads of the index of h, or on none.
LEMMA PayloadSteps ==
  ASSUME HInv, NEW h \in Handles, UNCHANGED <<meta, table>>,
         \A j \in Indexes : j # call[h].index => payload'[j] = payload[j],
         \A j \in Indexes : meta[j] = None => payload'[j] = NoRows
  PROVE  OwnTables' /\ NoStrays' /\ Homogeneous' /\ Untouched(h)
<1>1. Recorded' = Recorded /\ Entries' = Entries
  BY DEF Recorded, Entries
<1> QED
  BY <1>1 DEF OwnTables, NoStrays, Homogeneous, Untouched, HInv

\* What others know while h does a step that is not on _index_meta.
LEMMA OthersCurrent ==
  ASSUME HInv, NEW h \in Handles, ~Ready(h), OthersStay(h), UNCHANGED meta
  PROVE  \A g \in Handles \ {h} : Current(call[g])'
<1> TAKE g \in Handles \ {h}
<1>1. Current(call[g]) /\ call'[g] = call[g] /\ NextRowid' = NextRowid
  BY DEF HInv, OthersStay, NextRowid, Recorded
<1>2. call[g].at \notin Dropping
  <2>1. Ready(g) \/ call[g].op # "reindex"
    BY DEF HInv, Disciplined
  <2>2. Ready(g) => call[g].at \notin Dropping
    BY DEF Ready, Dropping
  <2> QED
    BY <1>1, <2>1, <2>2 DEF Current
<1> QED
  BY <1>1, <1>2 DEF Current, Names, Dropping, Writing

\* A step of a call that is under way.
LEMMA DisciplinedStep ==
  ASSUME HInv, TInv', NEW h \in Handles, ~Ready(h), OthersStay(h),
         \/ call'[h].at = "idle"
         \/ call'[h].index = call[h].index /\ call'[h].op = call[h].op,
         OwnTables', NoStrays', Homogeneous', Current(call[h])',
         UNCHANGED meta \/ \A g \in Handles \ {h} : Current(call[g])'
  PROVE  HInv'
<1>1. Disciplined'
  <2>1. \A g \in Handles \ {h} : call'[g] = call[g]
    BY DEF OthersStay
  <2> QED
    BY <2>1 DEF HInv, Disciplined, Ready
<1>2. \A g \in Handles \ {h} : Current(call[g])'
  BY OthersCurrent
<1>3. \A g \in Handles : Current(call[g])'
  BY <1>2
<1> QED
  BY <1>1, <1>3 DEF HInv

\* A call under way that answers has nothing left to know.
LEMMA IdleCurrent ==
  ASSUME NEW h \in Handles, call'[h].at \in {"idle", "allocate", "delete_payload"}
  PROVE  Current(call[h])'
BY DEF Current, Dropping, Writing

\* A call answers, and leaves the store as it is.
LEMMA AnswerDisciplined ==
  ASSUME HInv, TInv', NEW h \in Handles, ~Ready(h), NEW a \in Answers, Answer(h, a),
         UNCHANGED <<meta, table, payload>>
  PROVE  HInv' /\ Untouched(h)
<1>1. call'[h].at = "idle" /\ OthersStay(h)
  BY AnswerEffect DEF HInv, TInv
<1>2. OwnTables' /\ NoStrays' /\ Homogeneous' /\ Untouched(h)
  BY PayloadSteps DEF HInv, NoStrays
<1> QED
  BY <1>1, <1>2, IdleCurrent, DisciplinedStep

LEMMA DropTableDisciplined ==
  ASSUME HInv, TInv', NEW h \in Handles, DropTable(h) PROVE HInv' /\ Untouched(h)
<1>1. call[h].at = "drop_table" /\ GoTo(h, "drop_values")
      /\ table' = [table EXCEPT ![call[h].table] = None] /\ UNCHANGED <<meta, payload>>
  BY DEF DropTable, At
<1>2. call[h].at \in WriteSteps /\ "drop_values" \in WriteSteps
      /\ call[h].at \in Dropping /\ ~Ready(h)
  BY <1>1 DEF WriteSteps, Creating, Dropping, Ready
<1>3. /\ SameWrite(call[h], call'[h]) /\ call'[h].at = "drop_values"
      /\ call'[h].table = call[h].table /\ OthersStay(h)
  BY <1>1, <1>2, GoToEffect DEF HInv, TInv
<1>4. call[h].op = "reindex" /\ Names(call[h])
  BY <1>2 DEF HInv, Current
<1>5. call[h].table \in 1 .. MaxTables /\ call[h].index \in Indexes
      /\ table \in [1 .. MaxTables -> Tables \cup {None}]
  BY <1>1, <1>2, Underway DEF HInv
<1>6. table'[call[h].table] = None /\ \A m \in 1 .. MaxTables \ {call[h].table} : table'[m] = table[m]
  BY <1>1, <1>5
<1>7. OwnTables' /\ NoStrays' /\ Homogeneous' /\ Untouched(h)
  BY <1>1, <1>4, <1>5, <1>6, TableSteps
<1>8. Current(call[h])'
  BY <1>1, <1>3, <1>4, <1>6 DEF Current, Names, SameWrite, Dropping, Writing
<1> QED
  BY <1>1, <1>2, <1>3, <1>7, <1>8, DisciplinedStep DEF SameWrite

LEMMA DropValuesDisciplined ==
  ASSUME HInv, TInv', NEW h \in Handles, DropValues(h) PROVE HInv' /\ Untouched(h)
<1>1. call[h].at = "drop_values" /\ GoTo(h, "drop_meta")
      /\ payload' = [payload EXCEPT ![call[h].index] = NoRows] /\ UNCHANGED <<meta, table>>
  BY DEF DropValues, At
<1>2. call[h].at \in WriteSteps /\ "drop_meta" \in WriteSteps
      /\ call[h].at \in Dropping /\ ~Ready(h)
  BY <1>1 DEF WriteSteps, Creating, Dropping, Ready
<1>3. /\ SameWrite(call[h], call'[h]) /\ call'[h].at = "drop_meta"
      /\ call'[h].table = call[h].table /\ OthersStay(h)
  BY <1>1, <1>2, GoToEffect DEF HInv, TInv
<1>4. call[h].op = "reindex" /\ Names(call[h]) /\ table[call[h].table] = None
  BY <1>1, <1>2 DEF HInv, Current
<1>5. call[h].index \in Indexes /\ payload \in [Indexes -> [Keys -> Values \cup {None}]]
  BY <1>2, Underway DEF HInv
<1>6. payload'[call[h].index] = NoRows
      /\ \A j \in Indexes : j # call[h].index => payload'[j] = payload[j]
  BY <1>1, <1>5
<1>7. OwnTables' /\ NoStrays' /\ Homogeneous' /\ Untouched(h)
  BY <1>1, <1>6, PayloadSteps DEF HInv, NoStrays
<1>8. Current(call[h])'
  BY <1>1, <1>3, <1>4, <1>6 DEF Current, Names, SameWrite, Dropping, Writing
<1> QED
  BY <1>1, <1>2, <1>3, <1>7, <1>8, DisciplinedStep DEF SameWrite

\* Beside a reindex no other call is under way.
LEMMA ReindexAlone ==
  ASSUME HInv, NEW h \in Handles, ~Ready(h), call[h].op = "reindex"
  PROVE  \A g \in Handles \ {h} : Ready(g)
BY DEF HInv, Disciplined

LEMMA DropMetaDisciplined ==
  ASSUME HInv, TInv', NEW h \in Handles, DropMeta(h) PROVE HInv' /\ Untouched(h)
<1> DEFINE i == call[h].index
<1>1. call[h].at = "drop_meta" /\ GoTo(h, "allocate")
      /\ meta' = [meta EXCEPT ![i] = None] /\ UNCHANGED <<table, payload>>
  BY DEF DropMeta, At
<1>2. call[h].at \in WriteSteps /\ "allocate" \in WriteSteps
      /\ call[h].at \in Dropping /\ ~Ready(h)
  BY <1>1 DEF WriteSteps, Creating, Dropping, Ready
<1>3. SameWrite(call[h], call'[h]) /\ call'[h].at = "allocate" /\ OthersStay(h)
  BY <1>1, <1>2, GoToEffect DEF HInv, TInv
<1>4. /\ call[h].op = "reindex" /\ Names(call[h]) /\ table[call[h].table] = None
      /\ payload[i] = NoRows
  BY <1>1, <1>2 DEF HInv, Current
<1>5. i \in Indexes /\ meta \in [Indexes -> Metas \cup {None}]
  BY <1>2, Underway DEF HInv
<1>6. /\ Recorded' = Recorded \ {i} /\ meta'[i] = None
      /\ \A j \in Indexes \ {i} : meta'[j] = meta[j]
  BY <1>1, <1>5 DEF Recorded
<1> HIDE DEF i
<1>7. OwnTables'
  BY <1>6 DEF OwnTables, Recorded, HInv
<1>8. NoStrays'
  <2>1. ASSUME NEW m \in 1 .. MaxTables, table'[m] # None
        PROVE  \E j \in Recorded' : meta'[j].table = m
    <3>1. PICK j \in Recorded : meta[j].table = m
      BY <1>1, <2>1 DEF HInv, NoStrays
    <3>2. j # i
      BY <1>1, <1>4, <2>1, <3>1 DEF Names, i
    <3> QED
      BY <1>6, <3>1, <3>2 DEF Recorded
  <2>2. \A j \in Indexes : meta'[j] = None => payload'[j] = NoRows
    BY <1>1, <1>4, <1>6 DEF HInv, NoStrays
  <2> QED
    BY <2>1, <2>2 DEF NoStrays
<1>9. Homogeneous'
  <2>1. Rooted
    BY HomogeneousIs DEF HInv
  <2>2. Rooted'
    BY <1>1, <1>6, <2>1 DEF Rooted, Recorded
  <2> QED
    BY <2>2, HomogeneousNext
<1>10. Untouched(h)
  BY <1>1, <1>6 DEF Untouched, Entries, i
<1>11. \A g \in Handles \ {h} : Current(call[g])'
  <2> TAKE g \in Handles \ {h}
  <2>1. call'[g].at = "idle"
    BY <1>2, <1>3, <1>4, ReindexAlone DEF OthersStay, Ready
  <2> QED
    BY <2>1, IdleCurrent
<1> QED
  BY <1>2, <1>3, <1>7, <1>8, <1>9, <1>10, <1>11, IdleCurrent, DisciplinedStep DEF SameWrite

LEMMA AllocateDisciplined ==
  ASSUME HInv, TInv', NEW h \in Handles, Allocate(h) PROVE HInv' /\ Untouched(h)
<1>1. call[h].at = "allocate" /\ UNCHANGED <<meta, table, payload>> /\ ~Ready(h)
  BY DEF Allocate, At, Ready
<1>2. /\ SameWrite(call[h], call'[h]) /\ call'[h].at = "record"
      /\ call'[h].table = NextRowid /\ OthersStay(h)
  BY AllocateEffect DEF HInv
<1>3. NextRowid' = NextRowid
  BY <1>1 DEF NextRowid, Recorded
<1>4. Current(call[h])'
  BY <1>2, <1>3 DEF Current, Dropping, Writing
<1>5. OwnTables' /\ NoStrays' /\ Homogeneous' /\ Untouched(h)
  BY <1>1, PayloadSteps DEF HInv, NoStrays
<1> QED
  BY <1>1, <1>2, <1>4, <1>5, DisciplinedStep DEF SameWrite

\* An index about to be recorded has a number no table has, and no payload.
LEMMA FreshTable ==
  ASSUME HInv, NEW h \in Handles, call[h].at = "record", meta[call[h].index] = None
  PROVE  /\ call[h].index \in Indexes /\ call[h].table \in 1 .. MaxTables
         /\ call[h].table = NextRowid /\ payload[call[h].index] = NoRows
         /\ \A j \in Recorded : j # call[h].index /\ meta[j].table # call[h].table
         /\ table[call[h].table] = None
<1>1. call[h].at \in WriteSteps
  BY DEF WriteSteps, Creating
<1>2. call[h].index \in Indexes /\ call[h].table \in 1 .. MaxTables
  BY <1>1, Underway DEF HInv
<1>3. call[h].table = NextRowid
  BY DEF HInv, Current
<1>4. payload[call[h].index] = NoRows
  BY <1>2 DEF HInv, NoStrays
<1>5. \A j \in Recorded : meta[j].rowid \in Nat /\ meta[j].rowid < call[h].table
  BY <1>3, NextRowidIs, VectorsAssumption DEF RowidsBelow, MetaTyped, HInv, TInv, TypeOK
<1>6. \A j \in Recorded : j # call[h].index /\ meta[j].table # call[h].table
  BY <1>2, <1>5 DEF OwnTables, HInv, Recorded
<1>7. table[call[h].table] = None
  BY <1>2, <1>6 DEF NoStrays, HInv
<1> QED
  BY <1>2, <1>3, <1>4, <1>6, <1>7

LEMMA RecordDisciplined ==
  ASSUME HInv, TInv', NEW h \in Handles, Record(h) PROVE HInv' /\ Untouched(h)
<1> DEFINE i == call[h].index
           n == call[h].table
<1>1. call[h].at = "record" /\ OthersStay(h) /\ UNCHANGED <<table, payload>> /\ ~Ready(h)
  BY RecordEffect DEF HInv, Ready
<1>2. CASE meta[i] # None
  <2>1. Answer(h, "error") /\ UNCHANGED meta
    BY <1>2 DEF Record
  <2> QED
    BY <1>1, <2>1, AnswerDisciplined DEF Answers
<1>3. CASE meta[i] = None
  <2>1. /\ meta' = [meta EXCEPT ![i] = RowFor(h)]
        /\ RowFor(h) \in Metas /\ RowFor(h).rowid = NextRowid
        /\ RowFor(h).table = n /\ RowFor(h).embedding = call[h].embedding
        /\ SameWrite(call[h], call'[h]) /\ call'[h].at = "create" /\ call'[h].table = n
    BY <1>3, RecordEffect DEF HInv
  <2>2. n = NextRowid /\ payload[i] = NoRows
    BY <1>1, <1>3, FreshTable
  <2>3. call[h].at \in WriteSteps
    BY <1>1 DEF WriteSteps, Creating
  <2>4. i \in Indexes /\ n \in 1 .. MaxTables /\ meta \in [Indexes -> Metas \cup {None}]
    BY <1>1, <2>3, Underway DEF HInv
  <2>5. /\ meta'[i] = RowFor(h) /\ RowFor(h) # None /\ Recorded' = Recorded \cup {i}
        /\ \A j \in Indexes \ {i} : meta'[j] = meta[j]
    BY <2>1, <2>4, Nothing DEF Recorded
  <2>7. \A j \in Recorded : j # i /\ meta[j].table # n
    BY <1>1, <1>3, FreshTable
  <2>8. table[n] = None
    BY <1>1, <1>3, FreshTable
  <2> HIDE DEF i, n
  <2>9. OwnTables'
    <3>1. ASSUME NEW j \in Recorded' PROVE meta'[j].rowid = meta'[j].table
      BY <2>1, <2>2, <2>5, <3>1 DEF OwnTables, HInv, Recorded
    <3>2. ASSUME NEW j \in Recorded', NEW l \in Recorded' \ {j}
          PROVE  meta'[l].table # meta'[j].table
      BY <2>1, <2>5, <2>7, <3>2 DEF OwnTables, HInv, Recorded
    <3> QED
      BY <3>1, <3>2 DEF OwnTables
  <2>10. NoStrays'
    BY <1>1, <2>5, <2>7 DEF NoStrays, HInv, Recorded
  <2>11. Homogeneous'
    <3>1. Rooted
      BY HomogeneousIs DEF HInv
    <3>2. Rooted'
      BY <1>1, <2>1, <2>5, <2>8, <3>1 DEF Rooted, Recorded
    <3> QED
      BY <3>2, HomogeneousNext
  <2>12. Untouched(h)
    BY <1>1, <2>5 DEF Untouched, Entries, i
  <2>13. Current(call[h])'
    BY <2>1, <2>5 DEF Current, Names, SameWrite, Dropping, Writing, i
  <2>14. ASSUME NEW g \in Handles \ {h} PROVE Current(call[g])'
    <3>1. Ready(g) \/ call[g].index = i
      BY <1>1 DEF HInv, Disciplined, i
    <3>2. call'[g] = call[g]
      BY <1>1 DEF OthersStay
    <3>3. CASE Ready(g)
      BY <3>2, <3>3, IdleCurrent DEF Ready
    <3>4. CASE call[g].index = i
      <4>1. Current(call[g])
        BY DEF HInv
      <4>2. ~Names(call[g])
        BY <1>3, <3>4 DEF Names, i
      <4>3. meta'[call[g].index] # None
        BY <2>5, <3>4
      <4>4. /\ call[g].at \notin Dropping \cup {"create", "count", "match", "delete_vector"} \cup Writing
            /\ call[g].at = "payloads" =>
                 \A k \in Keys : call[g].hits[k] # None => call[g].hits[k].embedding = call[g].embedding
        BY <4>1, <4>2 DEF Current
      <4> QED
        BY <3>2, <4>3, <4>4 DEF Current, Dropping, Writing
    <3> QED
      BY <3>1, <3>3, <3>4
  <2> QED
    BY <1>1, <2>1, <2>9, <2>10, <2>11, <2>12, <2>13, <2>14, DisciplinedStep DEF SameWrite
<1> QED
  BY <1>2, <1>3

\* A write that goes on, on the table and the embedding it had.
LEMMA WritingCurrent ==
  ASSUME HInv, NEW h \in Handles, call[h].at \in {"create"} \cup Writing, UNCHANGED meta,
         call'[h].at \in Writing, call'[h].index = call[h].index,
         call'[h].table = call[h].table, call'[h].embedding = call[h].embedding
  PROVE  Current(call[h])'
<1>1. Names(call[h]) /\ meta[call[h].index].embedding = call[h].embedding
  BY DEF HInv, Current
<1> QED
  BY <1>1 DEF Current, Names, Dropping, Writing

LEMMA CreateDisciplined ==
  ASSUME HInv, TInv', NEW h \in Handles, Create(h) PROVE HInv' /\ Untouched(h)
<1> DEFINE n == call[h].table
           t == [dimension |-> call[h].embedding.dimension, rows |-> NoRows]
<1>1. /\ call[h].at = "create" /\ call' = [call EXCEPT ![h] = WriteNext(call[h])]
      /\ table' = [table EXCEPT ![n] = IF table[n] = None THEN t ELSE table[n]]
      /\ UNCHANGED <<meta, payload>>
  <2>1. call' = [call EXCEPT ![h] = WriteNext(@)] /\ h \in DOMAIN call
    BY DEF Create, HInv, TInv, TypeOK
  <2>2. /\ call[h].at = "create" /\ UNCHANGED <<meta, payload>>
        /\ table' = [table EXCEPT ![n] = IF table[n] = None THEN t ELSE table[n]]
    BY DEF Create, At
  <2> QED
    BY <2>1, <2>2
<1>2. call[h].at \in WriteSteps \ Creating /\ ~Ready(h)
  BY <1>1 DEF WriteSteps, Creating, Dropping, Ready
<1>3. /\ OthersStay(h)
      /\ \/ call'[h].at = "idle"
         \/ SameWrite(call[h], call'[h]) /\ call'[h].at = "unkey" /\ call'[h].table = n
  BY <1>1, <1>2, Underway, WritesOn DEF HInv
<1>4. /\ n \in 1 .. MaxTables /\ call[h].index \in Indexes
      /\ table \in [1 .. MaxTables -> Tables \cup {None}]
  BY <1>1, <1>2, Underway DEF HInv
<1>5. Names(call[h])
  BY <1>1 DEF HInv, Current
<1>6. \A m \in 1 .. MaxTables \ {n} : table'[m] = table[m]
  BY <1>1, <1>4
<1>7. \A k \in Keys : table'[n] # None /\ table'[n].rows[k] # None =>
        table'[n].rows[k].embedding = meta[call[h].index].embedding
  <2>1. CASE table[n] = None
    <3>1. table'[n] = t /\ t.rows = NoRows /\ \A k \in Keys : NoRows[k] = None
      BY <1>1, <1>4, <2>1, Nothing
    <3> QED
      BY <3>1
  <2>2. CASE table[n] # None
    <3>1. table'[n] = table[n]
      BY <1>1, <1>4, <2>2
    <3>2. Rooted
      BY HomogeneousIs DEF HInv
    <3> QED
      BY <1>4, <1>5, <3>1, <3>2 DEF Rooted, Names, Recorded
  <2> QED
    BY <2>1, <2>2
<1>8. OwnTables' /\ NoStrays' /\ Homogeneous' /\ Untouched(h)
  BY <1>1, <1>4, <1>5, <1>6, <1>7, TableSteps
<1>9. Current(call[h])'
  BY <1>1, <1>3, IdleCurrent, WritingCurrent DEF SameWrite, Writing
<1> QED
  BY <1>1, <1>2, <1>3, <1>8, <1>9, DisciplinedStep DEF SameWrite

\* A row that is written under the embedding of its index keeps it homogeneous.
LEMMA RowStep ==
  ASSUME HInv, NEW h \in Handles, Names(call[h]), call[h].index \in Indexes,
         call[h].table \in 1 .. MaxTables, table[call[h].table] # None,
         NEW k \in Keys, NEW r \in Stored \cup {None},
         r # None => r.embedding = meta[call[h].index].embedding,
         table' = [table EXCEPT ![call[h].table].rows[k] = r], UNCHANGED <<meta, payload>>
  PROVE  OwnTables' /\ NoStrays' /\ Homogeneous' /\ Untouched(h)
<1> DEFINE n == call[h].table
<1>1. table \in [1 .. MaxTables -> Tables \cup {None}]
  BY DEF HInv, TInv, TypeOK
<1> DEFINE U == PutRow(table, n, k, r)
<1>5. n \in 1 .. MaxTables /\ table[n] # None /\ table' = U
  BY DEF PutRow
<1>6. /\ \A m \in 1 .. MaxTables \ {n} : U[m] = table[m]
      /\ U[n].rows[k] = r /\ \A j \in Keys \ {k} : U[n].rows[j] = table[n].rows[j]
  <2>1. n \in 1 .. MaxTables /\ table[n] # None /\ k \in Keys /\ r \in Stored \cup {None}
    BY <1>5
  <2> HIDE DEF n
  <2>2. WithRow(table, U, n, k, r)
    BY <1>1, <2>1, RowPut
  <2> QED
    BY <2>2 DEF WithRow
<1> HIDE DEF U
<1>2. /\ \A m \in 1 .. MaxTables \ {n} : table'[m] = table[m]
      /\ table'[n].rows[k] = r /\ \A j \in Keys \ {k} : table'[n].rows[j] = table[n].rows[j]
  BY <1>5, <1>6
<1>3. Rooted
  BY HomogeneousIs DEF HInv
<1>4. \A j \in Keys : table'[n] # None /\ table'[n].rows[j] # None =>
        table'[n].rows[j].embedding = meta[call[h].index].embedding
  BY <1>2, <1>3 DEF Rooted, Names, Recorded
<1> HIDE DEF n
<1> QED
  BY <1>2, <1>4, TableSteps DEF n

LEMMA UnkeyDisciplined ==
  ASSUME HInv, TInv', NEW h \in Handles, Unkey(h) PROVE HInv' /\ Untouched(h)
<1>1. call[h].at = "unkey" /\ UNCHANGED <<meta, payload>> /\ ~Ready(h)
  BY DEF Unkey, At, Ready
<1>2. CASE Answer(h, "error") /\ UNCHANGED table
  BY <1>1, <1>2, AnswerDisciplined DEF Answers
<1>3. CASE /\ table[call[h].table] # None /\ GoTo(h, "insert")
           /\ table' = [table EXCEPT ![call[h].table].rows[Item(h).key] = None]
  <2>1. call[h].at \in WriteSteps /\ "insert" \in WriteSteps /\ call[h].at \in Writing
    BY <1>1 DEF WriteSteps, Writing
  <2>2. /\ SameWrite(call[h], call'[h]) /\ call'[h].at = "insert"
        /\ call'[h].table = call[h].table /\ OthersStay(h)
    BY <1>3, <2>1, GoToEffect DEF HInv, TInv
  <2>3. call[h].table \in 1 .. MaxTables /\ call[h].index \in Indexes /\ Item(h).key \in Keys
    BY <2>1, Underway DEF HInv
  <2>4. Names(call[h]) /\ None \in Stored \cup {None}
    BY <2>1 DEF HInv, Current
  <2>5. OwnTables' /\ NoStrays' /\ Homogeneous' /\ Untouched(h)
    BY <1>1, <1>3, <2>3, <2>4, RowStep
  <2>6. Current(call[h])'
    BY <1>1, <2>1, <2>2, WritingCurrent DEF SameWrite, Writing
  <2> QED
    BY <1>1, <2>2, <2>5, <2>6, DisciplinedStep DEF SameWrite
<1> QED
  BY <1>2, <1>3 DEF Unkey

LEMMA InsertDisciplined ==
  ASSUME HInv, TInv', NEW h \in Handles, Insert(h) PROVE HInv' /\ Untouched(h)
<1> DEFINE r == [embedding |-> call[h].embedding, value |-> Item(h).value]
<1>1. call[h].at = "insert" /\ UNCHANGED <<meta, payload>> /\ ~Ready(h)
  BY DEF Insert, At, Ready
<1>2. CASE Answer(h, "error") /\ UNCHANGED table
  BY <1>1, <1>2, AnswerDisciplined DEF Answers
<1>3. CASE /\ table[call[h].table] # None /\ GoTo(h, "payload")
           /\ table' = [table EXCEPT ![call[h].table].rows[Item(h).key] = r]
  <2>1. call[h].at \in WriteSteps /\ "payload" \in WriteSteps /\ call[h].at \in Writing
    BY <1>1 DEF WriteSteps, Writing
  <2>2. /\ SameWrite(call[h], call'[h]) /\ call'[h].at = "payload"
        /\ call'[h].table = call[h].table /\ OthersStay(h)
    BY <1>3, <2>1, GoToEffect DEF HInv, TInv
  <2>3. call[h].table \in 1 .. MaxTables /\ call[h].index \in Indexes /\ Item(h).key \in Keys
    BY <2>1, Underway DEF HInv
  <2>4. r \in Stored /\ r.embedding = call[h].embedding
    BY <2>1, Underway DEF Stored, HInv
  <2>5. Names(call[h]) /\ meta[call[h].index].embedding = call[h].embedding
    BY <2>1 DEF HInv, Current
  <2>6. OwnTables' /\ NoStrays' /\ Homogeneous' /\ Untouched(h)
    <3> HIDE DEF r
    <3> QED
      BY <1>1, <1>3, <2>3, <2>4, <2>5, RowStep
  <2>7. Current(call[h])'
    BY <1>1, <2>1, <2>2, WritingCurrent DEF SameWrite, Writing
  <2> QED
    BY <1>1, <2>2, <2>6, <2>7, DisciplinedStep DEF SameWrite
<1> QED
  BY <1>2, <1>3 DEF Insert, Takes

LEMMA SetPayloadDisciplined ==
  ASSUME HInv, TInv', NEW h \in Handles, SetPayload(h) PROVE HInv' /\ Untouched(h)
<1>1. /\ call[h].at = "payload" /\ UNCHANGED <<meta, table>>
      /\ payload' = [payload EXCEPT ![call[h].index][Item(h).key] = Item(h).value]
      /\ call' = [call EXCEPT ![h] = WriteNext(Written(h))]
      /\ SameWrite(call[h], Written(h)) /\ Written(h).table = call[h].table
  BY SetPayloadEffect DEF HInv
<1>2. call[h].at \in WriteSteps \ Creating /\ call[h].at \in Writing /\ ~Ready(h)
  BY <1>1 DEF WriteSteps, Creating, Dropping, Writing, Ready
<1>3. /\ OthersStay(h)
      /\ \/ call'[h].at = "idle"
         \/ /\ SameWrite(Written(h), call'[h]) /\ call'[h].at = "unkey"
            /\ call'[h].table = Written(h).table
  BY <1>1, <1>2, WritesOn DEF SameWrite, HInv
<1>4. /\ call[h].index \in Indexes /\ Item(h).key \in Keys /\ Item(h).value \in Values
      /\ payload \in [Indexes -> [Keys -> Values \cup {None}]]
  BY <1>2, Underway DEF HInv
<1>5. meta[call[h].index] # None
  BY <1>2 DEF HInv, Current, Names
<1>6. \A j \in Indexes : j # call[h].index => payload'[j] = payload[j]
  BY <1>1, <1>4
<1>7. \A j \in Indexes : meta[j] = None => payload'[j] = NoRows
  BY <1>5, <1>6 DEF HInv, NoStrays
<1>8. OwnTables' /\ NoStrays' /\ Homogeneous' /\ Untouched(h)
  BY <1>1, <1>6, <1>7, PayloadSteps
<1>9. CASE call'[h].at = "idle"
  BY <1>1, <1>2, <1>3, <1>8, <1>9, IdleCurrent, DisciplinedStep
<1>10. CASE /\ SameWrite(Written(h), call'[h]) /\ call'[h].at = "unkey"
            /\ call'[h].table = Written(h).table
  <2>1. /\ call'[h].index = call[h].index /\ call'[h].op = call[h].op
        /\ call'[h].embedding = call[h].embedding /\ call'[h].table = call[h].table
    BY <1>1, <1>10 DEF SameWrite
  <2>2. Current(call[h])'
    BY <1>1, <1>2, <1>10, <2>1, WritingCurrent DEF Writing
  <2> QED
    BY <1>1, <1>2, <1>3, <1>8, <2>1, <2>2, DisciplinedStep
<1> QED
  BY <1>3, <1>9, <1>10

LEMMA DeleteVectorDisciplined ==
  ASSUME HInv, TInv', NEW h \in Handles, DeleteVector(h) PROVE HInv' /\ Untouched(h)
<1>1. At(h, "delete_vector") /\ UNCHANGED <<meta, payload>> /\ ~Ready(h)
  BY DEF DeleteVector, At, Ready
<1>2. CASE Answer(h, "error") /\ UNCHANGED table
  BY <1>1, <1>2, AnswerDisciplined DEF Answers
<1>3. CASE /\ table[call[h].table] # None /\ GoTo(h, "delete_payload")
           /\ table' = [table EXCEPT ![call[h].table].rows[call[h].key] = None]
  <2>1. /\ call[h].at = "delete_vector" /\ call[h].index \in Indexes /\ call[h].key \in Keys
        /\ call[h].table \in 1 .. MaxTables
        /\ OthersStay(h) /\ call'[h].at = "delete_payload" /\ call'[h].op = "delete"
        /\ call'[h].index = call[h].index /\ call[h] \in DeleteCalls
    BY <1>1, <1>3, DeleteGoes DEF HInv
  <2>2. Names(call[h]) /\ None \in Stored \cup {None}
    BY <2>1 DEF HInv, Current
  <2>3. OwnTables' /\ NoStrays' /\ Homogeneous' /\ Untouched(h)
    BY <1>1, <1>3, <2>1, <2>2, RowStep
  <2>4. call[h].op = "delete"
    BY <2>1, CallFields
  <2> QED
    BY <1>1, <2>1, <2>3, <2>4, IdleCurrent, DisciplinedStep
<1> QED
  BY <1>2, <1>3 DEF DeleteVector

LEMMA DeletePayloadDisciplined ==
  ASSUME HInv, TInv', NEW h \in Handles, DeletePayload(h) PROVE HInv' /\ Untouched(h)
<1> DEFINE i == call[h].index
           k == call[h].key
<1>1. /\ call[h].at = "delete_payload" /\ Answer(h, "ok") /\ UNCHANGED <<meta, table>>
      /\ \/ payload' = [payload EXCEPT ![i][k] = None]
         \/ UNCHANGED payload
  BY DEF DeletePayload, At
<1>2. payload \in [Indexes -> [Keys -> Values \cup {None}]] /\ ~Ready(h)
  BY <1>1 DEF HInv, TInv, TypeOK, Ready
<1>3. call[h] \in DeleteCalls
  BY <1>1, CallTyped, CallKinds DEF DeleteSteps, HInv, TInv
<1>4. i \in Indexes /\ k \in Keys
  BY <1>3, CallFields
<1> HIDE DEF i, k
<1>5. \A j \in Indexes : j # i => payload'[j] = payload[j]
  BY <1>1, <1>2, <1>4
<1>6. payload[i] = NoRows => payload'[i] = NoRows
  BY <1>1, <1>2, <1>4 DEF NoRows
<1>7. \A j \in Indexes : meta[j] = None => payload'[j] = NoRows
  BY <1>4, <1>5, <1>6 DEF HInv, NoStrays
<1>8. OwnTables' /\ NoStrays' /\ Homogeneous' /\ Untouched(h)
  BY <1>1, <1>5, <1>7, PayloadSteps DEF i
<1>9. call'[h].at = "idle" /\ OthersStay(h)
  BY <1>1, AnswerEffect DEF Answers, HInv, TInv
<1> QED
  BY <1>1, <1>2, <1>8, <1>9, IdleCurrent, DisciplinedStep

LEMMA CountDisciplined ==
  ASSUME HInv, TInv', NEW h \in Handles, Count(h) PROVE HInv' /\ Untouched(h)
<1>1. UNCHANGED <<meta, table, payload>> /\ call[h].at = "count" /\ ~Ready(h)
  BY DEF Count, At, Ready
<1>2. CASE Answer(h, "ok")
  BY <1>1, <1>2, AnswerDisciplined DEF Answers
<1>3. CASE GoTo(h, "match")
  <2>1. /\ OthersStay(h) /\ call'[h].at = "match" /\ call'[h].op = "search"
        /\ call'[h].index = call[h].index /\ call'[h].table = call[h].table
        /\ call'[h].embedding = call[h].embedding /\ call[h] \in SearchCalls
    BY <1>1, <1>3, SearchGoes DEF HInv
  <2>2. call[h].op = "search"
    BY <2>1, CallFields
  <2>3. Names(call[h]) /\ meta[call[h].index].embedding = call[h].embedding
    BY <1>1 DEF HInv, Current
  <2>4. Current(call[h])'
    BY <1>1, <2>1, <2>3 DEF Current, Names, Dropping, Writing
  <2>5. OwnTables' /\ NoStrays' /\ Homogeneous' /\ Untouched(h)
    BY <1>1, PayloadSteps DEF HInv, NoStrays
  <2> QED
    BY <1>1, <2>1, <2>2, <2>4, <2>5, DisciplinedStep
<1> QED
  BY <1>2, <1>3 DEF Count

LEMMA MatchDisciplined ==
  ASSUME HInv, TInv', NEW h \in Handles, Match(h) PROVE HInv' /\ Untouched(h)
<1>1. UNCHANGED <<meta, table, payload>> /\ call[h].at = "match" /\ ~Ready(h)
  BY MatchEffect DEF HInv, Ready
<1>2. CASE Answer(h, "error")
  BY <1>1, <1>2, AnswerDisciplined DEF Answers
<1>3. ASSUME NEW hits \in [Keys -> Stored \cup {None}], Matched(h, hits),
             call' = [call EXCEPT ![h].at = "payloads", ![h].hits = hits]
      PROVE  HInv' /\ Untouched(h)
  <2>1. /\ OthersStay(h) /\ call'[h].at = "payloads" /\ call'[h].op = "search"
        /\ call'[h].index = call[h].index /\ call'[h].hits = hits
        /\ call'[h].embedding = call[h].embedding
    BY <1>1, <1>3, SearchGoes DEF HInv
  <2>2. call[h] \in SearchCalls /\ call[h].op = "search" /\ call[h].index \in Indexes
    BY <1>1, SearchGoes, CallFields DEF HInv
  <2>3. Names(call[h]) /\ meta[call[h].index].embedding = call[h].embedding
    BY <1>1 DEF HInv, Current
  <2>4. Rooted
    BY HomogeneousIs DEF HInv
  <2>5. \A k \in Keys : hits[k] # None => hits[k].embedding = call[h].embedding
    BY <1>3, <2>2, <2>3, <2>4 DEF Rooted, Names, Recorded, Matched
  <2>6. Current(call[h])'
    BY <2>1, <2>5 DEF Current, Dropping, Writing
  <2>7. OwnTables' /\ NoStrays' /\ Homogeneous' /\ Untouched(h)
    BY <1>1, PayloadSteps DEF HInv, NoStrays
  <2> QED
    BY <1>1, <2>1, <2>2, <2>6, <2>7, DisciplinedStep
<1> QED
  BY <1>2, <1>3, MatchEffect DEF HInv

LEMMA PayloadsDisciplined ==
  ASSUME HInv, TInv', NEW h \in Handles, Payloads(h) PROVE HInv' /\ Untouched(h)
<1>1. Answer(h, "ok") /\ UNCHANGED <<meta, table, payload>> /\ ~Ready(h)
  BY DEF Payloads, At, Ready
<1> QED
  BY <1>1, AnswerDisciplined DEF Answers

LEMMA FailDisciplined ==
  ASSUME HInv, TInv', NEW h \in Handles, Fail(h) PROVE HInv' /\ Untouched(h)
<1>1. Answer(h, "error") /\ UNCHANGED <<meta, table, payload>> /\ ~Ready(h)
  BY DEF Fail
<1> QED
  BY <1>1, AnswerDisciplined DEF Answers

LEMMA EnterDisciplined ==
  ASSUME HInv, TInv', Overlaps = {}, NEW h \in Handles, Enter(h)
  PROVE  HInv' /\ UNCHANGED <<meta, table, payload>>
<1>1. Ready(h) /\ UNCHANGED <<meta, table, payload>> /\ \E c : Begins(h, c) /\ Enters(h, c)
  BY EnterBegins DEF HInv, TInv
<1>2. PICK c : Begins(h, c) /\ Enters(h, c)
  BY <1>1
<1>3. c \in Calls
  BY <1>2 DEF Begins
<1>4. /\ call'[h] = c /\ \A g \in Handles \ {h} : Goes(call[g], call'[g])
  BY <1>1, <1>2, <1>3, EntersEffect DEF HInv, TInv
<1>5. OwnTables' /\ NoStrays' /\ Homogeneous'
  BY <1>1, PayloadSteps DEF HInv, NoStrays
<1>6. /\ \A g \in Handles : call[g] \in Calls /\ (Ready(g) <=> call[g].at = "idle")
      /\ NextRowid' = NextRowid
  BY <1>1, CallTyped DEF HInv, TInv, NextRowid, Recorded
<1>7. Disciplined'
  <2>1. \A g \in Handles \ {h} :
          Ready(g)' <=> Ready(g)
    BY <1>4, <1>6 DEF Goes, Ready
  <2>2. \A g \in Handles \ {h} :
          ~Ready(g) => call'[g].index = call[g].index /\ call'[g].op = call[g].op
    BY <1>4, <1>6 DEF Goes
  <2>3. ASSUME NEW g \in Handles \ {h}, ~Ready(g), c.at # "idle"
        PROVE  call[g].index = c.index /\ c.op # "reindex" /\ call[g].op # "reindex"
    <3>1. MayOverlap(h, c.op, c.index) /\ g \in Others(h)
      BY <1>2, <2>3 DEF Begins, Others
    <3> QED
      BY <3>1 DEF MayOverlap
  <2>4. Ready(h)' <=> c.at = "idle"
    BY <1>4 DEF Ready
  <2> QED
    BY <1>4, <2>1, <2>2, <2>3, <2>4 DEF Disciplined, HInv
<1>8. ASSUME NEW g \in Handles \ {h} PROVE Current(call[g])'
  <2>1. Current(call[g]) /\ Goes(call[g], call'[g])
    BY <1>4 DEF HInv
  <2> QED
    BY <1>1, <1>6, <2>1 DEF Current, Goes, Names, WriteSteps, DeleteSteps, SearchSteps,
       Creating, Dropping, Writing
<1>9. Current(call[h])'
  <2>1. /\ c.at \in {"idle"} \cup WriteSteps \cup DeleteSteps \cup SearchSteps
    BY <1>3, CallKinds
  <2> QED
    BY <1>1, <1>2, <1>4, <2>1 DEF Begins, Current, Names, WriteSteps, DeleteSteps, SearchSteps,
       Creating, Dropping, Writing
<1> QED
  BY <1>1, <1>5, <1>7, <1>8, <1>9 DEF HInv

LEMMA HInvInit == Init => HInv
<1> SUFFICES ASSUME Init PROVE HInv
  OBVIOUS
<1>1. /\ meta = [i \in Indexes |-> None] /\ table = [n \in 1 .. MaxTables |-> None]
      /\ payload = [i \in Indexes |-> NoRows] /\ call = [h \in Handles |-> Answered("ok")]
  BY DEF Init
<1>2. TInv
  BY TInvInit
<1>3. \A h \in Handles : call[h].at = "idle" /\ Ready(h)
  BY <1>1, CallFields DEF Answers, Ready
<1>4. Disciplined /\ \A h \in Handles : Current(call[h])
  BY <1>3 DEF Disciplined, Current, Dropping, Writing
<1>5. Recorded = {}
  BY <1>1 DEF Recorded
<1>6. OwnTables /\ Rooted /\ NoStrays
  BY <1>1, <1>5 DEF OwnTables, Rooted, NoStrays
<1> QED
  BY <1>2, <1>4, <1>6, HomogeneousIs DEF HInv

\* A call under way takes its steps on its own.
LEMMA OnlyOwn ==
  ASSUME NEW h \in Handles, Continue(h) \/ Fail(h)
  PROVE  \A g \in Handles \ {h} : call \in [Handles -> Calls] => call'[g] = call[g]
<1> TAKE g \in Handles \ {h}
<1> SUFFICES ASSUME call \in [Handles -> Calls] PROVE call'[g] = call[g]
  OBVIOUS
<1>1. CASE \E a \in Answers : Answer(h, a)
  BY <1>1 DEF Answer
<1>2. CASE \E s \in WriteSteps \cup DeleteSteps \cup SearchSteps : GoTo(h, s)
  BY <1>2 DEF GoTo
<1>3. CASE Allocate(h) \/ Create(h) \/ SetPayload(h)
  BY <1>3 DEF Allocate, Create, SetPayload
<1>4. CASE Match(h)
  BY <1>4 DEF Match, Answer
<1>5. CASE DropTable(h) \/ DropValues(h) \/ DropMeta(h) \/ Record(h) \/ Unkey(h) \/ Insert(h)
           \/ DeleteVector(h) \/ DeletePayload(h) \/ Count(h) \/ Payloads(h) \/ Fail(h)
  BY <1>1, <1>2, <1>5 DEF DropTable, DropValues, DropMeta, Record, Unkey, Insert, DeleteVector,
     DeletePayload, Count, Payloads, Fail, Answers, WriteSteps, DeleteSteps, SearchSteps,
     Creating, Dropping, Writing
<1> QED
  BY <1>3, <1>4, <1>5 DEF Continue

LEMMA UnderwayDisciplined ==
  ASSUME HInv, NEW h \in Handles, Continue(h) \/ Fail(h)
  PROVE  HInv' /\ Untouched(h)
<1>1. [Next]_vectorVars
  BY DEF Next
<1>2. TInv'
  BY <1>1, TInvStep DEF HInv
<1>3. CASE Fail(h)
  BY <1>2, <1>3, FailDisciplined
<1>4. CASE Continue(h)
  <2>1. CASE DropTable(h) \/ DropValues(h) \/ DropMeta(h) \/ Allocate(h) \/ Record(h) \/ Create(h)
    BY <1>2, <2>1, DropTableDisciplined, DropValuesDisciplined, DropMetaDisciplined,
       AllocateDisciplined, RecordDisciplined, CreateDisciplined
  <2>2. CASE Unkey(h) \/ Insert(h) \/ SetPayload(h) \/ DeleteVector(h) \/ DeletePayload(h)
    BY <1>2, <2>2, UnkeyDisciplined, InsertDisciplined, SetPayloadDisciplined,
       DeleteVectorDisciplined, DeletePayloadDisciplined
  <2>3. CASE Count(h) \/ Match(h) \/ Payloads(h)
    BY <1>2, <2>3, CountDisciplined, MatchDisciplined, PayloadsDisciplined
  <2> QED
    BY <1>4, <2>1, <2>2, <2>3 DEF Continue
<1> QED
  BY <1>3, <1>4

LEMMA HInvStep ==
  ASSUME Overlaps = {} PROVE HInv /\ [Next]_vectorVars => HInv'
<1> SUFFICES ASSUME HInv, [Next]_vectorVars PROVE HInv'
  OBVIOUS
<1>1. TInv'
  BY TInvStep DEF HInv
<1>2. ASSUME NEW h \in Handles, Enter(h) PROVE HInv'
  BY <1>1, <1>2, EnterDisciplined
<1>3. ASSUME NEW h \in Handles, Continue(h) \/ Fail(h) PROVE HInv'
  BY <1>3, UnderwayDisciplined
<1>4. CASE UNCHANGED vectorVars
  <2>1. meta' = meta /\ table' = table /\ payload' = payload /\ call' = call
    BY <1>4 DEF vectorVars
  <2>2. /\ Recorded' = Recorded /\ NextRowid' = NextRowid /\ Entries' = Entries
        /\ \A h \in Handles : Ready(h)' <=> Ready(h)
    BY <2>1 DEF Recorded, NextRowid, Entries, Ready
  <2>3. Disciplined' /\ OwnTables' /\ NoStrays' /\ Homogeneous'
    BY <2>1, <2>2 DEF HInv, Disciplined, OwnTables, NoStrays, Homogeneous
  <2>4. ASSUME NEW h \in Handles PROVE Current(call[h])'
    BY <2>1, <2>2 DEF HInv, Current, Names
  <2> QED
    BY <1>1, <2>3, <2>4 DEF HInv
<1> QED
  BY <1>2, <1>3, <1>4 DEF Next

LEMMA Disciplines == ASSUME Overlaps = {} PROVE Spec => []HInv
BY HInvInit, HInvStep, PTL DEF Spec

\* As long as callers let no call run beside a reindex or beside a call on
\* another index, every vector that a search compares with was written under the
\* embedding its index answers with, whatever fails on the way (store.cpp,
\* writeVector after readIndexMeta).
THEOREM IndexesAreHomogeneous == ASSUME Overlaps = {} PROVE Spec => []Homogeneous
<1>1. HInv => Homogeneous
  BY DEF HInv
<1> QED
  BY <1>1, Disciplines, PTL

\* Under the same discipline a search answers no vector of another embedding
\* than the one it asks with, although it compared the two before it looked at
\* the table (store.cpp, index.search).
THEOREM SearchesAreSound == ASSUME Overlaps = {} PROVE Spec => []SearchSound
<1>1. HInv => SearchSound
  BY DEF HInv, Current, SearchSound, At
<1> QED
  BY <1>1, Disciplines, PTL

\* Under the same discipline no statement of a call reaches the vectors or the
\* payloads of another index: a table number that the count of indexes, a rowid
\* that is used again or a row that could not be read gave is the index's own
\* (store.cpp, createIndex).
THEOREM IndexesAreApart == ASSUME Overlaps = {} PROVE Spec => OthersUntouched
<1>1. ASSUME HInv, [Next]_vectorVars, NEW h \in Handles, NEW i \in Indexes,
             ~Ready(h), call'[h] # call[h], call[h].index # i
      PROVE  Entries'[i] = Entries[i] /\ payload'[i] = payload[i]
  <2>1. ASSUME NEW g \in Handles, Enter(g)
        PROVE  Entries'[i] = Entries[i] /\ payload'[i] = payload[i]
    <3>1. UNCHANGED <<meta, table, payload>>
      BY <1>1, <2>1, EnterBegins DEF HInv, TInv
    <3> QED
      BY <3>1 DEF Entries
  <2>2. ASSUME NEW g \in Handles, Continue(g) \/ Fail(g)
        PROVE  Entries'[i] = Entries[i] /\ payload'[i] = payload[i]
    <3>1. call \in [Handles -> Calls]
      BY <1>1, CallTyped DEF HInv, TInv
    <3>2. g = h
      BY <1>1, <2>2, <3>1, OnlyOwn
    <3>3. Untouched(h)
      BY <1>1, <2>2, <3>2, UnderwayDisciplined
    <3> QED
      BY <1>1, <3>3 DEF Untouched
  <2>3. CASE UNCHANGED vectorVars
    BY <1>1, <2>3 DEF vectorVars
  <2> QED
    BY <1>1, <2>1, <2>2, <2>3 DEF Next
<1>2. HInv /\ [Next]_vectorVars =>
        [\A h \in Handles, i \in Indexes :
           ~Ready(h) /\ call'[h] # call[h] /\ call[h].index # i
             => Entries'[i] = Entries[i] /\ payload'[i] = payload[i]]_vectorVars
  BY <1>1
<1> QED
  BY <1>2, Disciplines, PTL DEF Spec, OthersUntouched

----------------------------------------------------------------------------
(* How far a reindex has come *)

LEMMA LastOfGrows ==
  ASSUME NEW b, NEW n \in Nat, NEW k, NEW v
  PROVE  /\ LastOf(b, n, k, v) /\ b[n + 1].key # k => LastOf(b, n + 1, k, v)
         /\ b[n + 1].key = k /\ v = b[n + 1].value => LastOf(b, n + 1, k, v)
<1>1. 1 .. n + 1 = (1 .. n) \cup {n + 1} /\ n + 1 \in 1 .. n + 1
  OBVIOUS
<1>2. \A m \in 1 .. n : m + 1 .. n + 1 = (m + 1 .. n) \cup {n + 1}
  OBVIOUS
<1>3. (n + 1) + 1 .. n + 1 = {}
  OBVIOUS
<1>4. ASSUME LastOf(b, n, k, v), b[n + 1].key # k PROVE LastOf(b, n + 1, k, v)
  BY <1>1, <1>2, <1>4 DEF LastOf
<1>5. ASSUME b[n + 1].key = k, v = b[n + 1].value PROVE LastOf(b, n + 1, k, v)
  BY <1>1, <1>3, <1>5 DEF LastOf
<1> QED
  BY <1>4, <1>5

LEMMA RowOfGrows ==
  ASSUME NEW b, NEW n \in Nat, NEW k, NEW e, NEW r, RowOf(b, n, k, e, r), b[n + 1].key # k
  PROVE  RowOf(b, n + 1, k, e, r)
<1>1. \A v : LastOf(b, n, k, v) => LastOf(b, n + 1, k, v)
  BY LastOfGrows
<1> QED
  BY <1>1 DEF RowOf

LEMMA LastIs ==
  ASSUME NEW b \in Batches, NEW k, NEW v, LastOf(b, Len(b), k, v)
  PROVE  Last(b, k) = v
<1> DEFINE at == {n \in DOMAIN b : b[n].key = k}
<1>1. DOMAIN b = 1 .. Len(b) /\ Len(b) \in Nat
  BY BatchShape, VectorsAssumption
<1>2. CASE v = None /\ \A m \in 1 .. Len(b) : b[m].key # k
  BY <1>1, <1>2 DEF Last
<1>3. ASSUME NEW m \in 1 .. Len(b), b[m].key = k, v = b[m].value,
             \A j \in m + 1 .. Len(b) : b[j].key # k
      PROVE  Last(b, k) = v
  <2>1. m \in at /\ at # {} /\ at \subseteq Nat
    BY <1>1, <1>3
  <2>2. \A n \in at : n <= m
    BY <1>1, <1>3
  <2>3. Last(b, k) = b[CHOOSE n \in at : \A j \in at : j <= n].value
    BY <2>1 DEF Last
  <2> HIDE DEF at
  <2>4. (CHOOSE n \in at : \A j \in at : j <= n) = m
    <3>1. \A n \in at : (\A j \in at : j <= n) => n = m
      BY <2>1, <2>2
    <3> QED
      BY <2>1, <2>2, <3>1
  <2> QED
    BY <1>3, <2>3, <2>4
<1> QED
  BY <1>2, <1>3 DEF LastOf

\* The rows R and the payloads P of a reindex that has written its batch b.
LEMMA ExactFrom ==
  ASSUME NEW b \in Batches, NEW e, NEW P \in [Keys -> Values \cup {None}],
         NEW R \in [Keys -> Stored \cup {None}], NEW n, n = Len(b),
         \A k \in Keys : LastOf(b, n, k, P[k]) /\ RowOf(b, n, k, e, R[k])
  PROVE  \A k \in Keys :
           /\ P[k] = Last(b, k)
           /\ IF Last(b, k) = None THEN R[k] = None
              ELSE R[k] = [embedding |-> e, value |-> Last(b, k)]
<1> TAKE k \in Keys
<1>1. P[k] = Last(b, k)
  BY LastIs
<1>2. CASE R[k] = None
  <2>1. LastOf(b, Len(b), k, None)
    BY <1>2 DEF RowOf
  <2>2. Last(b, k) = None
    BY <2>1, LastIs
  <2> QED
    BY <1>1, <1>2, <2>2
<1>3. CASE R[k] # None
  <2>1. R[k].embedding = e /\ LastOf(b, Len(b), k, R[k].value) /\ R[k] \in Stored
    BY <1>3 DEF RowOf
  <2>2. Last(b, k) = R[k].value /\ R[k].value \in Values
    BY <2>1, LastIs DEF Stored
  <2>3. R[k] = [embedding |-> e, value |-> Last(b, k)]
    BY <2>1, <2>2 DEF Stored
  <2> QED
    BY <1>1, <2>2, <2>3, Nothing
<1> QED
  BY <1>2, <1>3

\* What is written of the batch of c, and what follows.
LEMMA SuffixIs ==
  ASSUME NEW c, c.batch \in Batches, c.todo \in Batches, Suffix(c)
  PROVE  /\ Done(c) \in Nat /\ Done(c) <= Len(c.batch)
         /\ c.todo = <<>> => Done(c) = Len(c.batch)
         /\ c.todo # <<>> => Head(c.todo) = c.batch[Done(c) + 1]
         /\ \A d : d.batch = c.batch /\ d.todo = c.todo => Suffix(d) /\ Done(d) = Done(c)
         /\ \A d : c.todo # <<>> /\ d.batch = c.batch /\ d.todo = Tail(c.todo) =>
              Suffix(d) /\ Done(d) = Done(c) + 1
<1>1. /\ Len(c.batch) \in Nat /\ Len(c.todo) \in Nat /\ Len(c.todo) <= Len(c.batch)
      /\ c.todo \in Seq(Vecs) /\ c.batch \in Seq(Vecs)
  BY BatchShape, VectorsAssumption DEF Suffix
<1>2. c.todo = <<>> => Len(c.todo) = 0
  OBVIOUS
<1>6. ASSUME c.todo # <<>>
      PROVE  /\ Head(c.todo) = c.todo[1] /\ Len(c.todo) > 0 /\ Len(Tail(c.todo)) = Len(c.todo) - 1
             /\ \A m \in 1 .. Len(c.todo) - 1 : Tail(c.todo)[m] = c.todo[m + 1]
  BY <1>6, BatchShape
<1>3. ASSUME c.todo # <<>> PROVE Head(c.todo) = c.batch[Done(c) + 1]
  <2>1. 1 \in 1 .. Len(c.todo)
    BY <1>1, <1>3, <1>6
  <2> QED
    BY <1>3, <1>6, <2>1 DEF Suffix
<1>4. ASSUME NEW d, d.batch = c.batch, d.todo = c.todo PROVE Suffix(d) /\ Done(d) = Done(c)
  BY <1>4 DEF Suffix, Done
<1>8. \A d : Done(d) = Len(d.batch) - Len(d.todo)
  BY DEF Done
<1>9. \A x \in Nat, y \in Nat :
        y <= x => /\ x - y \in Nat /\ x - y <= x
                  /\ (y = 0 => x - y = x) /\ x - (y - 1) = (x - y) + 1
  OBVIOUS
<1>5. ASSUME NEW d, c.todo # <<>>, d.batch = c.batch, d.todo = Tail(c.todo)
      PROVE  Suffix(d) /\ Done(d) = Done(c) + 1
  <2>1. /\ Len(d.todo) = Len(c.todo) - 1 /\ Len(c.todo) > 0
        /\ \A m \in 1 .. Len(c.todo) - 1 : d.todo[m] = c.todo[m + 1]
    BY <1>5, <1>6
  <2>4. Done(d) = Len(d.batch) - Len(d.todo) /\ Done(c) = Len(c.batch) - Len(c.todo)
    BY DEF Done
  <2>6. Len(d.batch) = Len(c.batch) /\ Len(d.todo) = Len(c.todo) - 1
    BY <1>5, <2>1, Zenon
  <2>2. Done(d) = Done(c) + 1 /\ Done(c) \in Nat
    BY <1>1, <2>4, <2>6
  <2>3. ASSUME NEW m \in 1 .. Len(d.todo) PROVE d.todo[m] = d.batch[Done(d) + m]
    <3>1. m \in 1 .. Len(c.todo) - 1 /\ m + 1 \in 1 .. Len(c.todo)
      BY <1>1, <2>1
    <3>2. c.todo[m + 1] = c.batch[Done(c) + (m + 1)]
      BY <3>1 DEF Suffix
    <3>3. Done(c) + (m + 1) = Done(d) + m
      BY <2>2, <3>1
    <3> QED
      BY <1>5, <2>1, <3>1, <3>2, <3>3
  <2> QED
    BY <1>1, <1>5, <2>1, <2>2, <2>3 DEF Suffix
<1>7. Done(c) \in Nat /\ Done(c) <= Len(c.batch) /\ (Len(c.todo) = 0 => Done(c) = Len(c.batch))
  BY <1>1, <1>8, <1>9
<1> QED
  BY <1>2, <1>3, <1>4, <1>5, <1>7

\* The reindex of h has left the vectors it was given and no other.
Exactly(h) ==
  LET c == call[h]
  IN  /\ meta'[c.index].embedding = c.embedding
      /\ \A k \in Keys :
           /\ payload'[c.index][k] = Last(c.batch, k)
           /\ IF Last(c.batch, k) = None THEN Entries'[c.index][k] = None
              ELSE Entries'[c.index][k] = [embedding |-> c.embedding, value |-> Last(c.batch, k)]

\* A step of the reindex of h leaves it as far as it should be.
Comes(h) ==
  /\ call'[h].at # "idle" => Reindexed(call[h])'
  /\ call'[h] = Answered("ok") => Exactly(h)

LEMMA ErrorComes == ASSUME NEW h, Answer(h, "error"), h \in DOMAIN call PROVE Comes(h)
<1>1. call'[h] = Answered("error")
  BY DEF Answer
<1>2. Answered("error").at = "idle" /\ Answered("error") # Answered("ok")
  BY DEF Answered
<1> QED
  BY <1>1, <1>2 DEF Comes

\* The steps before the table is created.
LEMMA EarlyComes ==
  ASSUME NEW h \in Handles, Reindexed(call[h]), call[h] \in WriteCalls,
         SameWrite(call[h], call'[h]), call'[h].todo = call[h].todo, call[h].at \in Creating,
         call'[h].at \in {"drop_values", "drop_meta", "allocate", "record"}
  PROVE  Comes(h)
<1>1. call[h].batch \in Batches /\ call[h].todo \in Batches /\ call'[h].batch = call[h].batch
  BY CallFields DEF SameWrite
<1>2. Suffix(call[h]) /\ Done(call[h]) = 0
  BY DEF Reindexed, Creating
<1>3. Suffix(call'[h]) /\ Done(call'[h]) = 0
  BY <1>1, <1>2, SuffixIs
<1>4. Reindexed(call[h])'
  BY <1>3 DEF Reindexed, Writing
<1>5. call'[h].at # "idle" /\ call'[h] # Answered("ok")
  BY DEF Answered
<1> QED
  BY <1>4, <1>5 DEF Comes

\* The batch of a reindex that is under way.
LEMMA Reindexing ==
  ASSUME XInv, NEW h \in Handles, ~Ready(h), call[h].op = "reindex"
  PROVE  /\ call[h] \in WriteCalls /\ call[h].at \in WriteSteps
         /\ Reindexed(call[h]) /\ Suffix(call[h])
         /\ call[h].batch \in Batches /\ call[h].todo \in Batches
         /\ Done(call[h]) \in Nat
<1>1. Reindexed(call[h]) /\ call[h] \in Calls /\ call[h].at # "idle"
  BY CallTyped DEF XInv, HInv, TInv, Ready
<1>2. call[h].at \in WriteSteps /\ call[h] \in WriteCalls
  BY <1>1, CallKinds, CallFields
<1>3. call[h].batch \in Batches /\ call[h].todo \in Batches
  BY <1>2, CallFields
<1>4. Suffix(call[h])
  BY <1>1 DEF Reindexed
<1>5. Done(call[h]) \in Nat
  BY <1>3, <1>4, SuffixIs
<1> QED
  BY <1>1, <1>2, <1>3, <1>4, <1>5

LEMMA DropComes ==
  ASSUME XInv, NEW h \in Handles, call[h].op = "reindex",
         DropTable(h) \/ DropValues(h) \/ DropMeta(h) \/ Allocate(h)
  PROVE  Comes(h)
<1>1. call[h].at \in Dropping \cup {"allocate"}
  BY DEF DropTable, DropValues, DropMeta, Allocate, At, Dropping
<1>2. call[h].at \in Creating /\ ~Ready(h)
  BY <1>1 DEF Creating, Dropping, Ready
<1>3. call[h] \in WriteCalls /\ call[h].at \in WriteSteps /\ Reindexed(call[h])
  BY <1>2, Reindexing
<1>4. CASE DropTable(h) \/ DropValues(h) \/ DropMeta(h)
  <2>1. \E t \in {"drop_values", "drop_meta", "allocate"} : GoTo(h, t)
    BY <1>4 DEF DropTable, DropValues, DropMeta
  <2>2. PICK t \in {"drop_values", "drop_meta", "allocate"} : GoTo(h, t)
    BY <2>1
  <2>3. t \in WriteSteps
    BY DEF WriteSteps, Creating, Dropping
  <2>4. SameWrite(call[h], call'[h]) /\ call'[h].at = t /\ call'[h].todo = call[h].todo
    BY <1>3, <2>2, <2>3, GoToEffect DEF XInv, HInv, TInv
  <2> QED
    BY <1>2, <1>3, <2>4, EarlyComes
<1>5. CASE Allocate(h)
  BY <1>2, <1>3, <1>5, AllocateEffect, EarlyComes DEF XInv, HInv
<1> QED
  BY <1>4, <1>5

LEMMA RecordComes ==
  ASSUME XInv, NEW h \in Handles, call[h].op = "reindex", Record(h) PROVE Comes(h)
<1>1. call[h].at = "record" /\ UNCHANGED <<table, payload>> /\ ~Ready(h)
  BY RecordEffect DEF XInv, HInv, Ready
<1>2. CASE meta[call[h].index] # None
  BY <1>1, <1>2, ErrorComes DEF Record, XInv, HInv, TInv, TypeOK
<1>3. CASE meta[call[h].index] = None
  <2>1. /\ SameWrite(call[h], call'[h]) /\ call'[h].at = "create"
        /\ call'[h].table = call[h].table /\ call'[h].todo = call[h].todo
    BY <1>3, RecordEffect DEF XInv, HInv
  <2>2. /\ Reindexed(call[h]) /\ Suffix(call[h]) /\ call[h].batch \in Batches
        /\ call[h].todo \in Batches
    BY <1>1, Reindexing
  <2>3. Done(call[h]) = 0
    BY <1>1, <2>2 DEF Reindexed
  <2>4. Suffix(call'[h]) /\ Done(call'[h]) = 0
    BY <2>1, <2>2, <2>3, SuffixIs DEF SameWrite
  <2>5. table'[call'[h].table] = None /\ payload'[call'[h].index] = NoRows
    BY <1>1, <1>3, <2>1, FreshTable DEF XInv, SameWrite
  <2>6. Reindexed(call[h])'
    BY <2>1, <2>4, <2>5 DEF Reindexed, Writing
  <2>7. call'[h] # Answered("ok")
    BY <2>1 DEF Answered
  <2> QED
    BY <2>6, <2>7 DEF Comes
<1> QED
  BY <1>2, <1>3

\* The first n vectors of the reindex of h are written when its step is done.
Laid(h, n) ==
  /\ table'[call[h].table] # None
  /\ \A k \in Keys :
       /\ LastOf(call[h].batch, n, k, payload'[call[h].index][k])
       /\ RowOf(call[h].batch, n, k, call[h].embedding, table'[call[h].table].rows[k])

LEMMA LaidExactly ==
  ASSUME XInv, TInv', NEW h \in Handles, call[h].at \in WriteSteps,
         call[h].at \in {"create"} \cup Writing, UNCHANGED meta,
         NEW n, n = Len(call[h].batch), Laid(h, n)
  PROVE  Exactly(h)
<1> DEFINE i == call[h].index
           t == call[h].table
           P == payload'[i]
           R == table'[t].rows
<1>1. /\ i \in Indexes /\ t \in 1 .. MaxTables /\ call[h].batch \in Batches
      /\ call[h] \in WriteCalls
  BY Underway, CallFields DEF XInv, HInv
<1>2. Names(call[h]) /\ meta[i].embedding = call[h].embedding
  BY DEF XInv, HInv, Current
<1>3. table'[t] \in Tables /\ P \in [Keys -> Values \cup {None}]
  BY <1>1 DEF TInv, TypeOK, Laid
<1>4. R \in [Keys -> Stored \cup {None}]
  BY <1>3 DEF Tables
<1>5. \A k \in Keys : LastOf(call[h].batch, n, k, P[k])
                      /\ RowOf(call[h].batch, n, k, call[h].embedding, R[k])
  BY DEF Laid
<1>6. Entries'[i] = R
  BY <1>1, <1>2, <1>3, Nothing DEF Entries, Names
<1> DEFINE b == call[h].batch
           e == call[h].embedding
<1>8. b \in Batches /\ n = Len(b) /\ \A k \in Keys : LastOf(b, n, k, P[k]) /\ RowOf(b, n, k, e, R[k])
  BY <1>1, <1>5
<1> HIDE DEF P, R, b, e
<1>7. \A k \in Keys :
        /\ P[k] = Last(b, k)
        /\ IF Last(b, k) = None THEN R[k] = None
           ELSE R[k] = [embedding |-> e, value |-> Last(b, k)]
  BY <1>3, <1>4, <1>8, ExactFrom
<1> QED
  BY <1>2, <1>6, <1>7 DEF Exactly, P, b, e

\* A reindex that has written n vectors ends, or turns to the next one.
LEMMA LaidComes ==
  ASSUME XInv, TInv', NEW h \in Handles, call[h].at \in WriteSteps,
         call[h].at \in {"create"} \cup Writing, UNCHANGED meta,
         NEW c, SameWrite(call[h], c), c.table = call[h].table, Suffix(c),
         Laid(h, Done(c)),
         \/ call'[h] = Answered("ok") /\ c.todo = <<>>
         \/ call'[h] = Answered("mismatch")
         \/ /\ SameWrite(c, call'[h]) /\ call'[h].at = "unkey"
            /\ call'[h].table = c.table /\ call'[h].todo = c.todo
  PROVE  Comes(h)
<1>1. c \in WriteCalls /\ c.batch \in Batches /\ c.todo \in Batches /\ c.batch = call[h].batch
  BY CallFields DEF SameWrite
<1>2. CASE call'[h] = Answered("ok") /\ c.todo = <<>>
  <2>1. Done(c) = Len(call[h].batch)
    BY <1>1, <1>2, SuffixIs
  <2>2. Exactly(h)
    BY <2>1, LaidExactly
  <2>3. call'[h].at = "idle"
    BY <1>2 DEF Answered
  <2> QED
    BY <2>2, <2>3 DEF Comes
<1>3. CASE call'[h] = Answered("mismatch")
  BY <1>3 DEF Comes, Answered
<1>4. CASE /\ SameWrite(c, call'[h]) /\ call'[h].at = "unkey"
           /\ call'[h].table = c.table /\ call'[h].todo = c.todo
  <2>1. /\ call'[h].index = call[h].index /\ call'[h].embedding = call[h].embedding
        /\ call'[h].batch = call[h].batch /\ call'[h].table = call[h].table
    BY <1>4 DEF SameWrite
  <2>2. Suffix(call'[h]) /\ Done(call'[h]) = Done(c)
    BY <1>1, <1>4, <2>1, SuffixIs
  <2>3. Reindexed(call[h])'
    BY <1>4, <2>1, <2>2 DEF Reindexed, Writing, Dropping, Laid
  <2>4. call'[h] # Answered("ok")
    BY <1>4 DEF Answered
  <2> QED
    BY <2>3, <2>4 DEF Comes
<1> QED
  BY <1>2, <1>3, <1>4

LEMMA CreateComes ==
  ASSUME XInv, TInv', NEW h \in Handles, call[h].op = "reindex", Create(h) PROVE Comes(h)
<1> DEFINE n == call[h].table
           t == [dimension |-> call[h].embedding.dimension, rows |-> NoRows]
<1>1. /\ call[h].at = "create" /\ call' = [call EXCEPT ![h] = WriteNext(call[h])]
      /\ table' = [table EXCEPT ![n] = IF table[n] = None THEN t ELSE table[n]]
      /\ UNCHANGED <<meta, payload>>
  <2>1. call' = [call EXCEPT ![h] = WriteNext(@)] /\ h \in DOMAIN call
    BY DEF Create, XInv, HInv, TInv, TypeOK
  <2>2. /\ call[h].at = "create" /\ UNCHANGED <<meta, payload>>
        /\ table' = [table EXCEPT ![n] = IF table[n] = None THEN t ELSE table[n]]
    BY DEF Create, At
  <2> QED
    BY <2>1, <2>2
<1>2. call[h].at \in WriteSteps \ Creating /\ ~Ready(h)
  BY <1>1 DEF WriteSteps, Creating, Dropping, Ready
<1>3. /\ Reindexed(call[h]) /\ Suffix(call[h]) /\ call[h] \in WriteCalls
  BY <1>2, Reindexing
<1>4. Done(call[h]) = 0 /\ table[n] = None /\ payload[call[h].index] = NoRows
  BY <1>1, <1>3 DEF Reindexed
<1>5. /\ n \in 1 .. MaxTables /\ table \in [1 .. MaxTables -> Tables \cup {None}]
      /\ t \in Tables
  BY <1>1, <1>2, Underway DEF XInv, HInv, Tables, NoRows
<1>6. table'[n] # None /\ table'[n].rows = NoRows
  BY <1>1, <1>4, <1>5, Nothing
<1>7. Laid(h, 0)
  <2>1. \A k \in Keys : NoRows[k] = None
    BY Nothing
  <2>2. \A k \in Keys : LastOf(call[h].batch, 0, k, None)
    BY DEF LastOf
  <2> QED
    BY <1>1, <1>4, <1>6, <2>1, <2>2 DEF Laid, RowOf
<1>8. \/ call'[h] = Answered("ok") /\ call[h].todo = <<>>
      \/ call'[h] = Answered("mismatch")
      \/ /\ SameWrite(call[h], call'[h]) /\ call'[h].at = "unkey"
         /\ call'[h].table = call[h].table /\ call'[h].todo = call[h].todo
  BY <1>1, <1>2, <1>3, WritesOn DEF XInv, HInv
<1>9. SameWrite(call[h], call[h])
  BY <1>3 DEF SameWrite
<1> QED
  BY <1>1, <1>2, <1>3, <1>4, <1>7, <1>8, <1>9, LaidComes

LEMMA UnkeyComes ==
  ASSUME XInv, NEW h \in Handles, call[h].op = "reindex", Unkey(h) PROVE Comes(h)
<1> DEFINE n == call[h].table
           k == Item(h).key
<1>1. call[h].at = "unkey" /\ UNCHANGED <<meta, payload>> /\ ~Ready(h)
  BY DEF Unkey, At, Ready
<1>2. CASE Answer(h, "error")
  BY <1>2, ErrorComes DEF XInv, HInv, TInv, TypeOK
<1>3. CASE /\ table[n] # None /\ GoTo(h, "insert")
           /\ table' = [table EXCEPT ![n].rows[k] = None]
  <2>1. call[h].at \in WriteSteps /\ "insert" \in WriteSteps /\ call[h].at \in Writing
    BY <1>1 DEF WriteSteps, Writing
  <2>2. /\ SameWrite(call[h], call'[h]) /\ call'[h].at = "insert"
        /\ call'[h].table = n /\ call'[h].todo = call[h].todo
    BY <1>3, <2>1, GoToEffect DEF XInv, HInv, TInv
  <2>3. /\ Reindexed(call[h]) /\ Suffix(call[h]) /\ call[h].batch \in Batches
        /\ call[h].todo \in Batches
    BY <1>1, Reindexing
  <2>4. /\ call'[h].index = call[h].index /\ call'[h].embedding = call[h].embedding
        /\ call'[h].batch = call[h].batch
    BY <2>2 DEF SameWrite
  <2>5. Suffix(call'[h]) /\ Done(call'[h]) = Done(call[h])
    BY <2>2, <2>3, <2>4, SuffixIs
  <2>6. n \in 1 .. MaxTables /\ k \in Keys /\ None \in Stored \cup {None}
        /\ table \in [1 .. MaxTables -> Tables \cup {None}]
    BY <2>1, Underway DEF XInv, HInv
  <2>7. table' = PutRow(table, n, k, None)
    BY <1>3 DEF PutRow
  <2>8. WithRow(table, table', n, k, None)
    <3>1. table[n] # None
      BY <1>3
    <3> HIDE DEF n, k
    <3>2. WithRow(table, PutRow(table, n, k, None), n, k, None)
      BY <2>6, <3>1, RowPut
    <3> QED
      BY <2>7, <3>2
  <2>9. \A j \in Keys : LastOf(call[h].batch, Done(call[h]), j, payload[call[h].index][j])
               /\ RowOf(call[h].batch, Done(call[h]), j, call[h].embedding, table[n].rows[j])
    BY <1>1, <2>1, <2>3 DEF Reindexed
  <2>10. table'[n] # None /\ table'[n].rows[k] = None
         /\ \A j \in Keys \ {k} : table'[n].rows[j] = table[n].rows[j]
    BY <2>8, Nothing DEF WithRow
  <2>11. Head(call'[h].todo).key = k
    BY <2>2 DEF Item
  <2> HIDE DEF n, k
  <2>12. Reindexed(call[h])'
    BY <1>1, <2>2, <2>4, <2>5, <2>9, <2>10, <2>11 DEF Reindexed, Writing, Dropping
  <2>13. call'[h] # Answered("ok")
    BY <2>2 DEF Answered
  <2> QED
    BY <2>12, <2>13 DEF Comes
<1> QED
  BY <1>2, <1>3 DEF Unkey

LEMMA InsertComes ==
  ASSUME XInv, NEW h \in Handles, call[h].op = "reindex", Insert(h) PROVE Comes(h)
<1> DEFINE n == call[h].table
           k == Item(h).key
           r == [embedding |-> call[h].embedding, value |-> Item(h).value]
<1>1. call[h].at = "insert" /\ UNCHANGED <<meta, payload>> /\ ~Ready(h)
  BY DEF Insert, At, Ready
<1>2. CASE Answer(h, "error")
  BY <1>2, ErrorComes DEF XInv, HInv, TInv, TypeOK
<1>3. CASE /\ table[n] # None /\ GoTo(h, "payload")
           /\ table' = [table EXCEPT ![n].rows[k] = r]
  <2>1. call[h].at \in WriteSteps /\ "payload" \in WriteSteps /\ call[h].at \in Writing
    BY <1>1 DEF WriteSteps, Writing
  <2>2. /\ SameWrite(call[h], call'[h]) /\ call'[h].at = "payload"
        /\ call'[h].table = n /\ call'[h].todo = call[h].todo
    BY <1>3, <2>1, GoToEffect DEF XInv, HInv, TInv
  <2>3. /\ Reindexed(call[h]) /\ Suffix(call[h]) /\ call[h].batch \in Batches
        /\ call[h].todo \in Batches /\ Done(call[h]) \in Nat
    BY <1>1, Reindexing
  <2>4. /\ call'[h].index = call[h].index /\ call'[h].embedding = call[h].embedding
        /\ call'[h].batch = call[h].batch
    BY <2>2 DEF SameWrite
  <2>5. Suffix(call'[h]) /\ Done(call'[h]) = Done(call[h])
    BY <2>2, <2>3, <2>4, SuffixIs
  <2>6. /\ n \in 1 .. MaxTables /\ k \in Keys /\ r \in Stored \cup {None}
        /\ table \in [1 .. MaxTables -> Tables \cup {None}]
        /\ r.embedding = call[h].embedding /\ r.value = Item(h).value /\ r # None
        /\ call[h].todo # <<>>
    BY <2>1, Underway, Nothing DEF XInv, HInv, Stored
  <2>7. table' = PutRow(table, n, k, r)
    BY <1>3 DEF PutRow
  <2> HIDE DEF r
  <2>8. WithRow(table, table', n, k, r)
    <3>1. table[n] # None
      BY <1>3
    <3> HIDE DEF n, k
    <3>2. WithRow(table, PutRow(table, n, k, r), n, k, r)
      BY <2>6, <3>1, RowPut
    <3> QED
      BY <2>7, <3>2
  <2>9. \A j \in Keys : /\ LastOf(call[h].batch, Done(call[h]), j, payload[call[h].index][j])
                        /\ j # k => RowOf(call[h].batch, Done(call[h]), j, call[h].embedding,
                                          table[n].rows[j])
    BY <1>1, <2>1, <2>3 DEF Reindexed, Item
  <2>10. table'[n] # None /\ table'[n].rows[k] = r
         /\ \A j \in Keys \ {k} : table'[n].rows[j] = table[n].rows[j]
    BY <2>8, Nothing DEF WithRow
  <2>11. Head(call'[h].todo).key = k
    BY <2>2 DEF Item
  <2>12. Item(h) = call[h].batch[Done(call[h]) + 1]
    BY <2>3, <2>6, SuffixIs DEF Item
  <2>13. RowOf(call[h].batch, Done(call[h]) + 1, k, call[h].embedding, r)
    <3>1. LastOf(call[h].batch, Done(call[h]) + 1, k, r.value)
      BY <2>3, <2>6, <2>12, LastOfGrows
    <3> QED
      BY <2>6, <3>1 DEF RowOf
  <2> HIDE DEF n, k
  <2>14. Reindexed(call[h])'
    BY <1>1, <2>2, <2>4, <2>5, <2>9, <2>10, <2>11, <2>13 DEF Reindexed, Writing, Dropping
  <2>15. call'[h] # Answered("ok")
    BY <2>2 DEF Answered
  <2> QED
    BY <2>14, <2>15 DEF Comes
<1> QED
  BY <1>2, <1>3 DEF Insert, Takes

LEMMA SetPayloadComes ==
  ASSUME XInv, TInv', NEW h \in Handles, call[h].op = "reindex", SetPayload(h) PROVE Comes(h)
<1> DEFINE n == call[h].table
           k == Item(h).key
           i == call[h].index
           d == Done(call[h])
<1>1. /\ call[h].at = "payload" /\ UNCHANGED <<meta, table>>
      /\ payload' = [payload EXCEPT ![i][k] = Item(h).value]
      /\ call' = [call EXCEPT ![h] = WriteNext(Written(h))]
      /\ SameWrite(call[h], Written(h)) /\ Written(h).table = n
      /\ Written(h).todo = Tail(call[h].todo)
  BY SetPayloadEffect DEF XInv, HInv
<1>2. call[h].at \in WriteSteps \ Creating /\ call[h].at \in Writing /\ ~Ready(h)
  BY <1>1 DEF WriteSteps, Creating, Dropping, Writing, Ready
<1>3. /\ Reindexed(call[h]) /\ Suffix(call[h]) /\ call[h] \in WriteCalls
      /\ call[h].batch \in Batches /\ call[h].todo \in Batches /\ d \in Nat
  BY <1>2, Reindexing
<1>4. /\ i \in Indexes /\ k \in Keys /\ Item(h).value \in Values /\ call[h].todo # <<>>
      /\ payload \in [Indexes -> [Keys -> Values \cup {None}]]
  BY <1>2, Underway DEF XInv, HInv
<1>5. Suffix(Written(h)) /\ Done(Written(h)) = d + 1 /\ Item(h) = call[h].batch[d + 1]
  BY <1>1, <1>3, <1>4, SuffixIs DEF SameWrite, Item
<1>6. payload'[i][k] = Item(h).value /\ \A j \in Keys \ {k} : payload'[i][j] = payload[i][j]
  BY <1>1, <1>4
<1>7. /\ table[n] # None
      /\ \A j \in Keys :
           /\ LastOf(call[h].batch, d, j, payload[i][j])
           /\ j # k => RowOf(call[h].batch, d, j, call[h].embedding, table[n].rows[j])
           /\ j = k => RowOf(call[h].batch, d + 1, j, call[h].embedding, table[n].rows[j])
  BY <1>1, <1>2, <1>3 DEF Reindexed, Item
<1> HIDE DEF n, k, i, d
<1>8. ASSUME NEW j \in Keys
      PROVE  /\ LastOf(call[h].batch, d + 1, j, payload'[i][j])
             /\ RowOf(call[h].batch, d + 1, j, call[h].embedding, table'[n].rows[j])
  <2>1. CASE j = k
    <3>1. LastOf(call[h].batch, d + 1, j, payload'[i][j])
      BY <1>3, <1>5, <1>6, <2>1, LastOfGrows DEF k
    <3> QED
      BY <1>1, <1>7, <2>1, <3>1
  <2>2. CASE j # k
    <3>1. call[h].batch[d + 1].key # j
      BY <1>5, <2>2 DEF k
    <3>2. LastOf(call[h].batch, d + 1, j, payload'[i][j])
      BY <1>3, <1>6, <1>7, <2>2, <3>1, LastOfGrows
    <3>3. RowOf(call[h].batch, d + 1, j, call[h].embedding, table'[n].rows[j])
      BY <1>1, <1>3, <1>7, <2>2, <3>1, RowOfGrows
    <3> QED
      BY <3>2, <3>3
  <2> QED
    BY <2>1, <2>2
<1>9. Laid(h, Done(Written(h)))
  BY <1>1, <1>5, <1>7, <1>8 DEF Laid, n, i
<1>10. \/ call'[h] = Answered("ok") /\ Written(h).todo = <<>>
       \/ call'[h] = Answered("mismatch")
       \/ /\ SameWrite(Written(h), call'[h]) /\ call'[h].at = "unkey"
          /\ call'[h].table = Written(h).table /\ call'[h].todo = Written(h).todo
  BY <1>1, <1>2, WritesOn DEF SameWrite, XInv, HInv, n
<1> QED
  BY <1>1, <1>2, <1>5, <1>9, <1>10, LaidComes DEF n

LEMMA ReindexComes ==
  ASSUME XInv, TInv', NEW h \in Handles, ~Ready(h), call[h].op = "reindex",
         Continue(h) \/ Fail(h)
  PROVE  Comes(h)
<1>1. call[h].at \in WriteSteps
  BY Reindexing
<1>2. CASE Fail(h)
  BY <1>2, ErrorComes DEF Fail, XInv, HInv, TInv, TypeOK
<1>3. CASE DropTable(h) \/ DropValues(h) \/ DropMeta(h) \/ Allocate(h)
  BY <1>3, DropComes
<1>4. CASE Record(h) \/ Create(h) \/ Unkey(h) \/ Insert(h) \/ SetPayload(h)
  BY <1>4, RecordComes, CreateComes, UnkeyComes, InsertComes, SetPayloadComes
<1>5. ~(DeleteVector(h) \/ DeletePayload(h) \/ Count(h) \/ Match(h) \/ Payloads(h))
  BY <1>1 DEF DeleteVector, DeletePayload, Count, Match, Payloads, At, WriteSteps, Creating,
     Dropping, Writing
<1> QED
  BY <1>2, <1>3, <1>4, <1>5 DEF Continue

\* A call stays what it is until it answers.
LEMMA KeepsOp ==
  ASSUME TInv, NEW h \in Handles, Continue(h) \/ Fail(h)
  PROVE  \/ call'[h].at = "idle"
         \/ /\ call'[h].op = call[h].op /\ call'[h].index = call[h].index
            /\ call'[h].alone = call[h].alone
<1>1. CASE \E a \in Answers : Answer(h, a)
  BY <1>1, AnswerEffect DEF TInv
<1>2. ASSUME NEW t \in WriteSteps, GoTo(h, t), call[h].at \in WriteSteps
      PROVE  /\ call'[h].op = call[h].op /\ call'[h].index = call[h].index
             /\ call'[h].alone = call[h].alone
  BY <1>2, GoToEffect DEF TInv, SameWrite
<1>3. CASE DropTable(h) \/ DropValues(h) \/ DropMeta(h)
  BY <1>2, <1>3 DEF DropTable, DropValues, DropMeta, At, WriteSteps, Creating, Dropping
<1>4. CASE Allocate(h) \/ Record(h)
  BY <1>4, AllocateEffect, RecordEffect DEF SameWrite
<1>5. CASE Create(h)
  <2>1. call' = [call EXCEPT ![h] = WriteNext(@)] /\ h \in DOMAIN call /\ call[h].at = "create"
    BY <1>5 DEF Create, At, TInv, TypeOK
  <2>2. call[h].at \in WriteSteps \ Creating
    BY <2>1 DEF WriteSteps, Creating, Dropping
  <2>3. call' = [call EXCEPT ![h] = WriteNext(call[h])]
    BY <2>1
  <2> QED
    BY <2>2, <2>3, Underway, WritesOn DEF SameWrite
<1>6. CASE Unkey(h) \/ Insert(h)
  BY <1>1, <1>2, <1>6 DEF Unkey, Insert, At, Answers, WriteSteps, Writing
<1>7. CASE SetPayload(h)
  <2>1. /\ call[h].at = "payload" /\ call' = [call EXCEPT ![h] = WriteNext(Written(h))]
        /\ SameWrite(call[h], Written(h)) /\ Written(h).table = call[h].table
    BY <1>7, SetPayloadEffect
  <2>2. call[h].at \in WriteSteps \ Creating
    BY <2>1 DEF WriteSteps, Creating, Dropping, Writing
  <2>3. \/ call'[h].at = "idle"
        \/ SameWrite(Written(h), call'[h])
    BY <2>1, <2>2, WritesOn DEF SameWrite
  <2> QED
    BY <2>1, <2>3 DEF SameWrite
<1>8. CASE DeleteVector(h)
  <2>1. At(h, "delete_vector") /\ (Answer(h, "error") \/ GoTo(h, "delete_payload"))
    BY <1>8 DEF DeleteVector
  <2>2. ASSUME GoTo(h, "delete_payload")
        PROVE  call'[h].op = call[h].op /\ call'[h].index = call[h].index
               /\ call'[h].alone = call[h].alone
    <3>1. call[h] \in DeleteCalls /\ call'[h].op = "delete" /\ call'[h].index = call[h].index
          /\ call'[h].alone = call[h].alone
      BY <2>1, <2>2, DeleteGoes
    <3>2. call[h].op = "delete"
      BY <3>1, CallFields
    <3> QED
      BY <3>1, <3>2
  <2> QED
    BY <1>1, <2>1, <2>2 DEF Answers
<1>9. CASE DeletePayload(h) \/ Payloads(h) \/ Fail(h)
  BY <1>1, <1>9 DEF DeletePayload, Payloads, Fail, Answers
<1>10. CASE Count(h) \/ Match(h)
  <2>1. call[h] \in Calls /\ call \in [Handles -> Calls] /\ call[h].at \in {"count", "match"}
    BY <1>10, CallTyped DEF TInv, Count, Match, At
  <2>2. call[h] \in SearchCalls
    BY <2>1, CallKinds DEF SearchSteps
  <2>3. ASSUME GoTo(h, "match")
        PROVE  call'[h].op = call[h].op /\ call'[h].index = call[h].index
               /\ call'[h].alone = call[h].alone
    BY <2>1, <2>2, <2>3 DEF GoTo, SearchCalls
  <2>4. ASSUME NEW hits, call' = [call EXCEPT ![h].at = "payloads", ![h].hits = hits]
        PROVE  call'[h].op = call[h].op /\ call'[h].index = call[h].index
               /\ call'[h].alone = call[h].alone
    BY <2>1, <2>2, <2>4 DEF SearchCalls
  <2> QED
    BY <1>1, <1>10, <2>3, <2>4, MatchEffect DEF Count, Answers
<1> QED
  BY <1>3, <1>4, <1>5, <1>6, <1>7, <1>8, <1>9, <1>10 DEF Continue

LEMMA EnterReindexes ==
  ASSUME XInv, NEW h \in Handles, Enter(h), NEW g \in Handles,
         call'[g].at # "idle", call'[g].op = "reindex"
  PROVE  Reindexed(call[g])'
<1>1. Ready(h) /\ UNCHANGED <<meta, table, payload>> /\ \E c : Begins(h, c) /\ Enters(h, c)
  BY EnterBegins DEF XInv, HInv, TInv
<1>2. PICK c : Begins(h, c) /\ Enters(h, c)
  BY <1>1
<1>3. c \in Calls
  BY <1>2 DEF Begins
<1>4. /\ call'[h] = c /\ \A f \in Handles \ {h} : Goes(call[f], call'[f])
  BY <1>1, <1>2, <1>3, EntersEffect DEF XInv, HInv, TInv
<1>5. CASE g = h
  <2>1. c \in WriteCalls /\ c.at \in WriteSteps
    BY <1>3, <1>4, <1>5, CallKinds, CallFields
  <2>2. c.at \in {"allocate", "drop_table"} /\ c.todo = c.batch /\ c.batch \in Batches
    BY <1>2, <1>4, <1>5, <2>1, CallFields DEF Begins
  <2>3. Len(c.batch) \in Nat
    BY <2>2, BatchShape, VectorsAssumption
  <2>4. Suffix(c) /\ Done(c) = 0
    BY <2>2, <2>3 DEF Suffix, Done
  <2> QED
    BY <1>4, <1>5, <2>2, <2>4 DEF Reindexed, Writing, Dropping
<1>6. CASE g # h
  <2>1. Goes(call[g], call'[g]) /\ call[g].at # "idle" /\ call[g].op = "reindex"
    BY <1>4, <1>6 DEF Goes
  <2>2. /\ Reindexed(call[g]) /\ call[g].at \in WriteSteps /\ Suffix(call[g])
        /\ call[g].batch \in Batches /\ call[g].todo \in Batches
    BY <2>1, Reindexing DEF Ready
  <2>3. /\ call'[g].at = call[g].at /\ call'[g].index = call[g].index
        /\ call'[g].table = call[g].table /\ call'[g].embedding = call[g].embedding
        /\ call'[g].batch = call[g].batch /\ call'[g].todo = call[g].todo
    BY <2>1, <2>2 DEF Goes
  <2>4. Suffix(call'[g]) /\ Done(call'[g]) = Done(call[g])
    BY <2>2, <2>3, SuffixIs
  <2> QED
    BY <1>1, <2>2, <2>3, <2>4 DEF Reindexed
<1> QED
  BY <1>5, <1>6

LEMMA XInvStep == ASSUME Overlaps = {} PROVE XInv /\ [Next]_vectorVars => XInv'
<1> SUFFICES ASSUME XInv, [Next]_vectorVars PROVE XInv'
  OBVIOUS
<1>1. HInv' /\ TInv'
  BY HInvStep, TInvStep DEF XInv, HInv
<1> SUFFICES ASSUME NEW g \in Handles, call'[g].at # "idle", call'[g].op = "reindex"
             PROVE  Reindexed(call[g])'
  BY <1>1 DEF XInv, Ready
<1>2. ASSUME NEW h \in Handles, Enter(h) PROVE Reindexed(call[g])'
  BY <1>2, EnterReindexes
<1>3. ASSUME NEW h \in Handles, Continue(h) \/ Fail(h) PROVE Reindexed(call[g])'
  <2>1. ~Ready(h) /\ call \in [Handles -> Calls]
    BY <1>3, CallTyped DEF Continue, DropTable, DropValues, DropMeta, Allocate, Record, Create,
       Unkey, Insert, SetPayload, DeleteVector, DeletePayload, Count, Match, Payloads, Fail,
       At, Ready, XInv, HInv, TInv
  <2>2. CASE g = h
    <3>1. call[h].op = "reindex"
      BY <1>3, <2>2, KeepsOp DEF XInv, HInv
    <3> QED
      BY <1>1, <1>3, <2>1, <2>2, <3>1, ReindexComes DEF Comes
  <2>3. CASE g # h
    <3>1. call'[g] = call[g]
      BY <1>3, <2>1, <2>3, OnlyOwn
    <3>2. ~Ready(g) /\ call[g].op = "reindex"
      BY <3>1 DEF Ready
    <3> QED
      BY <2>1, <2>3, <3>2, ReindexAlone DEF XInv
  <2> QED
    BY <2>2, <2>3
<1>4. CASE UNCHANGED vectorVars
  <2>1. meta' = meta /\ table' = table /\ payload' = payload /\ call' = call
    BY <1>4 DEF vectorVars
  <2>2. Reindexed(call[g])
    BY <2>1 DEF XInv, Ready
  <2> QED
    BY <2>1, <2>2 DEF Reindexed
<1> QED
  BY <1>2, <1>3, <1>4 DEF Next

LEMMA XInvInit == Init => XInv
<1> SUFFICES ASSUME Init PROVE XInv
  OBVIOUS
<1>1. \A h \in Handles : Ready(h)
  BY CallFields DEF Init, Answers, Ready
<1> QED
  BY <1>1, HInvInit DEF XInv

\* As long as callers give a reindex the store to itself, a reindex that answers
\* ok has left in the table and in _vector_values the last vector it was given
\* under each key and nothing else, whatever an earlier call left half done
\* (store.cpp, index.reindex: dropIndex, createIndex and writeVector, each
\* statement on its own).
THEOREM ReindexesAreExact == ASSUME Overlaps = {} PROVE Spec => ReindexExact
<1>1. ASSUME XInv, [Next]_vectorVars, NEW h \in Handles, ~Ready(h), call[h].op = "reindex",
             call'[h] = Answered("ok")
      PROVE  Exactly(h)
  <2>1. call'[h].at = "idle" /\ call[h].at # "idle" /\ call \in [Handles -> Calls]
    BY <1>1, CallTyped DEF Answered, Ready, XInv, HInv, TInv
  <2>2. ASSUME NEW g \in Handles, Enter(g) PROVE Exactly(h)
    <3>1. Ready(g) /\ \E c : Begins(g, c) /\ Enters(g, c)
      BY <1>1, <2>2, EnterBegins DEF XInv, HInv, TInv
    <3>2. PICK c : Begins(g, c) /\ Enters(g, c)
      BY <3>1
    <3>3. h # g
      BY <1>1, <3>1
    <3>4. Goes(call[h], call'[h])
      BY <1>1, <3>1, <3>2, <3>3, EntersEffect DEF Begins, XInv, HInv, TInv
    <3> QED
      BY <2>1, <3>4 DEF Goes
  <2>3. ASSUME NEW g \in Handles, Continue(g) \/ Fail(g) PROVE Exactly(h)
    <3>1. g = h
      BY <2>1, <2>3, OnlyOwn
    <3>2. TInv'
      BY <1>1, TInvStep DEF XInv, HInv
    <3>3. Comes(h)
      BY <1>1, <2>3, <3>1, <3>2, ReindexComes
    <3> QED
      BY <1>1, <3>3 DEF Comes
  <2>4. CASE UNCHANGED vectorVars
    BY <2>1, <2>4 DEF vectorVars
  <2> QED
    BY <1>1, <2>2, <2>3, <2>4 DEF Next
<1>2. XInv /\ [Next]_vectorVars =>
        [\A h \in Handles : ~Ready(h) /\ call[h].op = "reindex" /\ call'[h] = Answered("ok") =>
           Exactly(h)]_vectorVars
  BY <1>1
<1>3. XInv /\ [Next]_vectorVars =>
        [\A h \in Handles : ~Ready(h) /\ call[h].op = "reindex" /\ call'[h] = Answered("ok") =>
           LET c == call[h]
           IN  /\ meta'[c.index].embedding = c.embedding
               /\ \A k \in Keys :
                    /\ payload'[c.index][k] = Last(c.batch, k)
                    /\ IF Last(c.batch, k) = None THEN Entries'[c.index][k] = None
                       ELSE Entries'[c.index][k] =
                              [embedding |-> c.embedding, value |-> Last(c.batch, k)]]_vectorVars
  BY <1>2 DEF Exactly
<1> QED
  BY <1>3, XInvInit, XInvStep, PTL DEF Spec, ReindexExact

----------------------------------------------------------------------------
(* Calls that run alone *)

\* What the call of h promises with its answer ok.
Promised(h) ==
  LET c == call[h]
  IN  /\ c.op = "upsert" =>
           /\ payload'[c.index][c.batch[1].key] = c.batch[1].value
           /\ Entries'[c.index][c.batch[1].key] =
                [embedding |-> c.embedding, value |-> c.batch[1].value]
      /\ c.op = "delete" => Entries'[c.index][c.key] = None

\* A step of h goes on with what a call knows that has run alone.
Learns(h) ==
  /\ call'[h].at # "idle" =>
       Upserting(call[h])' /\ (call[h].alone => Knows(call[h])')
  /\ call[h].alone /\ call'[h] = Answered("ok") => Promised(h)

LEMMA ErrorLearns == ASSUME NEW h, Answer(h, "error"), h \in DOMAIN call PROVE Learns(h)
<1>1. call'[h] = Answered("error")
  BY DEF Answer
<1>2. Answered("error").at = "idle" /\ Answered("error") # Answered("ok")
  BY DEF Answered
<1> QED
  BY <1>1, <1>2 DEF Learns

\* What the call of h may rely on.
LEMMA Alone ==
  ASSUME AInv, NEW h \in Handles, ~Ready(h)
  PROVE  /\ TInv /\ TypeOK /\ Upserting(call[h]) /\ h \in DOMAIN call
         /\ call[h].alone => Knows(call[h])
BY DEF AInv, TInv, TypeOK

\* The steps of a write after which nothing new is known.
LEMMA WriteLearns ==
  ASSUME AInv, NEW h \in Handles, call[h].at \in WriteSteps, SameWrite(call[h], call'[h]),
         call'[h].todo = call[h].todo,
         call'[h].at \in {"drop_values", "drop_meta", "allocate", "record", "create", "unkey", "insert"},
         call'[h].at \in {"create", "unkey", "insert"} /\ call[h].alone => Names(call[h])'
  PROVE  Learns(h)
<1>1. Upserting(call[h]) /\ ~Ready(h)
  BY Alone DEF Ready, WriteSteps, Creating, Dropping, Writing
<1>2. Upserting(call[h])'
  BY <1>1 DEF Upserting, SameWrite
<1>3. call[h].alone => Knows(call[h])'
  BY DEF Knows, Writing
<1>4. call'[h] # Answered("ok")
  BY DEF Answered
<1> QED
  BY <1>2, <1>3, <1>4 DEF Learns

LEMMA DropLearns ==
  ASSUME AInv, NEW h \in Handles, DropTable(h) \/ DropValues(h) \/ DropMeta(h) \/ Allocate(h)
  PROVE  Learns(h)
<1>1. call[h].at \in Dropping \cup {"allocate"}
  BY DEF DropTable, DropValues, DropMeta, Allocate, At, Dropping
<1>2. call[h].at \in WriteSteps
  BY <1>1 DEF Creating, Dropping, WriteSteps
<1>3. CASE DropTable(h) \/ DropValues(h) \/ DropMeta(h)
  <2>1. PICK t \in {"drop_values", "drop_meta", "allocate"} : GoTo(h, t)
    BY <1>3 DEF DropTable, DropValues, DropMeta
  <2>2. t \in WriteSteps
    BY DEF WriteSteps, Creating, Dropping
  <2>3. SameWrite(call[h], call'[h]) /\ call'[h].at = t /\ call'[h].todo = call[h].todo
    BY <1>2, <2>1, <2>2, GoToEffect DEF AInv, TInv
  <2> QED
    BY <1>2, <2>3, WriteLearns
<1>4. CASE Allocate(h)
  BY <1>2, <1>4, AllocateEffect, WriteLearns DEF AInv
<1> QED
  BY <1>3, <1>4

LEMMA RecordLearns == ASSUME AInv, NEW h \in Handles, Record(h) PROVE Learns(h)
<1>1. call[h].at = "record"
  BY DEF Record, At
<1>2. call[h].at \in WriteSteps /\ h \in DOMAIN call
  BY <1>1 DEF Creating, WriteSteps, AInv, TInv, TypeOK
<1>3. CASE meta[call[h].index] # None
  BY <1>2, <1>3, ErrorLearns DEF Record
<1>4. CASE meta[call[h].index] = None
  <2>1. /\ meta' = [meta EXCEPT ![call[h].index] = RowFor(h)] /\ RowFor(h) \in Metas
        /\ RowFor(h).table = call[h].table
        /\ SameWrite(call[h], call'[h]) /\ call'[h].at = "create"
        /\ call'[h].table = call[h].table /\ call'[h].todo = call[h].todo
    BY <1>4, RecordEffect DEF AInv
  <2>2. call[h].index \in Indexes /\ meta \in [Indexes -> Metas \cup {None}]
    BY <1>2, Underway DEF AInv
  <2>3. Names(call[h])'
    BY <2>1, <2>2, Nothing DEF Names, SameWrite
  <2> QED
    BY <1>2, <2>1, <2>3, WriteLearns
<1> QED
  BY <1>3, <1>4

\* An upsert has its vector before it.
LEMMA UpsertHas ==
  ASSUME AInv, NEW h \in Handles, call[h].at \in WriteSteps, call[h].op = "upsert"
  PROVE  /\ call[h].todo = call[h].batch /\ call[h].todo # <<>>
         /\ Head(call[h].todo) = call[h].batch[1] /\ Tail(call[h].todo) = <<>>
<1>1. call[h].todo = call[h].batch /\ Len(call[h].batch) = 1 /\ call[h].batch \in Batches
  BY Alone, CallTyped, CallKinds, CallFields DEF Upserting, Ready, WriteSteps, Creating, Dropping,
     Writing, AInv, TInv
<1>7. \A b \in Batches : b \in Seq(Vecs)
  BY BatchShape
<1>3. call[h].batch # <<>>
  <2>1. Len(<<>>) = 0
    OBVIOUS
  <2>2. ASSUME call[h].batch = <<>> PROVE Len(call[h].batch) = 0
    BY <2>1, <2>2, Zenon
  <2> QED
    BY <1>1, <2>2
<1>4. Head(call[h].batch) = call[h].batch[1] /\ Len(Tail(call[h].batch)) = 0
      /\ Tail(call[h].batch) \in Batches
  BY <1>1, <1>3, BatchShape
<1>5. Tail(call[h].batch) \in Seq(Vecs)
  BY <1>4, <1>7
<1>6. Tail(call[h].batch) = <<>>
  BY <1>4, <1>5, EmptySeq
<1> QED
  BY <1>1, <1>3, <1>4, <1>6

LEMMA CreateLearns == ASSUME AInv, NEW h \in Handles, Create(h) PROVE Learns(h)
<1>1. /\ call[h].at = "create" /\ call' = [call EXCEPT ![h] = WriteNext(call[h])]
      /\ UNCHANGED <<meta, payload>>
  <2>1. call' = [call EXCEPT ![h] = WriteNext(@)] /\ h \in DOMAIN call
    BY DEF Create, AInv, TInv, TypeOK
  <2>2. call[h].at = "create" /\ UNCHANGED <<meta, payload>>
    BY DEF Create, At
  <2> QED
    BY <2>1, <2>2
<1>2. call[h].at \in WriteSteps \ Creating /\ ~Ready(h)
  BY <1>1 DEF WriteSteps, Creating, Dropping, Ready
<1>3. call[h] \in WriteCalls
  BY <1>2, Underway DEF AInv
<1>4. \/ call'[h] = Answered("ok") /\ call[h].todo = <<>>
      \/ call'[h] = Answered("mismatch") /\ call'[h].at = "idle"
      \/ /\ SameWrite(call[h], call'[h]) /\ call'[h].at = "unkey"
         /\ call'[h].table = call[h].table /\ call'[h].todo = call[h].todo
  BY <1>1, <1>2, <1>3, WritesOn DEF AInv
<1>5. CASE call'[h] = Answered("ok") /\ call[h].todo = <<>>
  <2>1. call[h].op # "upsert"
    BY <1>2, <1>5, UpsertHas
  <2>2. call[h].op \in {"upsert", "reindex"}
    BY <1>3, CallFields
  <2>3. Promised(h)
    BY <2>1, <2>2 DEF Promised
  <2> QED
    BY <1>5, <2>3 DEF Learns, Answered
<1>6. CASE call'[h] = Answered("mismatch") /\ call'[h].at = "idle"
  BY <1>6 DEF Learns, Answered
<1>7. CASE /\ SameWrite(call[h], call'[h]) /\ call'[h].at = "unkey"
           /\ call'[h].table = call[h].table /\ call'[h].todo = call[h].todo
  <2>1. call[h].alone => Names(call[h])
    BY <1>1, <1>2, Alone DEF Knows
  <2>2. call[h].alone => Names(call[h])'
    BY <1>1, <1>7, <2>1 DEF Names, SameWrite
  <2> QED
    BY <1>2, <1>7, <2>2, WriteLearns
<1> QED
  BY <1>4, <1>5, <1>6, <1>7

LEMMA UnkeyLearns == ASSUME AInv, NEW h \in Handles, Unkey(h) PROVE Learns(h)
<1>1. call[h].at = "unkey" /\ UNCHANGED <<meta, payload>> /\ ~Ready(h) /\ h \in DOMAIN call
  BY DEF Unkey, At, Ready, AInv, TInv, TypeOK
<1>2. CASE Answer(h, "error")
  BY <1>1, <1>2, ErrorLearns
<1>3. CASE GoTo(h, "insert")
  <2>1. call[h].at \in WriteSteps /\ "insert" \in WriteSteps /\ call[h].at \in Writing
    BY <1>1 DEF WriteSteps, Writing
  <2>2. /\ SameWrite(call[h], call'[h]) /\ call'[h].at = "insert"
        /\ call'[h].table = call[h].table /\ call'[h].todo = call[h].todo
    BY <1>3, <2>1, GoToEffect DEF AInv, TInv
  <2>3. call[h].alone => Names(call[h])
    BY <1>1, <2>1, Alone DEF Knows
  <2>4. call[h].alone => Names(call[h])'
    BY <1>1, <2>2, <2>3 DEF Names, SameWrite
  <2> QED
    BY <2>1, <2>2, <2>4, WriteLearns
<1> QED
  BY <1>2, <1>3 DEF Unkey

LEMMA InsertLearns == ASSUME AInv, NEW h \in Handles, Insert(h) PROVE Learns(h)
<1> DEFINE n == call[h].table
           k == Item(h).key
           r == [embedding |-> call[h].embedding, value |-> Item(h).value]
<1>1. call[h].at = "insert" /\ UNCHANGED <<meta, payload>> /\ ~Ready(h) /\ h \in DOMAIN call
  BY DEF Insert, At, Ready, AInv, TInv, TypeOK
<1>2. CASE Answer(h, "error")
  BY <1>1, <1>2, ErrorLearns
<1>3. CASE /\ table[n] # None /\ GoTo(h, "payload")
           /\ table' = [table EXCEPT ![n].rows[k] = r]
  <2>1. call[h].at \in WriteSteps /\ "payload" \in WriteSteps /\ call[h].at \in Writing
    BY <1>1 DEF WriteSteps, Writing
  <2>2. /\ SameWrite(call[h], call'[h]) /\ call'[h].at = "payload"
        /\ call'[h].table = n /\ call'[h].todo = call[h].todo
    BY <1>3, <2>1, GoToEffect DEF AInv, TInv
  <2>3. /\ n \in 1 .. MaxTables /\ k \in Keys /\ r \in Stored \cup {None}
        /\ table \in [1 .. MaxTables -> Tables \cup {None}]
    BY <2>1, Underway DEF AInv, Stored
  <2>4. table' = PutRow(table, n, k, r)
    BY <1>3 DEF PutRow
  <2>5. Head(call'[h].todo) = Item(h) /\ call'[h].embedding = call[h].embedding
    BY <2>2 DEF Item, SameWrite
  <2>6. r = [embedding |-> call'[h].embedding, value |-> Head(call'[h].todo).value]
    BY <2>5
  <2> HIDE DEF r
  <2>7. WithRow(table, table', n, k, r)
    <3>1. table[n] # None
      BY <1>3
    <3> HIDE DEF n, k
    <3>2. WithRow(table, PutRow(table, n, k, r), n, k, r)
      BY <2>3, <3>1, RowPut
    <3> QED
      BY <2>4, <3>2
  <2>8. table'[n] # None /\ table'[n].rows[k] = r
    BY <2>7, Nothing DEF WithRow
  <2>9. call[h].alone => Names(call[h])
    BY <1>1, <2>1, Alone DEF Knows
  <2>10. call[h].alone => Knows(call[h])'
    BY <1>1, <2>2, <2>5, <2>6, <2>8, <2>9 DEF Knows, Names, SameWrite
  <2>11. Upserting(call[h])'
    BY <1>1, <2>2, Alone DEF Upserting, SameWrite
  <2>12. call'[h] # Answered("ok")
    BY <2>2 DEF Answered
  <2> QED
    BY <2>10, <2>11, <2>12 DEF Learns
<1> QED
  BY <1>2, <1>3 DEF Insert, Takes

LEMMA SetPayloadLearns ==
  ASSUME AInv, TInv', NEW h \in Handles, SetPayload(h) PROVE Learns(h)
<1> DEFINE i == call[h].index
           k == Item(h).key
<1>1. /\ call[h].at = "payload" /\ UNCHANGED <<meta, table>>
      /\ payload' = [payload EXCEPT ![i][k] = Item(h).value]
      /\ call' = [call EXCEPT ![h] = WriteNext(Written(h))]
      /\ SameWrite(call[h], Written(h)) /\ Written(h).table = call[h].table
      /\ Written(h).todo = Tail(call[h].todo)
  BY SetPayloadEffect DEF AInv
<1>2. call[h].at \in WriteSteps \ Creating /\ call[h].at \in Writing /\ ~Ready(h)
  BY <1>1 DEF WriteSteps, Creating, Dropping, Writing, Ready
<1>3. /\ i \in Indexes /\ k \in Keys /\ Item(h).value \in Values
      /\ payload \in [Indexes -> [Keys -> Values \cup {None}]]
      /\ call[h] \in WriteCalls /\ table \in [1 .. MaxTables -> Tables \cup {None}]
      /\ call[h].table \in 1 .. MaxTables
  BY <1>2, Underway DEF AInv
<1>4. \/ call'[h] = Answered("ok") /\ call'[h].at = "idle"
      \/ call'[h] = Answered("mismatch") /\ call'[h].at = "idle"
      \/ /\ SameWrite(Written(h), call'[h]) /\ call'[h].at = "unkey"
         /\ call'[h].table = call[h].table /\ Written(h).todo # <<>>
  BY <1>1, <1>2, WritesOn DEF SameWrite, AInv
<1>5. call[h].alone => Names(call[h])
  BY <1>1, <1>2, Alone DEF Knows
<1>6. CASE call'[h] = Answered("ok") /\ call'[h].at = "idle"
  <2>1. ASSUME call[h].alone, call[h].op = "upsert"
        PROVE  /\ payload'[i][call[h].batch[1].key] = call[h].batch[1].value
               /\ Entries'[i][call[h].batch[1].key] =
                    [embedding |-> call[h].embedding, value |-> call[h].batch[1].value]
    <3>1. Item(h) = call[h].batch[1]
      BY <1>2, <2>1, UpsertHas DEF Item
    <3>2. payload'[i][k] = Item(h).value
      BY <1>1, <1>3
    <3>3. /\ table[call[h].table] # None
          /\ table[call[h].table].rows[k] = [embedding |-> call[h].embedding, value |-> Item(h).value]
      BY <1>1, <1>2, <2>1, Alone DEF Knows, Item
    <3>4. Entries'[i] = table[call[h].table].rows
      BY <1>1, <1>3, <1>5, <2>1, <3>3 DEF Entries, Names
    <3> QED
      BY <3>1, <3>2, <3>3, <3>4
  <2>2. call[h].op # "delete"
    BY <1>3, CallFields
  <2>3. call[h].alone => Promised(h)
    BY <2>1, <2>2 DEF Promised
  <2> QED
    BY <1>6, <2>3 DEF Learns
<1>7. CASE call'[h] = Answered("mismatch") /\ call'[h].at = "idle"
  BY <1>7 DEF Learns, Answered
<1>8. CASE /\ SameWrite(Written(h), call'[h]) /\ call'[h].at = "unkey"
           /\ call'[h].table = call[h].table /\ Written(h).todo # <<>>
  <2>1. call[h].op # "upsert"
    BY <1>1, <1>2, <1>8, UpsertHas
  <2>2. Upserting(call[h])'
    BY <1>1, <1>8, <2>1 DEF Upserting, SameWrite
  <2>3. call[h].alone => Knows(call[h])'
    BY <1>1, <1>5, <1>8 DEF Knows, Names, SameWrite, Writing
  <2>4. call'[h] # Answered("ok")
    BY <1>8 DEF Answered
  <2> QED
    BY <2>2, <2>3, <2>4 DEF Learns
<1> QED
  BY <1>4, <1>6, <1>7, <1>8

LEMMA DeleteVectorLearns == ASSUME AInv, NEW h \in Handles, DeleteVector(h) PROVE Learns(h)
<1> DEFINE n == call[h].table
           k == call[h].key
<1>1. At(h, "delete_vector") /\ UNCHANGED <<meta, payload>> /\ ~Ready(h) /\ h \in DOMAIN call
  BY DEF DeleteVector, At, Ready, AInv, TInv, TypeOK
<1>2. CASE Answer(h, "error")
  BY <1>1, <1>2, ErrorLearns
<1>3. CASE /\ table[n] # None /\ GoTo(h, "delete_payload")
           /\ table' = [table EXCEPT ![n].rows[k] = None]
  <2>1. /\ call[h].at = "delete_vector" /\ call[h].index \in Indexes /\ k \in Keys
        /\ n \in 1 .. MaxTables /\ call'[h].at = "delete_payload" /\ call'[h].op = "delete"
        /\ call'[h].index = call[h].index /\ call'[h].key = k
    BY <1>1, <1>3, DeleteGoes DEF AInv
  <2>2. call[h].alone => Names(call[h])
    BY <1>1, <2>1, Alone DEF Knows
  <2>3. table \in [1 .. MaxTables -> Tables \cup {None}] /\ None \in Stored \cup {None}
    BY DEF AInv, TInv, TypeOK
  <2>4. table' = PutRow(table, n, k, None)
    BY <1>3 DEF PutRow
  <2>5. WithRow(table, table', n, k, None)
    <3>1. table[n] # None
      BY <1>3
    <3> HIDE DEF n, k
    <3>2. WithRow(table, PutRow(table, n, k, None), n, k, None)
      BY <2>1, <2>3, <3>1, RowPut
    <3> QED
      BY <2>4, <3>2
  <2>6. table'[n] # None /\ table'[n].rows[k] = None
    BY <2>5, Nothing DEF WithRow
  <2>7. call[h].alone => Entries'[call[h].index][k] = None
    BY <1>1, <2>1, <2>2, <2>6 DEF Entries, Names
  <2>8. call[h].alone => Knows(call[h])'
    BY <2>1, <2>7 DEF Knows, Writing
  <2>9. Upserting(call[h])'
    BY <2>1 DEF Upserting
  <2>10. call'[h] # Answered("ok")
    BY <2>1 DEF Answered
  <2> QED
    BY <2>8, <2>9, <2>10 DEF Learns
<1> QED
  BY <1>2, <1>3 DEF DeleteVector

LEMMA DeletePayloadLearns == ASSUME AInv, NEW h \in Handles, DeletePayload(h) PROVE Learns(h)
<1>1. /\ call[h].at = "delete_payload" /\ ~Ready(h) /\ h \in DOMAIN call
      /\ Answer(h, "ok") /\ UNCHANGED <<meta, table>>
  BY DEF DeletePayload, At, Ready, AInv, TInv, TypeOK
<1>2. call[h].alone => Entries[call[h].index][call[h].key] = None
  BY <1>1, Alone DEF Knows
<1>3. Entries' = Entries
  BY <1>1 DEF Entries
<1>4. call[h].op = "delete"
  BY <1>1, CallTyped, CallKinds, CallFields DEF DeleteSteps, AInv, TInv
<1>5. call[h].alone => Promised(h)
  BY <1>2, <1>3, <1>4 DEF Promised
<1>6. call'[h].at = "idle"
  BY <1>1, AnswerEffect DEF Answers, AInv, TInv
<1> QED
  BY <1>5, <1>6 DEF Learns

LEMMA SearchLearns ==
  ASSUME AInv, NEW h \in Handles, Count(h) \/ Match(h) \/ Payloads(h) PROVE Learns(h)
<1>1. call[h].at \in SearchSteps
  BY DEF Count, Match, Payloads, At, SearchSteps
<1>2. call[h].op = "search"
  BY <1>1, CallTyped, CallKinds, CallFields DEF AInv, TInv
<1>3. Promised(h)
  BY <1>2 DEF Promised
<1>4. \/ call'[h].at = "idle"
      \/ call'[h].at \in {"match", "payloads"} /\ call'[h].op = "search"
  <2>1. CASE Count(h)
    BY <2>1, SearchGoes, AnswerEffect DEF Count, At, Answers, AInv, TInv
  <2>2. CASE Match(h)
    BY <2>2, MatchEffect, SearchGoes, AnswerEffect DEF Answers, AInv, TInv
  <2>3. CASE Payloads(h)
    BY <2>3, AnswerEffect DEF Payloads, Answers, AInv, TInv
  <2> QED
    BY <2>1, <2>2, <2>3
<1>5. call'[h].at # "idle" => Upserting(call[h])' /\ Knows(call[h])'
  BY <1>4 DEF Upserting, Knows, Writing
<1> QED
  BY <1>3, <1>5 DEF Learns

LEMMA UnderwayLearns ==
  ASSUME AInv, TInv', NEW h \in Handles, Continue(h) \/ Fail(h)
  PROVE  Learns(h)
<1>1. CASE Fail(h)
  BY <1>1, ErrorLearns DEF Fail, AInv, TInv, TypeOK
<1>2. CASE Continue(h)
  BY <1>2, DropLearns, RecordLearns, CreateLearns, UnkeyLearns, InsertLearns, SetPayloadLearns,
     DeleteVectorLearns, DeletePayloadLearns, SearchLearns DEF Continue
<1> QED
  BY <1>1, <1>2

\* A call that begins alone knows what it has read.
LEMMA EnterLearns ==
  ASSUME AInv, ~Misreads, NEW h \in Handles, Enter(h), NEW g \in Handles, call'[g].at # "idle"
  PROVE  /\ Upserting(call[g])'
         /\ call'[g].alone => Knows(call[g])' /\ \A f \in Handles \ {g} : Ready(f)'
<1>1. Ready(h) /\ UNCHANGED <<meta, table, payload>> /\ \E c : Begins(h, c) /\ Enters(h, c)
  BY EnterBegins DEF AInv, TInv
<1>2. PICK c : Begins(h, c) /\ Enters(h, c)
  BY <1>1
<1>3. c \in Calls
  BY <1>2 DEF Begins
<1>4. /\ call'[h] = c /\ \A f \in Handles \ {h} : Goes(call[f], call'[f])
  BY <1>1, <1>2, <1>3, EntersEffect DEF AInv, TInv
<1>5. CASE g = h
  <2>1. c.at # "idle" /\ c.at \in WriteSteps \cup DeleteSteps \cup SearchSteps
    BY <1>3, <1>4, <1>5, CallKinds
  <2>2. Upserting(c)
    <3>1. ASSUME c.op = "upsert" PROVE c.at \in WriteSteps
      BY <1>3, <2>1, <3>1, CallKinds, CallFields
    <3> QED
      BY <1>2, <3>1 DEF Upserting, Begins
  <2>3. ASSUME c.alone PROVE \A f \in Handles \ {g} : Ready(f)'
    <3>1. \A f \in Handles \ {h} : call[f].at = "idle"
      BY <1>2, <2>1, <2>3 DEF Begins, Others, Ready
    <3> QED
      BY <1>4, <1>5, <3>1 DEF Goes, Ready
  <2>4. Knows(call[g])'
    <3>1. /\ c.at \in {"create", "delete_vector"} \cup Writing => Names(c)
          /\ c.at # "payload" /\ (c.at = "delete_payload" => meta[c.index] = None)
      BY <1>2, <2>1 DEF Begins, WriteSteps, DeleteSteps, SearchSteps, Creating, Dropping, Writing
    <3>2. c.at = "delete_payload" => Entries[c.index][c.key] = None
      <4>1. c.at = "delete_payload" => c.index \in Indexes /\ c.key \in Keys
        BY <1>3, CallKinds, CallFields DEF DeleteSteps
      <4> QED
        BY <3>1, <4>1, Nothing DEF Entries
    <3>3. Entries' = Entries
      BY <1>1 DEF Entries
    <3> QED
      BY <1>1, <1>4, <1>5, <3>1, <3>2, <3>3 DEF Knows, Names
  <2> QED
    BY <1>4, <1>5, <2>2, <2>3, <2>4 DEF Upserting
<1>6. CASE g # h
  <2>1. Goes(call[g], call'[g]) /\ call[g].at # "idle" /\ ~Ready(g)
    BY <1>4, <1>6 DEF Goes, Ready
  <2>2. call'[g].alone = FALSE /\ call'[g].op = call[g].op
    BY <2>1 DEF Goes
  <2>3. Upserting(call[g])
    BY <2>1, Alone
  <2>4. ASSUME call[g].op = "upsert"
        PROVE  call'[g].todo = call[g].todo /\ call'[g].batch = call[g].batch
    <3>1. call[g].at \in WriteSteps
      BY <2>1, <2>4, CallTyped, CallKinds, CallFields DEF AInv, TInv
    <3> QED
      BY <2>1, <3>1 DEF Goes
  <2> QED
    BY <2>2, <2>3, <2>4 DEF Upserting
<1> QED
  BY <1>5, <1>6

LEMMA AInvStep == ASSUME ~Misreads PROVE AInv /\ [Next]_vectorVars => AInv'
<1> SUFFICES ASSUME AInv, [Next]_vectorVars PROVE AInv'
  OBVIOUS
<1>1. TInv'
  BY TInvStep DEF AInv
<1> SUFFICES ASSUME NEW g \in Handles, call'[g].at # "idle"
             PROVE  /\ Upserting(call[g])'
                    /\ call'[g].alone => Knows(call[g])' /\ \A f \in Handles \ {g} : Ready(f)'
  BY <1>1 DEF AInv, Ready
<1>2. ASSUME NEW h \in Handles, Enter(h)
      PROVE  /\ Upserting(call[g])'
             /\ call'[g].alone => Knows(call[g])' /\ \A f \in Handles \ {g} : Ready(f)'
  BY <1>2, EnterLearns
<1>3. ASSUME NEW h \in Handles, Continue(h) \/ Fail(h)
      PROVE  /\ Upserting(call[g])'
             /\ call'[g].alone => Knows(call[g])' /\ \A f \in Handles \ {g} : Ready(f)'
  <2>1. ~Ready(h) /\ call \in [Handles -> Calls]
    BY <1>3, CallTyped DEF Continue, DropTable, DropValues, DropMeta, Allocate, Record, Create,
       Unkey, Insert, SetPayload, DeleteVector, DeletePayload, Count, Match, Payloads, Fail,
       At, Ready, AInv, TInv
  <2>2. \A f \in Handles \ {h} : call'[f] = call[f]
    BY <1>3, <2>1, OnlyOwn
  <2>3. CASE g = h
    <3>1. Learns(h) /\ call'[h].alone = call[h].alone
      BY <1>1, <1>3, <2>3, UnderwayLearns, KeepsOp DEF AInv
    <3>2. call[h].alone => \A f \in Handles \ {h} : Ready(f)
      BY <2>1 DEF AInv
    <3> QED
      BY <2>2, <2>3, <3>1, <3>2 DEF Learns, Ready
  <2>4. CASE g # h
    <3>1. call'[g] = call[g] /\ ~Ready(g)
      BY <2>2, <2>4 DEF Ready
    <3>2. ~call[g].alone /\ Upserting(call[g])
      BY <2>1, <2>4, <3>1 DEF AInv
    <3> QED
      BY <3>1, <3>2 DEF Upserting
  <2> QED
    BY <2>3, <2>4
<1>4. CASE UNCHANGED vectorVars
  <2>1. meta' = meta /\ table' = table /\ payload' = payload /\ call' = call
    BY <1>4 DEF vectorVars
  <2>2. /\ ~Ready(g) /\ Upserting(call[g])
        /\ call[g].alone => Knows(call[g]) /\ \A f \in Handles \ {g} : Ready(f)
    BY <2>1 DEF AInv, Ready
  <2>3. Entries' = Entries
    BY <2>1 DEF Entries
  <2> QED
    BY <2>1, <2>2, <2>3 DEF Upserting, Knows, Names, Ready
<1> QED
  BY <1>2, <1>3, <1>4 DEF Next

LEMMA AInvInit == Init => AInv
<1> SUFFICES ASSUME Init PROVE AInv
  OBVIOUS
<1>1. \A h \in Handles : Ready(h)
  BY CallFields DEF Init, Answers, Ready
<1> QED
  BY <1>1, TInvInit DEF AInv

\* If _index_meta can be read, an upsert that answers ok is found under its key
\* with its payload and a delete that answers ok leaves no vector under its key,
\* for every call beside which no other ran, whatever other calls left half done
\* before it (store.cpp, index.upsert and index.delete).
THEOREM AnswersAreKept == ASSUME ~Misreads PROVE Spec => AnswersHold
<1>1. ASSUME AInv, [Next]_vectorVars, NEW h \in Handles, ~Ready(h), call[h].alone,
             call'[h] = Answered("ok")
      PROVE  Promised(h)
  <2>1. call'[h].at = "idle" /\ call[h].at # "idle" /\ call \in [Handles -> Calls]
    BY <1>1, CallTyped DEF Answered, Ready, AInv, TInv
  <2>2. ASSUME NEW g \in Handles, Enter(g) PROVE Promised(h)
    <3>1. Ready(g) /\ \E c : Begins(g, c) /\ Enters(g, c)
      BY <1>1, <2>2, EnterBegins DEF AInv, TInv
    <3>2. PICK c : Begins(g, c) /\ Enters(g, c)
      BY <3>1
    <3>3. h # g
      BY <1>1, <3>1
    <3>4. Goes(call[h], call'[h])
      BY <1>1, <3>1, <3>2, <3>3, EntersEffect DEF Begins, AInv, TInv
    <3> QED
      BY <2>1, <3>4 DEF Goes
  <2>3. ASSUME NEW g \in Handles, Continue(g) \/ Fail(g) PROVE Promised(h)
    <3>1. g = h
      BY <2>1, <2>3, OnlyOwn
    <3>2. TInv'
      BY <1>1, TInvStep DEF AInv
    <3>3. Learns(h)
      BY <1>1, <2>3, <3>1, <3>2, UnderwayLearns
    <3> QED
      BY <1>1, <3>3 DEF Learns
  <2>4. CASE UNCHANGED vectorVars
    BY <2>1, <2>4 DEF vectorVars
  <2> QED
    BY <1>1, <2>2, <2>3, <2>4 DEF Next
<1>2. AInv /\ [Next]_vectorVars =>
        [\A h \in Handles : ~Ready(h) /\ call[h].alone /\ call'[h] = Answered("ok") =>
           Promised(h)]_vectorVars
  BY <1>1
<1>3. AInv /\ [Next]_vectorVars =>
        [\A h \in Handles : ~Ready(h) /\ call[h].alone /\ call'[h] = Answered("ok") =>
           LET c == call[h]
           IN  /\ c.op = "upsert" =>
                    /\ payload'[c.index][c.batch[1].key] = c.batch[1].value
                    /\ Entries'[c.index][c.batch[1].key] =
                         [embedding |-> c.embedding, value |-> c.batch[1].value]
               /\ c.op = "delete" => Entries'[c.index][c.key] = None]_vectorVars
  BY <1>2 DEF Promised
<1> QED
  BY <1>3, AInvInit, AInvStep, PTL DEF Spec, AnswersHold
=============================================================================
