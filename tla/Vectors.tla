------------------------------- MODULE Vectors -------------------------------
(***************************************************************************)
(* The vector indexes of a store: index.upsert, index.delete, index.search *)
(* and index.reindex as the sequences of SQL statements they are.          *)
(*                                                                         *)
(* Outside a savepoint scope every statement commits on its own, so other  *)
(* handles' statements, a failure or the end of the process can fall       *)
(* between any two of them.  An index is three things: a row of            *)
(* _index_meta, the vec0 table that row names, and its payloads in         *)
(* _vector_values.                                                         *)
(***************************************************************************)
EXTENDS Naturals, Sequences, FiniteSets

CONSTANTS
  Handles,      \* handles open on the store
  Indexes,      \* index names that pass validName
  Keys,         \* entry keys
  Values,       \* payloads
  Models,       \* embedding models, each with its revision
  Dimensions,   \* widths of embeddings and lengths of vectors
  MaxTables,    \* bound: tables vec_1 .. vec_MaxTables
  MaxBatch,     \* bound: vectors given to one reindex
  Fails,        \* whether a statement may fail
  Misreads,     \* whether the read of _index_meta may fail
  Overlaps,     \* which calls of two handles the callers let overlap
  None

ASSUME VectorsAssumption ==
  /\ IsFiniteSet(Handles)
  /\ MaxTables \in Nat /\ MaxBatch \in Nat \ {0}
  /\ Fails \in BOOLEAN /\ Misreads \in BOOLEAN
  /\ Overlaps \subseteq {"indexes", "reindex"}

VARIABLES
  meta,      \* _index_meta: the row of each index
  table,     \* the vec0 tables by number
  payload,   \* _vector_values
  call       \* the call each handle is in the middle of, or its last answer;
             \* `alone` in it tells whether no other call has run beside it

vectorVars == <<meta, table, payload, call>>

Embeddings == [model : Models, dimension : Dimensions]
Metas == [rowid : 1 .. MaxTables, table : 1 .. MaxTables, embedding : Embeddings]

\* A vector of a request: of the numbers, only how many there are matters.
Vecs == [key : Keys, length : Dimensions, value : Values]
Batches == UNION {[1 .. n -> Vecs] : n \in 0 .. MaxBatch}

\* A row of a vec0 table, with the embedding and the value of the request that
\* wrote it.
Stored == [embedding : Embeddings, value : Values]
Tables == [dimension : Dimensions, rows : [Keys -> Stored \cup {None}]]
NoRows == [k \in Keys |-> None]

ASSUME NoneAssumption == None \notin Values \cup Metas \cup Stored \cup Tables

Answers == {"ok", "mismatch", "error"}
Idle == [at : {"idle"}, answer : Answers]
Answered(a) == [at |-> "idle", answer |-> a]
WriteCalls ==
  [at : {"drop_table", "drop_values", "drop_meta", "allocate", "record", "create",
         "unkey", "insert", "payload"},
   op : {"upsert", "reindex"}, index : Indexes, embedding : Embeddings,
   found : Metas \cup {None}, table : 0 .. MaxTables, batch : Batches, todo : Batches,
   alone : BOOLEAN]
DeleteCalls ==
  [at : {"delete_vector", "delete_payload"}, op : {"delete"}, index : Indexes,
   key : Keys, table : 0 .. MaxTables, alone : BOOLEAN]
SearchCalls ==
  [at : {"count", "match", "payloads"}, op : {"search"}, index : Indexes,
   embedding : Embeddings, table : 1 .. MaxTables, hits : [Keys -> Stored \cup {None}],
   alone : BOOLEAN]

\* The tables and calls are what the statements of index.* make of them; an index
\* never names a table that no serial gave it (store.cpp, physicalName).
TypeOK ==
  /\ meta \in [Indexes -> Metas \cup {None}]
  /\ table \in [1 .. MaxTables -> Tables \cup {None}]
  /\ payload \in [Indexes -> [Keys -> Values \cup {None}]]
  /\ call \in [Handles -> Idle \cup WriteCalls \cup DeleteCalls \cup SearchCalls]

Init ==
  /\ meta = [i \in Indexes |-> None]
  /\ table = [n \in 1 .. MaxTables |-> None]
  /\ payload = [i \in Indexes |-> NoRows]
  /\ call = [h \in Handles |-> Answered("ok")]

----------------------------------------------------------------------------
(* Calls *)

Ready(h) == call[h].at = "idle"
At(h, step) == call[h].at = step
Answer(h, a) == call' = [call EXCEPT ![h] = Answered(a)]
GoTo(h, step) == call' = [call EXCEPT ![h].at = step]

\* The loop over the vectors still to write: one whose length is not the
\* embedding's dimension ends the call, and so does the end of the list.
WriteNext(c) ==
  IF c.todo = <<>> THEN Answered("ok")
  ELSE IF Head(c.todo).length # c.embedding.dimension THEN Answered("mismatch")
  ELSE [c EXCEPT !.at = "unkey"]

Others(h) == {g \in Handles \ {h} : ~Ready(g)}

\* readIndexMeta: a row that cannot be read is taken for one that is not there.
Found(i) == {meta[i]} \cup (IF Misreads THEN {None} ELSE {})

\* A call whose readIndexMeta found the row m for index i.
Entered(h, op, i, m, e, batch) ==
  [at |-> "allocate", op |-> op, index |-> i, embedding |-> e, found |-> m,
   table |-> IF m = None THEN 0 ELSE m.table, batch |-> batch, todo |-> batch,
   alone |-> Others(h) = {}]

\* Handle h begins with c; the calls under way are alone no longer.
Enters(h, c) ==
  call' = [g \in Handles |-> IF g = h THEN c
                             ELSE IF Ready(g) THEN call[g]
                             ELSE [call[g] EXCEPT !.alone = FALSE]]

\* What the callers see to: a reindex has the store to itself, and calls that
\* overlap are on one index, but for what Overlaps lets them do.
MayOverlap(h, op, i) ==
  \A g \in Others(h) :
    /\ "indexes" \in Overlaps \/ call[g].index = i
    /\ "reindex" \in Overlaps \/ "reindex" \notin {op, call[g].op}

Recorded == {i \in Indexes : meta[i] # None}

\* IFNULL(MAX(rowid), 0) + 1, and also the rowid SQLite gives the next row.
NextRowid ==
  CHOOSE n \in 1 .. MaxTables + 1 :
    /\ \A i \in Recorded : meta[i].rowid < n
    /\ n = 1 \/ \E i \in Recorded : meta[i].rowid = n - 1

\* Bound: callers start what may create an index while a table is left for it.
Room(h) == NextRowid + Cardinality(Others(h)) <= MaxTables

\* Mutant of Upsert: an index that exists takes any embedding.
UpsertAny(h, i, e, v) ==
  /\ Ready(h) /\ Room(h) /\ MayOverlap(h, "upsert", i)
  /\ \E m \in Found(i) :
       LET c == Entered(h, "upsert", i, m, e, <<v>>)
       IN  Enters(h, IF m = None THEN c ELSE WriteNext(c))
  /\ UNCHANGED <<meta, table, payload>>

\* index.upsert: an index that exists takes its own embedding only.
Upsert(h, i, e, v) ==
  /\ Ready(h) /\ Room(h) /\ MayOverlap(h, "upsert", i)
  /\ \E m \in Found(i) :
       LET c == Entered(h, "upsert", i, m, e, <<v>>)
       IN  Enters(h, IF m = None THEN c
                     ELSE IF m.embedding # e THEN Answered("mismatch")
                     ELSE WriteNext(c))
  /\ UNCHANGED <<meta, table, payload>>

\* index.reindex
Reindex(h, i, e, batch) ==
  /\ Ready(h) /\ Room(h) /\ MayOverlap(h, "reindex", i)
  /\ \E m \in Found(i) :
       LET c == Entered(h, "reindex", i, m, e, batch)
       IN  Enters(h, IF m = None THEN c ELSE [c EXCEPT !.at = "drop_table"])
  /\ UNCHANGED <<meta, table, payload>>

\* index.delete
Delete(h, i, k) ==
  /\ Ready(h) /\ MayOverlap(h, "delete", i)
  /\ \E m \in Found(i) :
       Enters(h, [at |-> IF m = None THEN "delete_payload" ELSE "delete_vector",
                  op |-> "delete", index |-> i, key |-> k,
                  table |-> IF m = None THEN 0 ELSE m.table,
                  alone |-> Others(h) = {}])
  /\ UNCHANGED <<meta, table, payload>>

\* Mutant of Search: the embedding is not compared.
SearchAny(h, i, e, first) ==
  /\ Ready(h) /\ MayOverlap(h, "search", i)
  /\ \E m \in Found(i) :
       Enters(h, IF m = None THEN Answered("ok")
                 ELSE [at |-> first, op |-> "search", index |-> i, embedding |-> e,
                       table |-> m.table, hits |-> NoRows, alone |-> Others(h) = {}])
  /\ UNCHANGED <<meta, table, payload>>

\* index.search, which counts first if it is given no k: an index that is not
\* there answers no hits, one of another embedding refuses.
Search(h, i, e, first) ==
  /\ Ready(h) /\ MayOverlap(h, "search", i)
  /\ \E m \in Found(i) :
       Enters(h, IF m = None THEN Answered("ok")
                 ELSE IF m.embedding # e THEN Answered("mismatch")
                 ELSE [at |-> first, op |-> "search", index |-> i, embedding |-> e,
                       table |-> m.table, hits |-> NoRows, alone |-> Others(h) = {}])
  /\ UNCHANGED <<meta, table, payload>>

----------------------------------------------------------------------------
(* dropIndex *)

\* Mutant of DropTable: DROP TABLE is forgotten.
DropTableForgotten(h) ==
  /\ At(h, "drop_table")
  /\ GoTo(h, "drop_values")
  /\ UNCHANGED <<meta, table, payload>>

DropTable(h) ==
  /\ At(h, "drop_table")
  /\ table' = [table EXCEPT ![call[h].table] = None]
  /\ GoTo(h, "drop_values")
  /\ UNCHANGED <<meta, payload>>

DropValues(h) ==
  /\ At(h, "drop_values")
  /\ payload' = [payload EXCEPT ![call[h].index] = NoRows]
  /\ GoTo(h, "drop_meta")
  /\ UNCHANGED <<meta, table>>

DropMeta(h) ==
  /\ At(h, "drop_meta")
  /\ meta' = [meta EXCEPT ![call[h].index] = None]
  /\ GoTo(h, "allocate")
  /\ UNCHANGED <<table, payload>>

----------------------------------------------------------------------------
(* createIndex *)

\* Mutant of Allocate: the number of rows stands for the largest.
AllocateCount(h) ==
  /\ At(h, "allocate")
  /\ call' = [call EXCEPT ![h].at = "record", ![h].table = Cardinality(Recorded) + 1]
  /\ UNCHANGED <<meta, table, payload>>

\* Mutant of Allocate: the IFNULL is forgotten, and NULL reads as 0.
AllocateNull(h) ==
  /\ At(h, "allocate")
  /\ call' = [call EXCEPT ![h].at = "record",
                         ![h].table = IF Recorded = {} THEN 0 ELSE NextRowid]
  /\ UNCHANGED <<meta, table, payload>>

Allocate(h) ==
  /\ At(h, "allocate")
  /\ call' = [call EXCEPT ![h].at = "record", ![h].table = NextRowid]
  /\ UNCHANGED <<meta, table, payload>>

\* INSERT INTO _index_meta, whose primary key is the index name.
Record(h) ==
  LET c == call[h]
  IN  /\ At(h, "record")
      /\ \/ /\ meta[c.index] # None
            /\ Answer(h, "error")
            /\ UNCHANGED meta
         \/ /\ meta[c.index] = None
            /\ meta' = [meta EXCEPT ![c.index] =
                          [rowid |-> NextRowid, table |-> c.table, embedding |-> c.embedding]]
            /\ GoTo(h, "create")
      /\ UNCHANGED <<table, payload>>

\* CREATE VIRTUAL TABLE IF NOT EXISTS, after which the vectors are looked at.
Create(h) ==
  LET c == call[h]
  IN  /\ At(h, "create")
      /\ table' = [table EXCEPT ![c.table] =
                     IF @ = None THEN [dimension |-> c.embedding.dimension, rows |-> NoRows]
                     ELSE @]
      /\ call' = [call EXCEPT ![h] = WriteNext(@)]
      /\ UNCHANGED <<meta, payload>>

----------------------------------------------------------------------------
(* writeVector *)

Item(h) == Head(call[h].todo)

\* A statement on a vec0 table that another handle dropped is an error.
Unkey(h) ==
  LET n == call[h].table
  IN  /\ At(h, "unkey")
      /\ \/ /\ table[n] = None
            /\ Answer(h, "error")
            /\ UNCHANGED table
         \/ /\ table[n] # None
            /\ table' = [table EXCEPT ![n].rows[Item(h).key] = None]
            /\ GoTo(h, "insert")
      /\ UNCHANGED <<meta, payload>>

\* vec0 takes a vector of its own length, under a key that is not there.
Takes(t, v) == t # None /\ t.dimension = v.length /\ t.rows[v.key] = None

Insert(h) ==
  LET c == call[h]
  IN  /\ At(h, "insert")
      /\ \/ /\ ~Takes(table[c.table], Item(h))
            /\ Answer(h, "error")
            /\ UNCHANGED table
         \/ /\ Takes(table[c.table], Item(h))
            /\ table' = [table EXCEPT ![c.table].rows[Item(h).key] =
                           [embedding |-> c.embedding, value |-> Item(h).value]]
            /\ GoTo(h, "payload")
      /\ UNCHANGED <<meta, payload>>

\* Mutant of SetPayload: a payload that is there is kept.
SetPayloadOnce(h) ==
  /\ At(h, "payload")
  /\ payload' = [payload EXCEPT ![call[h].index][Item(h).key] =
                   IF @ = None THEN Item(h).value ELSE @]
  /\ call' = [call EXCEPT ![h] = WriteNext([call[h] EXCEPT !.todo = Tail(@)])]
  /\ UNCHANGED <<meta, table>>

SetPayload(h) ==
  /\ At(h, "payload")
  /\ payload' = [payload EXCEPT ![call[h].index][Item(h).key] = Item(h).value]
  /\ call' = [call EXCEPT ![h] = WriteNext([call[h] EXCEPT !.todo = Tail(@)])]
  /\ UNCHANGED <<meta, table>>

----------------------------------------------------------------------------
(* index.delete *)

DeleteVector(h) ==
  LET c == call[h]
  IN  /\ At(h, "delete_vector")
      /\ \/ /\ table[c.table] = None
            /\ Answer(h, "error")
            /\ UNCHANGED table
         \/ /\ table[c.table] # None
            /\ table' = [table EXCEPT ![c.table].rows[c.key] = None]
            /\ GoTo(h, "delete_payload")
      /\ UNCHANGED <<meta, payload>>

\* Whether the payload could be deleted is not asked.
DeletePayload(h) ==
  LET c == call[h]
  IN  /\ At(h, "delete_payload")
      /\ \/ payload' = [payload EXCEPT ![c.index][c.key] = None]
         \/ Fails /\ UNCHANGED payload
      /\ Answer(h, "ok")
      /\ UNCHANGED <<meta, table>>

----------------------------------------------------------------------------
(* index.search *)

\* SELECT COUNT: 0 of a table that is not there or cannot be read.
HasRows(t) == t # None /\ t.rows # NoRows

Count(h) ==
  /\ At(h, "count")
  /\ \/ /\ HasRows(table[call[h].table]) => Fails
        /\ Answer(h, "ok")
     \/ HasRows(table[call[h].table]) /\ GoTo(h, "match")
  /\ UNCHANGED <<meta, table, payload>>

\* The neighbours: k and a read that ends early leave some of the rows out; a
\* table of another width refuses the vector, which ends the loop over its rows.
Match(h) ==
  LET c == call[h]
      t == table[c.table]
  IN  /\ At(h, "match")
      /\ \/ t = None /\ Answer(h, "error")
         \/ /\ t # None
            /\ \E some \in SUBSET Keys :
                 LET found == IF t.dimension = c.embedding.dimension THEN some ELSE {}
                     hits  == [k \in Keys |-> IF k \in found THEN t.rows[k] ELSE None]
                 IN  call' = [call EXCEPT ![h].at = "payloads", ![h].hits = hits]
      /\ UNCHANGED <<meta, table, payload>>

\* Each hit's payload is read, and where there is none {} is answered.
Payloads(h) ==
  /\ At(h, "payloads")
  /\ Answer(h, "ok")
  /\ UNCHANGED <<meta, table, payload>>

----------------------------------------------------------------------------

\* A statement fails (the lock was not to be had in time, the disk is full), or
\* the process goes before it: what was committed until then stays.
Fail(h) ==
  /\ Fails
  /\ ~Ready(h) /\ call[h].at \notin {"delete_payload", "count", "payloads"}
  /\ Answer(h, "error")
  /\ UNCHANGED <<meta, table, payload>>

Continue(h) ==
  \/ DropTable(h) \/ DropValues(h) \/ DropMeta(h)
  \/ Allocate(h) \/ Record(h) \/ Create(h)
  \/ Unkey(h) \/ Insert(h) \/ SetPayload(h)
  \/ DeleteVector(h) \/ DeletePayload(h)
  \/ Count(h) \/ Match(h) \/ Payloads(h)

Enter(h) ==
  \E i \in Indexes :
    \/ \E e \in Embeddings, v \in Vecs : Upsert(h, i, e, v)
    \/ \E e \in Embeddings, batch \in Batches : Reindex(h, i, e, batch)
    \/ \E k \in Keys : Delete(h, i, k)
    \/ \E e \in Embeddings, first \in {"count", "match"} : Search(h, i, e, first)

Next == \E h \in Handles : Enter(h) \/ Continue(h) \/ Fail(h)

Spec == Init /\ [][Next]_vectorVars

----------------------------------------------------------------------------
(* Properties *)

\* What a search of each index has to go by.
Entries ==
  [i \in Indexes |->
     IF meta[i] = None THEN NoRows
     ELSE IF table[meta[i].table] = None THEN NoRows ELSE table[meta[i].table].rows]

\* Every vector a search of an index compares with was written under the
\* embedding the index answers with ("homogeneous by construction").
Homogeneous ==
  \A i \in Indexes, k \in Keys :
    Entries[i][k] # None => Entries[i][k].embedding = meta[i].embedding

\* A search never answers a vector that was written under another embedding
\* than the one it asks with, although it compares the two by a row it read
\* before (store.cpp, index.search, meta; "this search would return confident
\* nonsense", vectors.md).
SearchSound ==
  \A h \in Handles : At(h, "payloads") =>
    \A k \in Keys :
      LET hit == call[h].hits[k] IN hit # None => hit.embedding = call[h].embedding

\* A call on one index never changes what another index finds.
OthersUntouched ==
  [][\A h \in Handles, i \in Indexes :
       ~Ready(h) /\ call'[h] # call[h] /\ call[h].index # i
         => Entries'[i] = Entries[i] /\ payload'[i] = payload[i]]_vectorVars

\* What a list of vectors leaves under key k: the last one of that key.
Last(batch, k) ==
  LET at == {n \in DOMAIN batch : batch[n].key = k}
  IN  IF at = {} THEN None ELSE batch[CHOOSE n \in at : \A m \in at : m <= n].value

\* A reindex that answers ok leaves the vectors it was given and no other,
\* whatever an earlier call left behind half done.
ReindexExact ==
  [][\A h \in Handles : ~Ready(h) /\ call[h].op = "reindex" /\ call'[h] = Answered("ok") =>
       LET c == call[h]
       IN  /\ meta'[c.index].embedding = c.embedding
           /\ \A k \in Keys :
                /\ payload'[c.index][k] = Last(c.batch, k)
                /\ IF Last(c.batch, k) = None THEN Entries'[c.index][k] = None
                   ELSE Entries'[c.index][k] =
                          [embedding |-> c.embedding, value |-> Last(c.batch, k)]]_vectorVars

\* An upsert that answers ok is found with its payload, and a delete that
\* answers ok leaves no vector to find, unless another call ran beside it.
AnswersHold ==
  [][\A h \in Handles : ~Ready(h) /\ call[h].alone /\ call'[h] = Answered("ok") =>
       LET c == call[h]
       IN  /\ c.op = "upsert" =>
                /\ payload'[c.index][c.batch[1].key] = c.batch[1].value
                /\ Entries'[c.index][c.batch[1].key] =
                     [embedding |-> c.embedding, value |-> c.batch[1].value]
           /\ c.op = "delete" => Entries'[c.index][c.key] = None]_vectorVars

\* An upsert refused for its embedding or its length leaves the index, or its
\* absence, as it was.
RefusalChangesNothing ==
  [][\A h \in Handles : ~Ready(h) /\ call[h].op = "upsert" /\ call'[h] = Answered("mismatch")
       => meta'[call[h].index] = call[h].found]_vectorVars
==============================================================================
