-------------------------- MODULE VectorsInvariant --------------------------
(***************************************************************************)
(* Inductive invariants of Vectors: what the types rest on, what holds of  *)
(* the indexes and of the calls on them while callers keep their           *)
(* discipline, how far a reindex has come, and what a call that has run    *)
(* alone knows.                                                            *)
(***************************************************************************)
EXTENDS Vectors

Calls == Idle \cup WriteCalls \cup DeleteCalls \cup SearchCalls

Writing == {"unkey", "insert", "payload"}
Dropping == {"drop_table", "drop_values", "drop_meta"}
Creating == Dropping \cup {"allocate", "record"}

----------------------------------------------------------------------------
(* For every use of the store *)

\* The calls that may still create an index leave a table for each.
Creators == {h \in Handles : call[h].at \in Creating}
Fits == NextRowid + Cardinality(Creators) <= MaxTables + 1

\* A call that works on a table has one, and a call that writes a vector has
\* one to write, of its embedding's length.
Placed(c) ==
  /\ c.at \in {"drop_table", "record", "create", "delete_vector"} \cup Writing
       => c.table \in 1 .. MaxTables
  /\ c.at \in Writing => c.todo # <<>> /\ Head(c.todo).length = c.embedding.dimension

TInv == TypeOK /\ Fits /\ \A h \in Handles : Placed(call[h])

----------------------------------------------------------------------------
(* While calls that overlap are on one index and none is a reindex *)

Disciplined ==
  \A g, h \in Handles : g # h /\ ~Ready(g) /\ ~Ready(h) =>
    call[g].index = call[h].index /\ call[g].op # "reindex"

\* No two indexes share a table, and the number of a table is the rowid of the
\* index it belongs to.
OwnTables ==
  \A i \in Recorded :
    /\ meta[i].rowid = meta[i].table
    /\ \A j \in Recorded \ {i} : meta[j].table # meta[i].table

\* No table and no payload is left of an index that is not there.
NoStrays ==
  /\ \A n \in 1 .. MaxTables : table[n] # None => \E i \in Recorded : meta[i].table = n
  /\ \A i \in Indexes : meta[i] = None => payload[i] = NoRows

\* The index of a call is there, on the table the call works on.
Names(c) == meta[c.index] # None /\ meta[c.index].table = c.table

\* What a call read before its last step is still so.
Current(c) ==
  /\ c.at \in Dropping => c.op = "reindex" /\ Names(c)
  /\ c.at \in {"drop_values", "drop_meta"} => table[c.table] = None
  /\ c.at = "drop_meta" => payload[c.index] = NoRows
  /\ c.at = "record" /\ meta[c.index] = None => c.table = NextRowid
  /\ c.at = "delete_vector" => Names(c)
  /\ c.at \in {"create", "count", "match"} \cup Writing =>
       Names(c) /\ meta[c.index].embedding = c.embedding
  /\ c.at = "payloads" =>
       \A k \in Keys : c.hits[k] # None => c.hits[k].embedding = c.embedding

HInv ==
  /\ TInv /\ Disciplined /\ OwnTables /\ NoStrays /\ Homogeneous
  /\ \A h \in Handles : Current(call[h])

----------------------------------------------------------------------------
(* How far a reindex has come *)

\* The vectors of c that are written, and those that are not, are the batch.
Done(c) == Len(c.batch) - Len(c.todo)
Suffix(c) ==
  /\ Len(c.todo) <= Len(c.batch)
  /\ \A n \in 1 .. Len(c.todo) : c.todo[n] = c.batch[Done(c) + n]

\* v is the value of the last of the first n vectors of the batch under key k.
LastOf(batch, n, k, v) ==
  \/ v = None /\ \A m \in 1 .. n : batch[m].key # k
  \/ \E m \in 1 .. n :
       /\ batch[m].key = k /\ v = batch[m].value
       /\ \A j \in m + 1 .. n : batch[j].key # k

\* Likewise the row r of a vec0 table, of a reindex to embedding e.
RowOf(batch, n, k, e, r) ==
  \/ r = None /\ LastOf(batch, n, k, None)
  \/ r # None /\ r.embedding = e /\ LastOf(batch, n, k, r.value)

Reindexed(c) ==
  /\ Suffix(c)
  /\ c.at \in {"allocate", "record", "create"} \cup Dropping => Done(c) = 0
  /\ c.at = "create" => table[c.table] = None /\ payload[c.index] = NoRows
  /\ c.at \in Writing =>
       /\ table[c.table] # None
       /\ \A k \in Keys :
            /\ LastOf(c.batch, Done(c), k, payload[c.index][k])
            /\ LET r == table[c.table].rows[k]
               IN  IF c.at # "unkey" /\ k = Head(c.todo).key
                   THEN IF c.at = "insert" THEN r = None
                        ELSE RowOf(c.batch, Done(c) + 1, k, c.embedding, r)
                   ELSE RowOf(c.batch, Done(c), k, c.embedding, r)

XInv ==
  /\ HInv
  /\ \A h \in Handles : ~Ready(h) /\ call[h].op = "reindex" => Reindexed(call[h])

----------------------------------------------------------------------------
(* Calls that run alone *)

\* An upsert has its one vector before it until the last step.
Upserting(c) == c.op = "upsert" => c.todo = c.batch /\ Len(c.batch) = 1

\* What a call that has run alone since it began knows of the store.
Knows(c) ==
  /\ c.at \in {"create", "delete_vector"} \cup Writing => Names(c)
  /\ c.at = "payload" =>
       /\ table[c.table] # None
       /\ table[c.table].rows[Head(c.todo).key] =
            [embedding |-> c.embedding, value |-> Head(c.todo).value]
  /\ c.at = "delete_payload" => Entries[c.index][c.key] = None

AInv ==
  /\ TInv
  /\ \A h \in Handles : ~Ready(h) =>
       /\ Upserting(call[h])
       /\ call[h].alone => Knows(call[h]) /\ \A g \in Handles \ {h} : Ready(g)
==============================================================================
