------------------------------- MODULE TsStore -------------------------------
(***************************************************************************)
(* The TypeScript binding: the class Local over node:sqlite.  It answers   *)
(* from two caches, the declared stores and the embeddings of the indexes, *)
(* which #reload fills from the database.                                  *)
(*                                                                         *)
(* Every method is synchronous, so it runs whole; an exception leaves what *)
(* its statements did until then.  One Local is on the directory.          *)
(***************************************************************************)
EXTENDS RowData, Naturals, Sequences

CONSTANTS
  Indexes,          \* index names
  Models,           \* embedding models, each with its revision
  Dimensions,       \* widths of embeddings and lengths of vectors
  Labels,           \* snapshot labels
  ScopeNames,       \* savepoint names
  MaxScopes,        \* bound: savepoints open at once
  MaxBatch,         \* bound: vectors given to one reindex
  ScopedSchema,     \* callers declare stores and make indexes inside a scope
  None

ASSUME TsAssumption ==
  /\ MaxScopes \in Nat /\ MaxBatch \in Nat \ {0}
  /\ ScopedSchema \in BOOLEAN

VARIABLES
  now,       \* the content the connection reads
  scopes,    \* the open savepoints and the content each saved
  stores,    \* #stores
  indexes,   \* #indexes
  snaps      \* the files of snapshots/

localVars == <<now, scopes, stores, indexes, snaps>>

Embeddings == [model : Models, dimension : Dimensions]
Vecs == [key : Keys, length : Dimensions]
Batches == UNION {[1 .. n -> Vecs] : n \in 0 .. MaxBatch}

\* The four tables: of an entry, the embedding it was written under matters.
Contents ==
  [data : Database, meta : [Indexes -> Embeddings \cup {None}],
   entries : [Indexes -> [Keys -> Embeddings \cup {None}]]]
NoEntries == [k \in Keys |-> None]
Empty == [data |-> Blank, meta |-> [i \in Indexes |-> None],
          entries |-> [i \in Indexes |-> NoEntries]]

\* What another process, or a reload, would find.
Committed == IF scopes = <<>> THEN now ELSE scopes[1].saved

Init ==
  /\ now = Empty /\ scopes = <<>>
  /\ stores = {} /\ indexes = Empty.meta
  /\ snaps = [l \in Labels |-> None]

----------------------------------------------------------------------------
(* Rows *)

MayMakeSchema == ScopedSchema \/ scopes = <<>>

DeclareStore(s) ==
  /\ MayMakeSchema
  /\ now' = [now EXCEPT !.data = Declared(@, s)]
  /\ stores' = stores \cup {s}
  /\ UNCHANGED <<scopes, indexes, snaps>>

\* put, or delete when v is NoValue; #requireStore asks the cache.
PutOrDelete(s, k, v) ==
  /\ s \in stores
  /\ now' = [now EXCEPT !.data = WithRow(@, s, k, v)]
  /\ UNCHANGED <<scopes, stores, indexes, snaps>>

----------------------------------------------------------------------------
(* Savepoints: none of them looks at the caches *)

Savepoint(n) ==
  /\ Len(scopes) < MaxScopes
  /\ scopes' = Append(scopes, [name |-> n, saved |-> now])
  /\ UNCHANGED <<now, stores, indexes, snaps>>

Innermost(n, k) ==
  /\ scopes[k].name = n
  /\ \A j \in k + 1 .. Len(scopes) : scopes[j].name # n

Release(n) ==
  /\ \E k \in DOMAIN scopes : Innermost(n, k) /\ scopes' = SubSeq(scopes, 1, k - 1)
  /\ UNCHANGED <<now, stores, indexes, snaps>>

\* ROLLBACK TO, then RELEASE.
Rollback(n) ==
  /\ \E k \in DOMAIN scopes :
       /\ Innermost(n, k)
       /\ now' = scopes[k].saved
       /\ scopes' = SubSeq(scopes, 1, k - 1)
  /\ UNCHANGED <<stores, indexes, snaps>>

----------------------------------------------------------------------------
(* Snapshots and reopening *)

\* The file goes first; VACUUM INTO is refused inside a scope.
Snapshot(l) ==
  /\ snaps' = [snaps EXCEPT ![l] = IF scopes = <<>> THEN now ELSE None]
  /\ UNCHANGED <<now, scopes, stores, indexes>>

\* The database is opened anew with this content, and #reload reads it.
Reopened(content) ==
  /\ now' = content /\ scopes' = <<>>
  /\ stores' = content.data.stores /\ indexes' = content.meta

\* Mutant of Restore: it opens the file and does not reload.
RestoreUnreloaded(l) ==
  /\ snaps[l] # None
  /\ now' = snaps[l] /\ scopes' = <<>>
  /\ UNCHANGED <<stores, indexes, snaps>>

Restore(l) ==
  /\ snaps[l] # None
  /\ Reopened(snaps[l])
  /\ UNCHANGED snaps

\* crash(), and close() followed by a new Local.
Crash == Reopened(Committed) /\ UNCHANGED snaps

----------------------------------------------------------------------------
(* Vectors *)

\* indexUpsert of an index the cache does not know: the row of _index_meta
\* comes first, and stays when the length is then refused.
UpsertFirst(i, e, v) ==
  /\ MayMakeSchema
  /\ indexes[i] = None
  /\ now' = [now EXCEPT !.meta[i] = e,
                        !.entries[i][v.key] = IF v.length = e.dimension THEN e ELSE @]
  /\ indexes' = [indexes EXCEPT ![i] = e]
  /\ UNCHANGED <<scopes, stores, snaps>>

\* Mutant of UpsertKnown: the stored embedding is not compared.
UpsertUnchecked(i, e, v) ==
  /\ indexes[i] # None /\ v.length = e.dimension
  /\ now' = [now EXCEPT !.entries[i][v.key] = e]
  /\ UNCHANGED <<scopes, stores, indexes, snaps>>

\* indexUpsert of a known index, which takes its own embedding only.
UpsertKnown(i, e, v) ==
  /\ indexes[i] = e /\ v.length = e.dimension
  /\ now' = [now EXCEPT !.entries[i][v.key] = e]
  /\ UNCHANGED <<scopes, stores, indexes, snaps>>

IndexDelete(i, k) ==
  /\ now' = [now EXCEPT !.entries[i][k] = None]
  /\ UNCHANGED <<scopes, stores, indexes, snaps>>

\* The keys that a reindex has written when it ends, or throws at the first
\* vector of another length.
Written(batch, e) ==
  {batch[n].key : n \in {n \in DOMAIN batch : \A m \in 1 .. n : batch[m].length = e.dimension}}

IndexReindex(i, e, batch) ==
  /\ MayMakeSchema
  /\ now' = [now EXCEPT !.meta[i] = e,
                        !.entries[i] = [k \in Keys |-> IF k \in Written(batch, e) THEN e
                                                       ELSE None]]
  /\ indexes' = [indexes EXCEPT ![i] = e]
  /\ UNCHANGED <<scopes, stores, snaps>>

----------------------------------------------------------------------------

Next ==
  \/ \E s \in Stores : DeclareStore(s)
  \/ \E s \in Stores, k \in Keys, v \in Values \cup {NoValue} : PutOrDelete(s, k, v)
  \/ \E n \in ScopeNames : Savepoint(n) \/ Release(n) \/ Rollback(n)
  \/ \E l \in Labels : Snapshot(l) \/ Restore(l)
  \/ Crash
  \/ \E i \in Indexes, e \in Embeddings :
       \/ \E v \in Vecs : UpsertFirst(i, e, v) \/ UpsertKnown(i, e, v)
       \/ \E batch \in Batches : IndexReindex(i, e, batch)
  \/ \E i \in Indexes, k \in Keys : IndexDelete(i, k)

Spec == Init /\ [][Next]_localVars

----------------------------------------------------------------------------
(* Properties *)

\* The caches say what the database says, whatever was rolled back, restored
\* or lost (#reload runs when a Local opens, not when a scope ends).
CachesTrue == stores = now.data.stores /\ indexes = now.meta

\* No content that is read, rolled back to or restored has a row of a store
\* that was not declared ("a store must be DECLARED").
DeclaredRows ==
  \A c \in {now} \cup {scopes[k].saved : k \in DOMAIN scopes} \cup {snaps[l] : l \in Labels} :
    c # None => RowsDeclared(c.data)

\* A committed vector is found after a process loss, under the embedding it
\* was written with: its index is known, and has that embedding.
CommittedFindable ==
  \A i \in Indexes, k \in Keys :
    Committed.entries[i][k] # None => Committed.meta[i] = Committed.entries[i][k]
==============================================================================
