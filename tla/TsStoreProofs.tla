--------------------------- MODULE TsStoreProofs ----------------------------
(***************************************************************************)
(* The caches of the TypeScript binding are true, and what it keeps is     *)
(* declared and findable, for callers who declare stores and make indexes  *)
(* outside a scope: no content that a scope, a snapshot or a process loss  *)
(* can bring back has other stores or other indexes than the caches.       *)
(***************************************************************************)
EXTENDS TsStore, TLAPS, SequenceTheorems

\* Every vector has the embedding that its index has.
Findable(c) ==
  \A i \in Indexes, k \in Keys :
    c.entries[i][k] # None => c.meta[i] = c.entries[i][k]

GoodContent(c) == c \in Contents /\ RowsDeclared(c.data) /\ Findable(c)

\* What the caches say of content c.
SameSchema(c) == stores = c.data.stores /\ indexes = c.meta

ScopesGood ==
  /\ scopes \in Seq([name : ScopeNames, saved : Contents])
  /\ \A k \in DOMAIN scopes :
       GoodContent(scopes[k].saved) /\ SameSchema(scopes[k].saved)

SnapsGood ==
  /\ snaps \in [Labels -> Contents \cup {None}]
  /\ \A l \in Labels : snaps[l] # None => GoodContent(snaps[l])

\* Snapshots may have other stores and indexes, and Restore reloads.  Scopes
\* may not, and Rollback does not.
IInv == GoodContent(now) /\ SameSchema(now) /\ ScopesGood /\ SnapsGood

----------------------------------------------------------------------------
(* What the statements make of a content *)

\* Declaring a store leaves every row where it is.
LEMMA DeclaredKeeps ==
  ASSUME NEW c, GoodContent(c), NEW s \in Stores
  PROVE  /\ GoodContent([c EXCEPT !.data = Declared(@, s)])
         /\ [c EXCEPT !.data = Declared(@, s)].data.stores = c.data.stores \cup {s}
<1> DEFINE d == [c EXCEPT !.data = Declared(@, s)]
<1>1. /\ c \in Contents /\ c.data \in Database
      /\ RowsDeclared(c.data) /\ Findable(c)
  BY DEF GoodContent, Contents
<1>2. /\ d.data.rows = c.data.rows /\ d.data.stores = c.data.stores \cup {s}
      /\ d.data \in Database /\ d.meta = c.meta /\ d.entries = c.entries
  BY <1>1 DEF Contents, Database, Declared
<1>3. d \in Contents
  BY <1>1, <1>2 DEF Contents
<1>4. RowsDeclared(d.data)
  BY <1>1, <1>2 DEF RowsDeclared, HasRow
<1>5. Findable(d)
  BY <1>1, <1>2 DEF Findable
<1> QED
  BY <1>2, <1>3, <1>4, <1>5 DEF GoodContent

\* A row that is written or deleted is one of a declared store.
LEMMA RowKeeps ==
  ASSUME NEW c, GoodContent(c), NEW s \in Stores, NEW k \in Keys,
         NEW v \in Values \cup {NoValue}, s \in c.data.stores
  PROVE  /\ GoodContent([c EXCEPT !.data = WithRow(@, s, k, v)])
         /\ [c EXCEPT !.data = WithRow(@, s, k, v)].data.stores = c.data.stores
<1> DEFINE d == [c EXCEPT !.data = WithRow(@, s, k, v)]
<1>1. /\ c \in Contents /\ c.data \in Database
      /\ RowsDeclared(c.data) /\ Findable(c)
  BY DEF GoodContent, Contents
<1> DEFINE r == [c.data.rows EXCEPT ![s][k] = v]
<1>2. /\ d.data.rows = r /\ d.data.stores = c.data.stores
      /\ d.data = [stores |-> d.data.stores, rows |-> d.data.rows]
      /\ d.meta = c.meta /\ d.entries = c.entries
      /\ d = [data |-> d.data, meta |-> d.meta, entries |-> d.entries]
  <2>1. /\ d.data = WithRow(c.data, s, k, v)
        /\ d.meta = c.meta /\ d.entries = c.entries
        /\ d = [data |-> d.data, meta |-> d.meta, entries |-> d.entries]
    BY <1>1 DEF Contents
  <2>2. /\ WithRow(c.data, s, k, v).rows = r
        /\ WithRow(c.data, s, k, v).stores = c.data.stores
        /\ WithRow(c.data, s, k, v) = [stores |-> c.data.stores, rows |-> r]
    BY <1>1 DEF Database, WithRow
  <2> QED
    BY <2>1, <2>2
<1>3. c.data.rows \in [Stores -> [Keys -> Values \cup {NoValue}]]
  BY <1>1 DEF Database, Rows
<1>4. /\ r \in [Stores -> [Keys -> Values \cup {NoValue}]]
      /\ \A t \in Stores : t # s => r[t] = c.data.rows[t]
  BY <1>3
<1> HIDE DEF r, d
<1>5. d.data \in Database
  BY <1>1, <1>2, <1>4 DEF Database, Rows
<1>6. d \in Contents
  BY <1>1, <1>2, <1>5 DEF Contents
<1>7. \A t \in Stores : t # s => d.data.rows[t] = c.data.rows[t]
  BY <1>2, <1>4
<1>8. RowsDeclared(d.data)
  BY <1>1, <1>2, <1>7 DEF RowsDeclared, HasRow
<1>9. Findable(d)
  BY <1>1, <1>2 DEF Findable
<1> QED
  BY <1>2, <1>6, <1>8, <1>9 DEF GoodContent, d

\* The vectors of one index change to ones that are all under its embedding.
LEMMA IndexKeeps ==
  ASSUME NEW c, GoodContent(c), NEW d, NEW i \in Indexes,
         d \in Contents, d.data = c.data,
         \A j \in Indexes : j # i =>
            d.meta[j] = c.meta[j] /\ d.entries[j] = c.entries[j],
         \A k \in Keys : d.entries[i][k] # None => d.meta[i] = d.entries[i][k]
  PROVE  GoodContent(d)
<1>1. RowsDeclared(d.data) /\ Findable(c)
  BY DEF GoodContent
<1>2. Findable(d)
  <2> SUFFICES ASSUME NEW j \in Indexes, NEW k \in Keys, d.entries[j][k] # None
               PROVE  d.meta[j] = d.entries[j][k]
    BY DEF Findable
  <2>1. CASE j = i
    BY <2>1
  <2>2. CASE j # i
    BY <2>2, <1>1 DEF Findable
  <2> QED
    BY <2>1, <2>2
<1> QED
  BY <1>1, <1>2 DEF GoodContent

LEMMA EntryFacts ==
  ASSUME NEW c \in Contents
  PROVE  /\ c.meta \in [Indexes -> Embeddings \cup {None}]
         /\ c.entries \in [Indexes -> [Keys -> Embeddings \cup {None}]]
         /\ c.data \in Database
         /\ c = [data |-> c.data, meta |-> c.meta, entries |-> c.entries]
BY DEF Contents

\* One vector of an index is written with embedding e, or removed.
LEMMA EntryTyped ==
  ASSUME NEW f \in [Indexes -> [Keys -> Embeddings \cup {None}]],
         NEW i \in Indexes, NEW k \in Keys, NEW x \in Embeddings \cup {None}
  PROVE  /\ [f EXCEPT ![i][k] = x] \in [Indexes -> [Keys -> Embeddings \cup {None}]]
         /\ [f EXCEPT ![i][k] = x][i][k] = x
         /\ \A m \in Keys : m # k => [f EXCEPT ![i][k] = x][i][m] = f[i][m]
         /\ \A j \in Indexes : j # i => [f EXCEPT ![i][k] = x][j] = f[j]
OBVIOUS

----------------------------------------------------------------------------
(* The actions *)

\* A statement changes the content and the caches alike, while no scope is open
\* or without touching what the caches say.
LEMMA StatementKeeps ==
  ASSUME IInv, GoodContent(now'), SameSchema(now)',
         UNCHANGED <<scopes, snaps>>,
         scopes = <<>> \/ (UNCHANGED <<stores, indexes>>)
  PROVE  IInv'
<1>1. ScopesGood'
  <2>1. CASE scopes = <<>>
    <3>1. DOMAIN scopes = {}
      BY <2>1
    <3> QED
      BY <3>1 DEF IInv, ScopesGood
  <2>2. CASE UNCHANGED <<stores, indexes>>
    BY <2>2 DEF IInv, ScopesGood, SameSchema
  <2> QED
    BY <2>1, <2>2
<1>2. SnapsGood'
  BY DEF IInv, SnapsGood
<1> QED
  BY <1>1, <1>2 DEF IInv

LEMMA DeclareStoreKeeps ==
  ASSUME ~ScopedSchema, IInv, NEW s \in Stores, DeclareStore(s)
  PROVE  IInv'
<1>1. GoodContent(now') /\ now'.data.stores = now.data.stores \cup {s}
  BY DeclaredKeeps DEF DeclareStore, IInv
<1>2. now'.meta = now.meta
  BY DEF DeclareStore, IInv, GoodContent, Contents
<1>3. scopes = <<>> /\ UNCHANGED <<scopes, snaps>>
  BY DEF DeclareStore, MayMakeSchema
<1>4. SameSchema(now)'
  BY <1>1, <1>2 DEF DeclareStore, SameSchema, IInv
<1> QED
  BY <1>1, <1>3, <1>4, StatementKeeps

LEMMA PutOrDeleteKeeps ==
  ASSUME IInv, NEW s \in Stores, NEW k \in Keys, NEW v \in Values \cup {NoValue},
         PutOrDelete(s, k, v)
  PROVE  IInv'
<1>1. s \in now.data.stores
  BY DEF PutOrDelete, IInv, SameSchema
<1>2. GoodContent(now') /\ now'.data.stores = now.data.stores
  BY <1>1, RowKeeps DEF PutOrDelete, IInv
<1>3. now'.meta = now.meta
  BY DEF PutOrDelete, IInv, GoodContent, Contents
<1>4. SameSchema(now)' /\ UNCHANGED <<scopes, snaps, stores, indexes>>
  BY <1>2, <1>3 DEF PutOrDelete, SameSchema, IInv
<1> QED
  BY <1>2, <1>4, StatementKeeps

LEMMA SavepointKeeps ==
  ASSUME IInv, NEW n \in ScopeNames, Savepoint(n)
  PROVE  IInv'
<1> DEFINE e == [name |-> n, saved |-> now]
<1>1. /\ e \in [name : ScopeNames, saved : Contents]
      /\ GoodContent(e.saved) /\ SameSchema(e.saved)
  BY DEF IInv, GoodContent
<1>2. /\ scopes \in Seq([name : ScopeNames, saved : Contents])
      /\ \A k \in DOMAIN scopes :
           GoodContent(scopes[k].saved) /\ SameSchema(scopes[k].saved)
  BY DEF IInv, ScopesGood
<1>3. scopes' = Append(scopes, e) /\ UNCHANGED <<now, stores, indexes, snaps>>
  BY DEF Savepoint
<1> HIDE DEF e
<1>4. /\ scopes' \in Seq([name : ScopeNames, saved : Contents])
      /\ \A k \in DOMAIN scopes' : scopes'[k] = e \/ (k \in DOMAIN scopes /\ scopes'[k] = scopes[k])
  BY <1>1, <1>2, <1>3, AppendProperties, LenProperties
<1>5. \A k \in DOMAIN scopes' :
        GoodContent(scopes'[k].saved) /\ SameSchema(scopes'[k].saved)
  BY <1>1, <1>2, <1>4, Zenon
<1>6. ScopesGood'
  BY <1>3, <1>4, <1>5 DEF ScopesGood, SameSchema
<1> QED
  BY <1>3, <1>6 DEF IInv, SnapsGood, SameSchema

\* The elements of a sequence before place k.
LEMMA ScopesBefore ==
  ASSUME NEW S, NEW q \in Seq(S), NEW k \in DOMAIN q
  PROVE  /\ k - 1 \in Nat
         /\ SubSeq(q, 1, k - 1) \in Seq(S)
         /\ DOMAIN SubSeq(q, 1, k - 1) = 1 .. k - 1
         /\ \A j \in 1 .. k - 1 : j \in DOMAIN q /\ SubSeq(q, 1, k - 1)[j] = q[j]
<1> DEFINE r == SubSeq(q, 1, k - 1)
<1>1. Len(q) \in Nat /\ DOMAIN q = 1 .. Len(q) /\ \A j \in DOMAIN q : q[j] \in S
  BY LenProperties, ElementOfSeq
<1>2. k \in Nat /\ k - 1 \in Nat /\ k - 1 <= Len(q)
  BY <1>1
<1>3. \A j \in 1 .. k - 1 : j \in DOMAIN q /\ q[j] \in S
  BY <1>1, <1>2
<1>4. /\ r \in Seq(S)
      /\ Len(r) = IF 1 <= k - 1 THEN (k - 1) - 1 + 1 ELSE 0
      /\ \A j \in 1 .. (k - 1) - 1 + 1 : r[j] = q[1 + j - 1]
  BY <1>2, <1>3, SubSeqProperties
<1> HIDE DEF r
<1>5. Len(r) = k - 1 /\ \A j \in 1 .. k - 1 : r[j] = q[j]
  BY <1>2, <1>4
<1>6. DOMAIN r = 1 .. k - 1
  BY <1>4, <1>5, LenProperties
<1> QED
  BY <1>2, <1>3, <1>4, <1>5, <1>6 DEF r

\* The scopes outside scope k are still there when it ends.
LEMMA ScopesShrink ==
  ASSUME ScopesGood, NEW k \in DOMAIN scopes, scopes' = SubSeq(scopes, 1, k - 1),
         UNCHANGED <<stores, indexes>>
  PROVE  ScopesGood'
<1> DEFINE S == [name : ScopeNames, saved : Contents]
<1>1. /\ scopes \in Seq(S)
      /\ \A j \in DOMAIN scopes :
           GoodContent(scopes[j].saved) /\ SameSchema(scopes[j].saved)
  BY DEF ScopesGood
<1> HIDE DEF S
<1>2. /\ k - 1 \in Nat /\ scopes' \in Seq(S) /\ DOMAIN scopes' = 1 .. k - 1
      /\ \A j \in 1 .. k - 1 : j \in DOMAIN scopes /\ scopes'[j] = scopes[j]
  BY <1>1, ScopesBefore
<1> QED
  BY <1>1, <1>2 DEF ScopesGood, SameSchema, S

LEMMA ReleaseKeeps ==
  ASSUME IInv, NEW n \in ScopeNames, Release(n)
  PROVE  IInv'
<1>1. PICK k \in DOMAIN scopes : scopes' = SubSeq(scopes, 1, k - 1)
  BY DEF Release
<1>2. UNCHANGED <<now, stores, indexes, snaps>>
  BY DEF Release
<1>3. ScopesGood'
  BY <1>1, <1>2, ScopesShrink DEF IInv
<1> QED
  BY <1>2, <1>3 DEF IInv, SnapsGood, SameSchema

LEMMA RollbackKeeps ==
  ASSUME IInv, NEW n \in ScopeNames, Rollback(n)
  PROVE  IInv'
<1>1. PICK k \in DOMAIN scopes :
        now' = scopes[k].saved /\ scopes' = SubSeq(scopes, 1, k - 1)
  BY DEF Rollback
<1>2. UNCHANGED <<stores, indexes, snaps>>
  BY DEF Rollback
<1>3. GoodContent(now') /\ SameSchema(now)'
  BY <1>1, <1>2 DEF IInv, ScopesGood, SameSchema
<1>4. ScopesGood'
  BY <1>1, <1>2, ScopesShrink DEF IInv
<1> QED
  BY <1>2, <1>3, <1>4 DEF IInv, SnapsGood

LEMMA SnapshotKeeps ==
  ASSUME IInv, NEW l \in Labels, Snapshot(l)
  PROVE  IInv'
<1>1. /\ snaps \in [Labels -> Contents \cup {None}]
      /\ snaps' = [snaps EXCEPT ![l] = IF scopes = <<>> THEN now ELSE None]
      /\ UNCHANGED <<now, scopes, stores, indexes>>
      /\ now \in Contents /\ GoodContent(now)
  BY DEF IInv, SnapsGood, Snapshot, GoodContent
<1>2. snaps' \in [Labels -> Contents \cup {None}]
  BY <1>1
<1>3. \A m \in Labels : snaps'[m] \in {now, None} \/ snaps'[m] = snaps[m]
  BY <1>1
<1>4. SnapsGood'
  BY <1>1, <1>2, <1>3 DEF IInv, SnapsGood
<1> QED
  BY <1>1, <1>4 DEF IInv, ScopesGood, SameSchema

\* #reload reads the caches from the database that was opened.
LEMMA ReopenedKeeps ==
  ASSUME IInv, NEW c, GoodContent(c), Reopened(c), UNCHANGED snaps
  PROVE  IInv'
<1>1. GoodContent(now') /\ SameSchema(now)' /\ scopes' = <<>>
  BY DEF Reopened, SameSchema
<1>2. ScopesGood'
  <2>1. DOMAIN scopes' = {} /\ scopes' \in Seq([name : ScopeNames, saved : Contents])
    BY <1>1
  <2> QED
    BY <2>1 DEF ScopesGood
<1> QED
  BY <1>1, <1>2 DEF IInv, SnapsGood

LEMMA RestoreKeeps ==
  ASSUME IInv, NEW l \in Labels, Restore(l)
  PROVE  IInv'
<1>1. GoodContent(snaps[l]) /\ Reopened(snaps[l]) /\ UNCHANGED snaps
  BY DEF IInv, SnapsGood, Restore
<1> QED
  BY <1>1, ReopenedKeeps

LEMMA CommittedGood ==
  ASSUME IInv
  PROVE  GoodContent(Committed)
<1>1. CASE scopes = <<>>
  BY <1>1 DEF Committed, IInv
<1>2. CASE scopes # <<>>
  <2>1. scopes \in Seq([name : ScopeNames, saved : Contents])
    BY DEF IInv, ScopesGood
  <2>2. 1 \in DOMAIN scopes
    BY <1>2, <2>1, EmptySeq, LenProperties
  <2> QED
    BY <1>2, <2>2 DEF Committed, IInv, ScopesGood
<1> QED
  BY <1>1, <1>2

LEMMA CrashKeeps ==
  ASSUME IInv, Crash
  PROVE  IInv'
BY CommittedGood, ReopenedKeeps DEF Crash

\* The first vector of an index: no vector of it was there before.
LEMMA UpsertFirstKeeps ==
  ASSUME ~ScopedSchema, IInv, NEW i \in Indexes, NEW e \in Embeddings, NEW v \in Vecs,
         UpsertFirst(i, e, v)
  PROVE  IInv'
<1> DEFINE x == IF v.length = e.dimension THEN e ELSE now.entries[i][v.key]
           ent == [now.entries EXCEPT ![i][v.key] = x]
<1>1. /\ now \in Contents /\ GoodContent(now) /\ Findable(now)
      /\ v.key \in Keys /\ scopes = <<>>
      /\ stores = now.data.stores /\ indexes = now.meta /\ now.meta[i] = None
      /\ UNCHANGED <<scopes, stores, snaps>>
      /\ indexes' = [now.meta EXCEPT ![i] = e]
  BY DEF IInv, GoodContent, UpsertFirst, Vecs, MayMakeSchema, SameSchema
<1>2. /\ now'.data = now.data /\ now'.meta = [now.meta EXCEPT ![i] = e]
      /\ now'.entries = ent
      /\ now' = [data |-> now'.data, meta |-> now'.meta, entries |-> now'.entries]
  BY <1>1 DEF UpsertFirst, Contents
<1>3. \A k \in Keys : now.entries[i][k] = None
  BY <1>1 DEF Findable
<1>4. x \in {e, None} /\ x \in Embeddings \cup {None}
  BY <1>1, <1>3
<1> HIDE DEF x
<1>5. /\ ent \in [Indexes -> [Keys -> Embeddings \cup {None}]]
      /\ ent[i][v.key] = x
      /\ \A m \in Keys : m # v.key => ent[i][m] = now.entries[i][m]
      /\ \A j \in Indexes : j # i => ent[j] = now.entries[j]
  BY <1>1, <1>4, EntryFacts, EntryTyped
<1>6. /\ now'.meta \in [Indexes -> Embeddings \cup {None}] /\ now'.meta[i] = e
      /\ \A j \in Indexes : j # i => now'.meta[j] = now.meta[j]
  BY <1>1, <1>2, EntryFacts
<1> HIDE DEF ent
<1>7. now' \in Contents
  BY <1>1, <1>2, <1>5, <1>6, EntryFacts DEF Contents
<1>8. \A k \in Keys : now'.entries[i][k] # None => now'.meta[i] = now'.entries[i][k]
  BY <1>2, <1>3, <1>4, <1>5, <1>6
<1>9. GoodContent(now')
  BY <1>1, <1>2, <1>5, <1>6, <1>7, <1>8, IndexKeeps
<1>10. SameSchema(now)'
  BY <1>1, <1>2 DEF SameSchema
<1> QED
  BY <1>1, <1>9, <1>10, StatementKeeps

\* One vector of a known index is written under its embedding, or removed.
LEMMA EntryGood ==
  ASSUME NEW c, GoodContent(c), NEW i \in Indexes, NEW k \in Keys,
         NEW x, x \in {c.meta[i], None}
  PROVE  /\ GoodContent([c EXCEPT !.entries[i][k] = x])
         /\ [c EXCEPT !.entries[i][k] = x].data = c.data
         /\ [c EXCEPT !.entries[i][k] = x].meta = c.meta
<1> DEFINE ent == [c.entries EXCEPT ![i][k] = x]
           d == [c EXCEPT !.entries[i][k] = x]
<1>1. c \in Contents /\ Findable(c)
  BY DEF GoodContent
<1>2. /\ d.data = c.data /\ d.meta = c.meta /\ d.entries = ent
      /\ d = [data |-> d.data, meta |-> d.meta, entries |-> d.entries]
  BY <1>1 DEF Contents
<1>3. x \in Embeddings \cup {None}
  BY <1>1, EntryFacts
<1>4. /\ ent \in [Indexes -> [Keys -> Embeddings \cup {None}]]
      /\ ent[i][k] = x
      /\ \A m \in Keys : m # k => ent[i][m] = c.entries[i][m]
      /\ \A j \in Indexes : j # i => ent[j] = c.entries[j]
  BY <1>1, <1>3, EntryFacts, EntryTyped
<1> HIDE DEF ent, d
<1>5. d \in Contents
  BY <1>1, <1>2, <1>4, EntryFacts DEF Contents
<1>6. \A m \in Keys : d.entries[i][m] # None => d.meta[i] = d.entries[i][m]
  BY <1>1, <1>2, <1>4 DEF Findable
<1>7. \A j \in Indexes : j # i => d.meta[j] = c.meta[j] /\ d.entries[j] = c.entries[j]
  BY <1>2, <1>4
<1>8. GoodContent(d)
  BY <1>2, <1>5, <1>6, <1>7, IndexKeeps
<1> QED
  BY <1>2, <1>8 DEF d

LEMMA EntryKeeps ==
  ASSUME IInv, NEW i \in Indexes, NEW k \in Keys, NEW x, x \in {now.meta[i], None},
         now' = [now EXCEPT !.entries[i][k] = x],
         UNCHANGED <<scopes, stores, indexes, snaps>>
  PROVE  IInv'
<1>1. GoodContent(now') /\ now'.data = now.data /\ now'.meta = now.meta
  BY EntryGood DEF IInv
<1>2. SameSchema(now)'
  BY <1>1 DEF IInv, SameSchema
<1> QED
  BY <1>1, <1>2, StatementKeeps

LEMMA UpsertKnownKeeps ==
  ASSUME IInv, NEW i \in Indexes, NEW e \in Embeddings, NEW v \in Vecs,
         UpsertKnown(i, e, v)
  PROVE  IInv'
<1>1. /\ v.key \in Keys /\ e \in {now.meta[i], None}
      /\ now' = [now EXCEPT !.entries[i][v.key] = e]
      /\ UNCHANGED <<scopes, stores, indexes, snaps>>
  BY DEF UpsertKnown, IInv, SameSchema, Vecs
<1> QED
  BY <1>1, EntryKeeps

LEMMA IndexDeleteKeeps ==
  ASSUME IInv, NEW i \in Indexes, NEW k \in Keys, IndexDelete(i, k)
  PROVE  IInv'
BY EntryKeeps DEF IndexDelete

\* However many vectors were written before one was refused, all of them have
\* the new embedding, and the old ones are gone.
LEMMA IndexReindexKeeps ==
  ASSUME ~ScopedSchema, IInv, NEW i \in Indexes, NEW e \in Embeddings,
         NEW batch, IndexReindex(i, e, batch)
  PROVE  IInv'
<1> DEFINE f == [k \in Keys |-> IF k \in Written(batch, e) THEN e ELSE None]
           ent == [now.entries EXCEPT ![i] = f]
<1>1. /\ now \in Contents /\ GoodContent(now) /\ scopes = <<>>
      /\ stores = now.data.stores /\ indexes = now.meta
      /\ UNCHANGED <<scopes, stores, snaps>>
      /\ indexes' = [now.meta EXCEPT ![i] = e]
  BY DEF IInv, GoodContent, IndexReindex, MayMakeSchema, SameSchema
<1>2. /\ now'.data = now.data /\ now'.meta = [now.meta EXCEPT ![i] = e]
      /\ now'.entries = ent
      /\ now' = [data |-> now'.data, meta |-> now'.meta, entries |-> now'.entries]
  BY <1>1 DEF IndexReindex, Contents
<1>3. f \in [Keys -> Embeddings \cup {None}] /\ \A k \in Keys : f[k] \in {e, None}
  OBVIOUS
<1> HIDE DEF f
<1>4. /\ ent \in [Indexes -> [Keys -> Embeddings \cup {None}]]
      /\ ent[i] = f
      /\ \A j \in Indexes : j # i => ent[j] = now.entries[j]
  BY <1>1, <1>3, EntryFacts
<1>5. /\ now'.meta \in [Indexes -> Embeddings \cup {None}] /\ now'.meta[i] = e
      /\ \A j \in Indexes : j # i => now'.meta[j] = now.meta[j]
  BY <1>1, <1>2, EntryFacts
<1> HIDE DEF ent
<1>6. now' \in Contents
  BY <1>1, <1>2, <1>4, <1>5, EntryFacts DEF Contents
<1>7. \A k \in Keys : now'.entries[i][k] # None => now'.meta[i] = now'.entries[i][k]
  BY <1>2, <1>3, <1>4, <1>5
<1>8. GoodContent(now')
  BY <1>1, <1>2, <1>4, <1>5, <1>6, <1>7, IndexKeeps
<1>9. SameSchema(now)'
  BY <1>1, <1>2 DEF SameSchema
<1> QED
  BY <1>1, <1>8, <1>9, StatementKeeps

----------------------------------------------------------------------------
(* The theorems *)

LEMMA InitKeeps ==
  ASSUME Init
  PROVE  IInv
<1>1. Empty \in Contents
  BY DEF Empty, NoEntries, Contents, Database, Blank, Rows
<1>2. RowsDeclared(Empty.data) /\ Findable(Empty)
  BY DEF Empty, NoEntries, Blank, RowsDeclared, HasRow, Findable
<1>3. GoodContent(now) /\ SameSchema(now)
  BY <1>1, <1>2 DEF Init, GoodContent, SameSchema, Empty, Blank
<1>4. ScopesGood
  <2>1. DOMAIN scopes = {} /\ scopes \in Seq([name : ScopeNames, saved : Contents])
    BY DEF Init
  <2> QED
    BY <2>1 DEF ScopesGood
<1>5. SnapsGood
  BY DEF Init, SnapsGood
<1> QED
  BY <1>3, <1>4, <1>5 DEF IInv

LEMMA NextKeeps ==
  ASSUME ~ScopedSchema, IInv, [Next]_localVars
  PROVE  IInv'
<1>1. CASE UNCHANGED localVars
  BY <1>1 DEF localVars, IInv, ScopesGood, SnapsGood, SameSchema
<1>2. ASSUME NEW s \in Stores, DeclareStore(s) PROVE IInv'
  BY <1>2, DeclareStoreKeeps
<1>3. ASSUME NEW s \in Stores, NEW k \in Keys, NEW v \in Values \cup {NoValue},
             PutOrDelete(s, k, v)
      PROVE  IInv'
  BY <1>3, PutOrDeleteKeeps
<1>4. ASSUME NEW n \in ScopeNames, Savepoint(n) \/ Release(n) \/ Rollback(n) PROVE IInv'
  BY <1>4, SavepointKeeps, ReleaseKeeps, RollbackKeeps
<1>5. ASSUME NEW l \in Labels, Snapshot(l) \/ Restore(l) PROVE IInv'
  BY <1>5, SnapshotKeeps, RestoreKeeps
<1>6. CASE Crash
  BY <1>6, CrashKeeps
<1>7. ASSUME NEW i \in Indexes, NEW e \in Embeddings, NEW v \in Vecs,
             UpsertFirst(i, e, v) \/ UpsertKnown(i, e, v)
      PROVE  IInv'
  BY <1>7, UpsertFirstKeeps, UpsertKnownKeeps
<1>8. ASSUME NEW i \in Indexes, NEW e \in Embeddings, NEW batch \in Batches,
             IndexReindex(i, e, batch)
      PROVE  IInv'
  BY <1>8, IndexReindexKeeps
<1>9. ASSUME NEW i \in Indexes, NEW k \in Keys, IndexDelete(i, k) PROVE IInv'
  BY <1>9, IndexDeleteKeeps
<1> QED
  BY <1>1, <1>2, <1>3, <1>4, <1>5, <1>6, <1>7, <1>8, <1>9 DEF Next

LEMMA Inductive ==
  ASSUME ~ScopedSchema
  PROVE  Spec => []IInv
<1>1. Init => IInv
  BY InitKeeps
<1>2. IInv /\ [Next]_localVars => IInv'
  BY NextKeeps
<1> QED
  BY <1>1, <1>2, PTL DEF Spec

\* The caches #stores and #indexes always say what the database says, as long
\* as callers declare stores and make indexes outside a scope: #reload is run
\* by every operation that changes them behind the caches' back.
THEOREM CachesStayTrue ==
  ASSUME ~ScopedSchema
  PROVE  Spec => []CachesTrue
<1>1. IInv => CachesTrue
  BY DEF IInv, SameSchema, CachesTrue
<1> QED
  BY <1>1, Inductive, PTL

\* No content that is read, rolled back to or restored has a row of a store
\* that was not declared, although put asks a cache and not the database.
THEOREM RowsStayDeclared ==
  ASSUME ~ScopedSchema
  PROVE  Spec => []DeclaredRows
<1>1. IInv => DeclaredRows
  BY DEF IInv, GoodContent, ScopesGood, SnapsGood, DeclaredRows
<1> QED
  BY <1>1, Inductive, PTL

\* A vector that a process loss leaves is found under the embedding it was
\* written with, whatever upserts, refused batches and restores came before.
THEOREM VectorsStayFindable ==
  ASSUME ~ScopedSchema
  PROVE  Spec => []CommittedFindable
<1>1. IInv => CommittedFindable
  BY CommittedGood DEF GoodContent, Findable, CommittedFindable
<1> QED
  BY <1>1, Inductive, PTL
=============================================================================
