# Despia Local in TLA+

A verification project for Despia Local: a C++ engine that keeps an app's rows,
savepoint scopes, snapshots and vector indexes in one SQLite file per store
directory (`src/engine`), and its bindings (`src/bindings`). The modules are
translated from the source; paths below are relative to `src/`.

## 1. The system

| Component | State | Operations | Hard behaviour |
|---|---|---|---|
| Store (`engine/src/store.cpp`, `store.hpp`) | one SQLite connection, the directory, read-only flag, last error | open, reopen, close, call | several handles on one directory, loss of the process |
| Rows | `_stores`, `_rows` | declare, put, get, delete, query, stats | put and delete are two statements; WAL snapshots; lock waits |
| Scopes | the connection's savepoint stack | savepoint, release, rollback | nesting, equal names, automatic rollback, commit onto what others committed |
| Snapshots | `snapshots/<label>.db` | snapshot, restore, export, snapshots | several file operations per call, none of them a transaction |
| Vector indexes | `_index_meta`, `vec_<n>`, `_vector_values` | index.upsert, delete, reindex, search, info | 2 to 6 statements per call that commit apart; ties and limits of a search |
| Query vocabulary (`engine/src/store.cpp:170-243`, `bindings/ts/src/store.ts:125-162`) | - | where, order, limit | values of different kinds, missing fields, ties; two implementations of one vocabulary |
| JSON (`engine/src/json.hpp`) | - | parse, dump | nesting, equal names, numbers that overflow; every value passes through it twice |
| C ABI (`engine/src/api.cpp`) | a global error, one error per handle | despia_local_* | whose error is read, how long a pointer lives |
| TypeScript binding (`bindings/ts/src/store.ts`) | its own SQLite connection, two caches | the same actions as methods | caches against rollback, restore, crash |
| Swift, Kotlin, JNI bindings | the handle | marshalling to the C ABI | error copied before the next call |
| Conformance runner, tests | - | corpora against a binding | the snapshot-then-savepoint loop of tool calls |
| SQLite, sqlite-vec (`vendor/`) | the file | statements | taken as given, at the level of statements |

Handles interact through files only: the database that `base.db` names, the
locks on it, and the snapshot files. A handle is driven by one thread at a time
(`engine/include/despia_local.h`), two handles on one file are "the normal
shape" (`engine/src/store.cpp:450`). So the interleavings that count are those
between the statements and the file operations of different handles' calls.

What makes each part correct:

- rows and scopes: no commit is lost, no row in an undeclared store, a scope is
  isolated and ends exactly once; together, the handles are a database of
  optimistic snapshot transactions (`DataPlane`);
- snapshots: a backup that was answered stays and is exact, a restore leaves
  exactly the backup, and every handle then uses the restored file;
- vector indexes: what a search compares with was written under the embedding
  it answers with, an index never meets another's vectors, a reindex mends
  whatever was left half done;
- JSON: the parser takes the grammar and nothing else, of no more levels than
  it may, and what was put is what a get answers;
- queries and searches: the answer is exactly the rows meant, in the order meant,
  and the native and the TypeScript lane give the same one;
- the TypeScript binding: its caches are the database's;
- errors: a binding throws the reason of its own failed call;
- calls return.

## 2. The modules

| Module | Models | Correspondence |
|---|---|---|
| `SqliteConnection` | one connection as a value | savepoint stack with what each savepoint saved, the snapshot (`view`), the write lock (`writer`), whether it wrote (`dirty`), whether another commit overtook it (`stale`) |
| `RowData` | `_stores` and `_rows` as data | the statements of declare, put, delete as functions on it |
| `StoreHandle` | handles, files, scopes, snapshots | `base` is the name base.db, `disk` the content of every file named or held open (an unlinked file stays while a connection holds it), `snaps` the snapshot files, `call` where each handle is in its call, `kept` (history) what an answered snapshot saw |
| `Rows` | the whole data plane | declare, put, delete, reads over `StoreHandle`; the properties of rows and snapshots |
| `DataPlane` | the promise | one database, sessions with scopes, backups; no files, locks or half-done calls |
| `RowsRefinement` | `Rows` implements `DataPlane` | the refinement mapping |
| `RowsInvariant` | the inductive invariant of `Rows` | |
| `ConnProofs`, `RowsProofs` | proofs about `Rows` for any callers | lemmas on connections; one lemma per action |
| `RestoreProofs`, `RefinementProofs` | proofs about `Rows` for careful callers | what restores and backups keep; the refinement step by step |
| `Vectors` | index.upsert, delete, search, reindex | one action per SQL statement; `call` holds the locals of the C++ function |
| `VectorsInvariant`, `VectorsProofs` | the inductive invariants of `Vectors`, the proofs | one lemma per statement |
| `TsStore` | class `Local` | one action per method: JavaScript runs each of them whole |
| `TsStoreProofs` | proofs about `TsStore` | its inductive invariant, one lemma per method |
| `Abi` | api.cpp under the Swift and Kotlin bindings | a thread's call is in `task`: `Enter` (the method, `alive()`), an answer of the engine, `Take` (copy and free the result) or `Ask` (`despia_local_last_error`), `Copy` and throw; `error` is `lastError_` of each Store, `globalError` is `g_globalError`, `held` the binding's handle, `alive` and `db` the Store and its `db_` |
| `Json` | `json::Value`, `dumpTo`, `Parser`; `rankOf`, `compareValues`, `matchesCondition`, `asText` | values as records, texts as sequences of tokens; `Consume` is one token of `Parser::parseValue`, `stack` its recursion and `want` where it stands in it |
| `TsQuery` | `Local.query` of store.ts | JavaScript's `===`, `<`, `>` and `includes` on those values; `Filtered` and `Ordered` are the two loops that both lanes have |
| `JsonGrammar` | the reference | every text within the bounds with the value it means, built from the grammar and not by parsing |
| `Documents` | put, get, query and index.search of one handle | `BeginPut`, `Type` (a token of the arguments) and `Put` or `InvalidRequest`; `Query` and `Search` as one read of one snapshot; `rows` are the texts in `_rows`, `given` is history |
| `DocumentsProofs` | proofs about `Json`, `TsQuery` and `Documents` | lemmas on sorting, filtering, orders and the parser; then the theorems |
| `AbiProofs` | proofs about `Abi` | `IInv` of the threads at work, one lemma per action |
| `MCRows`, `MCVectors`, `MCDocuments` | for TLC | symmetry sets; the values, queries and texts that are tried |

`StoreHandle` extends `SqliteConnection` and `RowData`; `Rows` extends
`StoreHandle`; `Documents` extends `TsQuery` and `JsonGrammar`, which extend `Json`.
`Documents` is the content that `Rows` and `Vectors` leave opaque, and those are
the interleavings that `Documents` leaves out. Operators whose names begin otherwise than the code's and are
marked "Mutant of" are the plausible bugs each property is tested against; no
specification uses them.

Choices worth knowing:

- SQLite opens a deferred transaction: a scope's snapshot is taken by the first
  statement in it (`Pinned`), a write needs the lock and a snapshot that is not
  stale (`Refused`, from `sqlite3WalBeginWriteTransaction`), and the busy handler
  waits only for a connection that holds no snapshot (`Waits`).
- A waiting declare is an action that is not enabled; a waiting put has entered
  its call, so `BusyTimeout` may end it, after 5000 ms that are not counted.
- A refused call that changes nothing is a stutter and has no action.
- Overwriting `base.db` while a connection holds it leaves the file `Torn`: the
  outcome is undefined, and nothing sound is ever read from it again. `Hollow` is
  a file of zero bytes, which SQLite opens as a new database.
- `RestoreUnlink` stands for three `fs::remove` calls, `RestoreCopy` for
  `copy_file` and `VacuumInto` for VACUUM INTO, each with its failed and its
  interrupted outcomes.
- In `Rows` and `Vectors` rows and payloads are model values; wording and names are
  left out everywhere.
- In `Vectors`, calls are outside scopes: inside one, a call's statements are
  isolated as `Rows` shows. `Misreads` says whether the read of `_index_meta` may
  fail, which `readIndexMeta` takes for an index that is not there. The number of a vector's components is kept, the
  components are not; a revision is part of the model. `Fail` stands for a
  failed statement and for the end of the process before it.
- In `Abi`, `reason` is history: why the engine failed this call. An assignment of
  a string while another thread points into it makes what is copied `Torn`. What an
  action does to the files is in `Rows`; here it succeeds, fails, or fails and
  leaves the Store without its database, as a restore can.
- In `Vectors`, `alone` in a call is history: whether another call ran beside it.
- In `Json`, a string is a sequence of code points, whose order is that of its UTF-8
  bytes and of SQLite's keys; `Units` makes UTF-16 of it for JavaScript. A number
  counts halves: enough for `limit` and `k` to lose a fraction. `Infinite` is what
  strtod makes of 1e999 and what dumps as null; cast to an integer (undefined in
  C++) it is either end of the range. A value that is an array or an object carries
  its dump, made once when it is made, since the order of such values is the order
  of their dumps.
- A number is spelled as `dumpNumberTo` does it (`NumberText`): in full below
  `MaxWhole`, which is 9e15, and with `%.*g` from there on, so with an exponent when
  the digits it takes are fewer than the places. JavaScript's `String` (`JsText`) writes
  every number of the model in full, and `Infinity`; that it takes an exponent itself
  from 1e21 on, and below 1e-6, is left out.
- What `Documents` is given (`Contents`, `Entries`, `Queries`, `Counts`) is assumed to
  be what callers can give: keys and fields are strings, values are JSON, and a
  condition's operator is any name (an unknown one, `between`, is among them).
- Queries and searches read in order from one snapshot; with `ReadErrors` a read
  may end anywhere, which the loops of store.cpp:745 and 1057 take for the end.
- vec0 answers neighbours of equal distance in any order (`Nearest`), and nothing
  above `MaxK` of them (4096 in sqlite-vec, 2 in the run).
- `Portable` is the discipline under which the two lanes have to agree: no limit
  (`Local.query` has none), the operand and every row's field of one scalar kind, no
  character above the surrogates, `contains` without null and only among numbers that
  both lanes write in full (`Searchable`: below 9e15 in size; in the code also not
  nearer to zero than 1e-4, which a half never is).

## 3. The runs

| Run | Question | Result |
|---|---|---|
| `rows_shared` | two read-write handles, nested scopes, process loss; callers snapshot outside scopes and restore alone | `DeclaredRows`, `NoLostUpdate`, `HandlesOnBase`, `BackupKept`, `RestoreExact`, `ImplementsDataPlane`, `CallsReturn` hold |
| `rows_hostile` | a writer and a read-only handle, no discipline, every fault: process loss anywhere, full disk | `TypeOK`, `CallsReturn` hold |
| `rows_scoped_snapshot` | snapshot inside a scope | `BackupKept` violated |
| `rows_two_handles` | restore beside a second handle | `CommitReachesBase` violated |
| `rows_torn_snapshot` | process lost in VACUUM INTO | `RestoreExact` violated |
| `vectors_shared` | two handles, calls that overlap are on one index and none is a reindex; any statement may fail | `TypeOK`, `Homogeneous`, `SearchSound`, `OthersUntouched`, `ReindexExact`, `AnswersHold` hold |
| `vectors_race` | two handles create two indexes at once | `Homogeneous` violated |
| `vectors_refused` | a refused first upsert | `RefusalChangesNothing` violated |
| `ts_store` | schema changes outside scopes | `CachesTrue`, `DeclaredRows`, `CommittedFindable` hold |
| `ts_rollback` | an index made in a scope that is rolled back | `CommittedFindable` violated |
| `abi_serial` | two threads, two stores; one thread at a time uses a store, one open at a time; any answer may find no memory | a failed call is told its own reason (`ToldOwnReason`); a Store lives as long as its handle and the calls on it (`HandlesOwned`) |
| `documents` | one handle: every text of up to nine tokens is put and got; every query and search of a small vocabulary on every store and index of up to three keys; reads may end early | `ParserExact`, `KeptExactly`, `QueryExact`, `LanesAgree`, `SearchExact` hold |

The violated ones are the findings of `PROJECT.json`; each is a real sequence of
calls, and the passing runs say under which discipline of the callers
(`SoleRestore`, `ScopedSnapshots`, `Overlaps`, `ScopedSchema`) it cannot happen.

Bounds. Two handles give every race of these protocols: all are between one that
holds something (a lock, a snapshot, a file, a serial) and one that does not
know; the proofs cover any number. Two files: the one `base.db` names and one
that was unlinked or is new. One store, key, value and label: the locks and
snapshots are of the whole database. `MaxScopes = 2` with one name nests a
savepoint in one of the same name. `Vectors` needs two indexes for a shared
table, two models of one dimension and two dimensions for the two ways to
mismatch, two payloads for a stale one, and `MaxTables` for the serials (`Room`
keeps callers from needing more; `MaxBatch = 1` in these runs). `TsStore` has two
scope names, and batches of two so that a reindex can throw in the middle.

`Abi` has two threads and two stores (a store of one's own, and the same one), and
two reasons so that one can be taken for the other. `SerialHandles` is the threading
contract of `despia_local.h`. `SerialOpens` (an open may overlap other
calls, but no open) is not written there, but
`ToldOwnReason` needs it: with `SerialOpens = FALSE` TLC finds, in seven states, two
failed opens of which one throws the other's reason, for `despia_local_last_error(NULL)`
answers a pointer and releases its mutex before the pointer is used (api.cpp:146-149).

`vectors_shared` excludes what is known to go wrong, and says so in its constants:
with `Overlaps = {"reindex"}` TLC finds `SearchSound` violated, by a search that
read the old row of `_index_meta` and then the table that a reindex made anew under
the same name, or by one after an upsert that did so; with `Misreads = TRUE` it finds `AnswersHold` violated, an index.delete
that could not read that row, answers ok and leaves the vector (store.cpp:550).

`documents` types every sequence of at most nine tokens over the six marks, null, a
number, 1e999 and one name, with a parser of three levels instead of 64: enough for
an object in an object or an array, two members, two equal names and every way to
run past the last level. Nothing is typed after an error, and one put is typed, since
the parser and the row are all there is to remember. Queries are made only of the
prepared stores (`Contents`: all of up to three rows over eight values, so that two
rows tie and a third tells), two clauses give a primary and a secondary order,
`MaxK = 2` is exceeded by three entries, and two distances tie. `MaxWhole = 60` scales
9e15 down to 30, which a row holds: the engine spells it 3e+01, so that `contains` 1 is
met by it there and not in JavaScript. The numbers from there to `MaxFinite = 98`, the
greatest, are of two digits; `NumberText` is right for any.

Deadlock is checked in every run: some handle can always take a step.

Fairness. `Rows` assumes weak fairness of `Continue(h)` for each handle: a call
that was entered runs on because its thread is scheduled, and the busy handler
gives up (`sqlite3_busy_timeout`, store.cpp:453). Nothing is assumed of callers:
none need open, release or close, so `CallsReturn` shows that a put never waits
for good for a scope that is never released. `Vectors`, `TsStore`, `Abi` and
`Documents` claim safety only and state no fairness.

Where code and docs disagree and no run is listed for it:

- "All three lanes implement that order" (store.cpp:22-24) holds of portable queries
  only. Without `Portable` TLC finds a query that the lanes answer differently as
  soon as it may: `lt` with a missing field (null, so below a number, to the engine;
  undefined, so never below, to JavaScript), an `eq` of arrays, an order over values
  of different kinds, a `limit`, a `contains` in a large number: 1e16 is 1e+16 to the
  engine (json.hpp:180) and 10000000000000000 to JavaScript (store.ts:145), as 0.00001
  is 1e-05 to the one and 0.00001 to the other.
- "Values round-trip with their types intact" (docs/data-plane.md:21): null is kept
  as {}, and 1e999 is read as an infinite number and kept as null. `KeptExactly`
  excludes both by name.
- put takes a value of 63 levels; query and search answer it three levels deeper,
  which the Swift and Kotlin parsers refuse (Json.swift:345, Json.kt:106).
- A search for more than 4096 neighbours, also one without k on an index of that size,
  answers no hits and ok: the error ends the loop over the rows. `SearchExact` claims
  the number of hits up to `MaxK`, their order and nearness for any k.
- Which entries of one distance are left out where k cuts through them is vec0's
  choice; "two lanes agree" (store.cpp:1062-1064) holds of the order of those answered.
  The TypeScript lane breaks ties with `localeCompare`, not by bytes.
- A limit of 0.5 is no limit. An unknown operator is refused only if a row is left to
  try it on, so the same query may be an error or an empty answer.
- "NULL on failure, and ONLY on failure" (despia_local.h:145): a call that was done
  answers NULL if there is no memory for its answer (api.cpp:142).

## 4. The proofs

`RowsProofs` proves, for all values of the constants that satisfy the named
assumptions (`NoneAssumption`, `NoValueAssumption`, `HandleAssumption`,
`MarkerAssumption`: distinguished values are distinct, read-only handles are
handles, bounds are numbers):

- `TypeCorrect`: `Spec => []TypeOK`,
- `NoUpdateIsLost`: `Spec => []NoLostUpdate`,
- `RowsAreDeclared`: `Spec => []DeclaredRows`,

so for any number of handles, files, stores, keys and labels, any nesting, with
every fault and without any discipline of the callers.

None of the three is inductive. All follow from `IInv` (`RowsInvariant`):

- `FilesSound`: each file, snapshot and kept backup is a database whose rows are
  declared, or debris. `TypeOK` needs it: what a snapshot writes is typed only if
  the file it reads is.
- `HandlesGood`, by handle: `Held` (a connection's file exists), `Scoped` (a
  snapshot, and what savepoints saved, exist only inside scopes), `Current` (a
  snapshot that is not stale, or that writes, started from what the file holds:
  this is `NoLostUpdate`, and it needs `OneWriter` for the step that commits),
  `Clean` (who wrote nothing changed nothing, so its release loses nothing),
  `Grows` (stores are only added after the start of a transaction, so a store
  that put required is still declared if another scope is rolled back), and
  `GoodCall` (a pending write's store is declared in what it will see).
- `OneWriter`: a file has one writer.

`ConnProofs` proves that each operation of a connection keeps it good;
`RowsProofs` has general lemmas on steps (one connection changes, a commit is
published, a handle is connected anew, `copy_file`), then one lemma per action,
and `Inductive` puts them together. TLC checked `IInv` as an invariant of the
instances of `rows_hostile`, and of the same run with two writers, first. That two
hostile writers are safe is what these theorems say; no run repeats it.

`RestoreProofs` proves what the discipline of the callers buys. With `SoleRestore` (a
handle restores only while no other is open; `rows_two_handles` is what happens
otherwise), whatever faults occur,

- `HandlesStayOnBase`: `Spec => []HandlesOnBase`,
- `CommitsReachBase`: `Spec => CommitReachesBase`, the property that
  `rows_two_handles` refutes without the discipline;

and if besides nobody snapshots inside a scope (`rows_scoped_snapshot`) and the only
fault is the loss of a process outside of file calls (`rows_torn_snapshot`),

- `BackupsAreKept`: `Spec => []BackupKept`,
- `RestoresAreExact`: `Spec => RestoreExact`.

`RInv` adds to `IInv` that a handle in the middle of a restore is alone. `SInv` adds
that no file is debris, that VACUUM INTO is only under way outside a scope, and where
the backup is at each step of a restore (`Underway`).

`RefinementProofs` proves, under the same assumptions, `RowsImplementDataPlane`:
`Spec => ImplementsDataPlane`. Every action of every handle is an action of `DataPlane`
or leaves its state alone; the steps that need the invariant are those where the
mapped state changes at another time than the files: a restore counts when it closes its
connection, and unlinks, copies and opens unseen; what is committed is found through
`base` or, during a restore, in `kept`; and a commit is onto the content its
transaction started from (`Current`).

`VectorsProofs` proves of `Vectors`, for any callers and any failures,

- `VectorsTyped`: `Spec => []TypeOK`, by `TInv`: every creation that is under way still
  finds a number for its table, and a call that works on a table has one;

if no call runs beside a reindex or beside a call on another index (`Overlaps = {}`,
the discipline of `vectors_shared`),

- `IndexesAreHomogeneous`: `Spec => []Homogeneous`,
- `SearchesAreSound`: `Spec => []SearchSound`,
- `IndexesAreApart`: `Spec => OthersUntouched`,
- `ReindexesAreExact`: `Spec => ReindexExact`;

and if `_index_meta` can always be read (`~Misreads`), whatever overlaps,

- `AnswersAreKept`: `Spec => AnswersHold`, for calls that ran alone.

`HInv` adds that no two indexes share a table (`OwnTables`: a table's number is the
rowid of its row of `_index_meta`, so that a table made after a delete does not
meet another's), that nothing is left of an index that is gone (`NoStrays`), and what a
call read before its last statement is still so (`Current`). `XInv` says how far a
reindex has come: the first `Done` vectors of its batch are there, the last of each
key, and nothing else. `AInv` says what a call that has run alone knows.

`TsStoreProofs` proves, for callers that change the schema outside scopes
(`~ScopedSchema`; `ts_rollback` is what happens otherwise),

- `CachesStayTrue`: `Spec => []CachesTrue`,
- `RowsStayDeclared`: `Spec => []DeclaredRows`,
- `VectorsStayFindable`: `Spec => []CommittedFindable`.

Its `IInv` speaks of every content that can come back: what a savepoint saved has the
schema of the caches, what a snapshot holds need not, for `Restore` reloads.

`DocumentsProofs` proves, for all rows, queries, indexes and texts,

- `QueriesAreExact`: `Spec => []QueryExact`,
- `ImplementationsAgree`: `Spec => []LanesAgree`,
- `SearchesAreExact`: `Spec => []SearchExact`, whatever is wanted and wherever the
  reading ends,
- `RowsAreKeptExactly`: `Spec => []KeptExactly`, if what the store holds at first was put
  (`WerePut`: each value was read from a text, without infinite numbers, and is not null),
- `ParserIsExact`: `Spec => []ParserExact`, and with it that no text of more than
  `MaxDepth` levels is taken,

and, of the operators these rest on,

- `CompareIsAnOrder`: `compareValues` is antisymmetric and transitive on all values,
  of whatever kinds, so that query's comparison is the strict weak ordering without
  which `std::stable_sort` is undefined. `Before` is a strict total order of sequences
  of integers (by the first place where two differ), the rank decides between kinds,
  and `Weight` maps the values of one kind to such sequences.
- `ValuesComparable`: every value has such a weight, the characters of its text if it
  is an array or an object.
- `ConditionsAreComplementary`: of any two values exactly one of lt, eq and gt holds,
  and ne, gte and lte are their complements.
- `SortsStably`: by a strict weak order `StableSort` answers a permutation, in order,
  with equal elements as they came.
- `ParsedTyped`: what `parse` answers is a value whose members are values.
- `ValuesRoundTrip`: what a parser of some levels read has a text that a parser of as
  many levels reads, and as the same value unless an infinite number was in it.
- `ReadsTheGrammar`: of the texts of at most `MaxTokens` tokens the parser takes exactly
  those of the grammar, each for the one value the grammar gives it, and refuses none
  before the token at which it stops being the beginning of one of them.

None of them needs an induction over values: a compound value carries its text, so that
a value is typed if its parts are, and `DataTyped` (each row is the text of a
value, each open list of the parser holds values) is an invariant of the state. Loops
(a filter per condition, a sort per clause, an insertion per row) are folds, unrolled
an element at a time with `SetInduction`. For `QueriesAreExact`: the sorts run from the last
clause to the first and are stable, rows come in the order of their keys, so two rows are
ordered by the first clause that tells them apart, then by key. For
`ImplementationsAgree`: filters commute; on portable rows each of JavaScript's
comparisons is the engine's (`Before` of UTF-16 units is `Before` of code points below
the surrogates, a substring of one is a substring of the other, both spell alike what
`contains` may look for (`SameText`), and a scalar is equal to
one of its kind as its weight is); so both lanes filter the same rows and sort them by one order.

For `ValuesRoundTrip`, which one expects by induction over values, the induction is over
the text that is read. A text `Spells` a value with d levels if from every state in which
a value may come, with d levels left, it `Leads` the parser to where that value is
delivered: a scalar is spelled by itself with one level (`ScalarSpells`), an array or an
object by the texts of its members, brackets and marks with one level more
(`ArraySpells`, `ObjectSpells`). `Held`, an invariant of `Consume`, says that every member of
what is open at depth j is spelled by its own text with `levels - j` levels, so that what
is closed is as well (`ClosedHeld`), and a value that is delivered at the end is spelled
by its text from the start. `Infinite` is the exception: its text spells null. `put`
stores the text of one member, which is spelled with the levels there are; `KeptInv`
relates the rows to `given` and keeps `Held` for the text that is being typed.

`ReadsTheGrammar` has two halves. That the parser takes what the grammar has is `Spells`
again (`GrammarSpells`), now for texts that need not be the ones `Dump` writes: members in
any order, a name more than once. The induction is over the depth of `Grammar`; the lists
of one depth are, by induction over their length, the texts of all sequences of things
that fit (`ListsAreSequences`, `SequencesAreLists`), and the last of the members with a
name counts in `Meant` because `Updated` puts each over the one before (`FieldsGrow`).
A beginning of such a text was not refused, for a refusal stays (`RefusalStays`).

That the grammar has what the parser takes is an invariant of `Consume`: `Traced` says
what was read for what is open. The text up to the start of the value at depth j is one
after which the list or the object at depth j - 1 waits for it (`Nested`); the rest is
the members so far, each a text of `Grammar` at the depth that is left, with the comma,
name or colon that came last (`Awaited`). A mark that closes makes of the rest one more
text of the grammar (`ShutTraced`), which is a member of what is open below or is the
whole (`DeliveredTraced`). `TypedIsRead` says that the parser of a put has read what was
typed, so that `ReadTraced`, by induction over a text, speaks of it.

`AbiProofs` proves, for all threads, stores and reasons, of a host that keeps to
`SerialHandles` and `SerialOpens`,

- `ReasonIsOwn`: `Spec => []ToldOwnReason`,
- `NoUseAfterClose`: `Spec => []HandlesOwned`.

Neither is inductive: that a thread is told its reason says nothing while it is on the
way to it. Its invariant `IInv` adds `Serial` (threads at work have different stores,
and at most one of them opens), and `Honest` (a thread that is to ask has its reason in
its string, which is empty only if its call has none; one that copies has a pointer
nobody wrote behind). `Serial` makes strings private (`TouchesItself`, `OthersHonest`),
so each action is a step of one thread. `Close` and `Enter` need it for the handles.

Only model-checked: liveness (`CallsReturn`), which is out of the prover's reach. Each
other property of a run that passes is one of the theorems above. Each hypothesis above is one of the constants of the run that checks the same
property, except in `rows_hostile`, whose `TypeOK` needs none; that `WerePut` is true of
the contents of `documents` is `ValuesWerePut` in `MCDocuments`, which TLC evaluates.

## 5. Not modelled, and the plan

Trusted: SQLite below its statements (pages, checkpoints, recovery, power loss
with `synchronous = NORMAL`), the numbers in sqlite-vec, the file system beyond
unlink, copy and create. Left out:

- inside a token of JSON: escapes, surrogate pairs, white space, fractions that a half
  cannot make with their spelling and rounding, the host's locale in snprintf and strtod;
- what JavaScript makes of arrays and objects as numbers;
- the native bindings' own JSON (Json.swift, Json.kt) and typed helpers, one call each;
- stats, index.info, export, snapshots, capabilities: reads that change nothing and
  whose answers no property is about;
- error wording, the conformance runner, build and packaging.

In order:

1. `ToolLoop`: the snapshot-then-savepoint loop of `conformance/run.ts` as a
   client of `Rows`, for "a failed tool rolls its savepoint back and the store shows
   no partial state" (docs/snapshots.md:46) with a disk that fills up in the tool.
2. The bindings' parsers beside the engine's, for the levels of nesting.
