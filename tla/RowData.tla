------------------------------ MODULE RowData -------------------------------
(***************************************************************************)
(* The rows of a store directory as data: the content of _stores and _rows *)
(* at one moment, and what the statements of the row actions make of it.   *)
(***************************************************************************)
CONSTANTS
  Stores,   \* store names that pass validName
  Keys,     \* row keys
  Values,   \* row values, as the JSON text the engine keeps
  NoValue   \* the row is absent

ASSUME NoValueAssumption == NoValue \notin Values

Rows == [Stores -> [Keys -> Values \cup {NoValue}]]

Database == [stores : SUBSET Stores, rows : Rows]

\* What the schema statements create.
Blank == [stores |-> {},
          rows |-> [s \in Stores |-> [k \in Keys |-> NoValue]]]

\* INSERT OR IGNORE INTO _stores
Declared(db, s) == [db EXCEPT !.stores = @ \cup {s}]

\* INSERT ... ON CONFLICT DO UPDATE, or DELETE when v is NoValue.
WithRow(db, s, k, v) == [db EXCEPT !.rows[s][k] = v]

\* A DELETE of an absent row changes nothing; an upsert always writes.
Dirties(db, s, k, v) == v # NoValue \/ db.rows[s][k] # NoValue

HasRow(db, s) == \E k \in Keys : db.rows[s][k] # NoValue

\* Every row belongs to a store that was declared.
RowsDeclared(db) == \A s \in Stores : HasRow(db, s) => s \in db.stores
=============================================================================
