--------------------------- MODULE RowsRefinement ---------------------------
(***************************************************************************)
(* Rows implements DataPlane, for callers who restore alone.               *)
(***************************************************************************)
EXTENDS Rows

\* A missing or empty base.db is the database that opening it will create.
Filled(image) == IF image \in {None, Hollow} THEN Blank ELSE image

\* A restore takes effect when it closes the connection: from then on the
\* database is the backup, wherever its file is on its way.
PlaneData ==
  IF \E h \in Handles : call[h].op \in Restoring
  THEN kept[call[CHOOSE h \in Handles : call[h].op \in Restoring].label]
  ELSE IF base = None THEN Blank ELSE Filled(disk[base])

PlaneTxn ==
  [h \in Handles |-> [open |-> IsOpen(conn[h]), scopes |-> conn[h].scopes,
                      view |-> conn[h].view]]

Plane == INSTANCE DataPlane WITH data <- PlaneData, txn <- PlaneTxn, backup <- kept

\* Every step of the handles, with their locks, stale snapshots, separate
\* statements and files, is one step of the promised data plane or none.
ImplementsDataPlane == Plane!PlaneSpec
=============================================================================
