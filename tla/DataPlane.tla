----------------------------- MODULE DataPlane ------------------------------
(***************************************************************************)
(* What the data plane promises, without files, locks or half-done calls:  *)
(* one database, optimistic snapshot transactions over it (a scope sees    *)
(* what was committed when it first looked, and commits only onto that),   *)
(* and backups that are exact copies.                                      *)
(***************************************************************************)
EXTENDS Naturals, Sequences, RowData

CONSTANTS Handles, Labels, ScopeNames, None

VARIABLES
  data,    \* the committed database
  txn,     \* the session of each handle
  backup   \* the answered snapshots

planeVars == <<data, txn, backup>>

Session == [open |-> TRUE, scopes |-> <<>>, view |-> None]
NoSession == [Session EXCEPT !.open = FALSE]

PlaneInit ==
  /\ data = Blank
  /\ txn = [h \in Handles |-> NoSession]
  /\ backup = [l \in Labels |-> None]

Look(h) == IF txn[h].view = None THEN data ELSE txn[h].view

\* The first statement inside a scope fixes what the scope sees.
Looked(t) ==
  IF t.view = None
  THEN [t EXCEPT !.view = data,
                 !.scopes = [k \in DOMAIN @ |-> [@[k] EXCEPT !.saved = data]]]
  ELSE t

\* A session starts, or starts over.
Start(h) == txn' = [txn EXCEPT ![h] = Session] /\ UNCHANGED <<data, backup>>
Stop(h) == txn' = [txn EXCEPT ![h] = NoSession] /\ UNCHANGED <<data, backup>>

BeginScope(h, n) ==
  /\ txn[h].open
  /\ txn' = [txn EXCEPT ![h].scopes = Append(@, [name |-> n, saved |-> txn[h].view])]
  /\ UNCHANGED <<data, backup>>

LookUp(h) ==
  /\ txn[h].scopes # <<>>
  /\ txn' = [txn EXCEPT ![h] = Looked(@)]
  /\ UNCHANGED <<data, backup>>

\* One atomic change of what the handle sees.
Change(h, new) ==
  /\ txn[h].open
  /\ IF txn[h].scopes = <<>>
     THEN data' = new /\ UNCHANGED txn
     ELSE /\ txn' = [txn EXCEPT ![h] = [Looked(@) EXCEPT !.view = new]]
          /\ UNCHANGED data
  /\ UNCHANGED backup

DeclareStore(h, s) == Change(h, Declared(Look(h), s))

\* A row is written or deleted in a declared store only.
SetRow(h, s, k, v) == s \in Look(h).stores /\ Change(h, WithRow(Look(h), s, k, v))

\* Scope k ends with the view `result`; a commit that changes the database
\* does so onto the very content the transaction started from.
Finish(h, k, result) ==
  IF k > 1
  THEN /\ txn' = [txn EXCEPT ![h].view = result, ![h].scopes = SubSeq(@, 1, k - 1)]
       /\ UNCHANGED data
  ELSE /\ txn' = [txn EXCEPT ![h] = Session]
       /\ LET start == txn[h].scopes[1].saved
          IN  IF result = start THEN UNCHANGED data ELSE start = data /\ data' = result

Meant(h, n, k) ==
  /\ txn[h].scopes[k].name = n
  /\ \A j \in k + 1 .. Len(txn[h].scopes) : txn[h].scopes[j].name # n

ReleaseScope(h, n) ==
  /\ \E k \in DOMAIN txn[h].scopes : Meant(h, n, k) /\ Finish(h, k, txn[h].view)
  /\ UNCHANGED backup

RollbackScope(h, n) ==
  /\ \E k \in DOMAIN txn[h].scopes : Meant(h, n, k) /\ Finish(h, k, txn[h].scopes[k].saved)
  /\ UNCHANGED backup

Backup(h, l) ==
  /\ txn[h].open /\ txn[h].scopes = <<>>
  /\ backup' = [backup EXCEPT ![l] = data]
  /\ UNCHANGED <<data, txn>>

\* The whole database becomes the backup, for a handle that is alone.
Restore(h, l) ==
  /\ backup[l] # None
  /\ \A g \in Handles \ {h} : ~txn[g].open
  /\ data' = backup[l]
  /\ txn' = [txn EXCEPT ![h] = NoSession]
  /\ UNCHANGED backup

PlaneNext ==
  \E h \in Handles :
    \/ Start(h) \/ Stop(h) \/ LookUp(h)
    \/ \E n \in ScopeNames : BeginScope(h, n) \/ ReleaseScope(h, n) \/ RollbackScope(h, n)
    \/ \E s \in Stores : DeclareStore(h, s)
    \/ \E s \in Stores, k \in Keys, v \in Values \cup {NoValue} : SetRow(h, s, k, v)
    \/ \E l \in Labels : Backup(h, l) \/ Restore(h, l)

PlaneSpec == PlaneInit /\ [][PlaneNext]_planeVars
=============================================================================
