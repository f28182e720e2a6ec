-------------------------- MODULE SqliteConnection --------------------------
(***************************************************************************)
(* One SQLite connection of the engine, as a value: the savepoint stack    *)
(* and the WAL snapshot that every statement of a handle runs against.     *)
(*                                                                         *)
(* A connection holds a file (an inode, not a name: it keeps the file it   *)
(* opened when the name is unlinked), the savepoints open on it, the       *)
(* content its transaction sees, and the write lock.  A content is opaque  *)
(* here; None stands for "no content", "no file" and "no snapshot taken".  *)
(***************************************************************************)
EXTENDS Naturals, Sequences

CONSTANTS
  Inodes,   \* files of the store directory that can be base.db or were
  None      \* nothing: no file, no connection, no content

ASSUME NoneAssumption == None \notin Inodes

\* db_ just opened on file i, in autocommit mode; None is db_ == nullptr.
Conn(i) == [ino |-> i, scopes |-> <<>>, view |-> None,
            writer |-> FALSE, dirty |-> FALSE, stale |-> FALSE]

Closed == Conn(None)

\* Every connection over contents D and savepoint names N.
Conns(D, N) ==
  [ino : Inodes \cup {None},
   scopes : Seq([name : N, saved : D \cup {None}]),
   view : D \cup {None},
   writer : BOOLEAN, dirty : BOOLEAN, stale : BOOLEAN]

IsOpen(c) == c.ino # None

\* autoCommit is off from the first SAVEPOINT to the end of the outermost one.
InScope(c) == c.scopes # <<>>

\* What a statement reads, where the file's committed content is `committed`.
Sees(c, committed) == IF c.view = None THEN committed ELSE c.view

(***************************************************************************)
(* SAVEPOINT opens a deferred transaction: the first statement inside it   *)
(* takes the snapshot, which is then also what every open savepoint saved. *)
(***************************************************************************)
Pinned(c, committed) ==
  IF InScope(c) /\ c.view = None
  THEN [c EXCEPT !.view = committed,
                 !.scopes = [k \in DOMAIN @ |-> [@[k] EXCEPT !.saved = committed]]]
  ELSE c

Pushed(c, n) ==
  [c EXCEPT !.scopes = Append(@, [name |-> n, saved |-> c.view])]

\* Savepoint k is the one that name n means: the innermost one of that name.
Innermost(c, n, k) ==
  /\ k \in DOMAIN c.scopes
  /\ c.scopes[k].name = n
  /\ \A j \in DOMAIN c.scopes : c.scopes[j].name = n => j <= k

\* ROLLBACK TO restores what savepoint k saved and leaves k open.
RolledBack(c, k) ==
  [c EXCEPT !.view = c.scopes[k].saved, !.scopes = SubSeq(@, 1, k)]

\* RELEASE drops savepoint k and those inside it; releasing the outermost
\* one ends the transaction.
Released(c, k) ==
  IF k = 1 THEN Conn(c.ino) ELSE [c EXCEPT !.scopes = SubSeq(@, 1, k - 1)]

\* A statement wrote: inside a scope, to the transaction's own view, under
\* the write lock.
Wrote(c, content, dirtied) ==
  [c EXCEPT !.view = content, !.writer = TRUE, !.dirty = @ \/ dirtied]

=============================================================================
