--------------------------- MODULE RowsInvariant ----------------------------
(***************************************************************************)
(* The inductive invariant behind TypeOK, NoLostUpdate and DeclaredRows.   *)
(* It speaks of one handle at a time: its connection c against the         *)
(* committed content d of the file it holds, and its call r.               *)
(***************************************************************************)
EXTENDS Rows

\* Contents in which every row belongs to a declared store.
Sound == {db \in Database : RowsDeclared(db)}

Files == Sound \cup {Hollow, Torn}

Start(c) == c.scopes[1].saved

Saves(c) == {c.scopes[k].saved : k \in DOMAIN c.scopes}

\* A connection holds a file that exists; a closed one holds nothing else.
Held(c, d) ==
  /\ IsOpen(c) => d # None
  /\ ~IsOpen(c) => c = Closed

\* A snapshot is taken inside a scope, and then every scope has saved content;
\* before it, no scope has, and there is nothing to write.
Scoped(c) ==
  /\ c.view # None => InScope(c) /\ None \notin Saves(c)
  /\ c.view = None => ~c.writer /\ ~c.stale /\ Saves(c) \subseteq {None}
  /\ c.dirty => c.writer

\* A snapshot that is not stale is what the file holds, and so is the starting
\* point of a transaction that writes.  An empty file was never read.
Current(c, d) ==
  c.view # None =>
    /\ d # Hollow
    /\ d # Torn /\ (~c.stale \/ c.writer) => Start(c) = d

\* A transaction that dirtied nothing changed nothing.
Clean(c) ==
  c.view # None /\ ~c.dirty =>
    c.view = Start(c) /\ Saves(c) = {Start(c)}

\* Stores are only ever added by a transaction.
Grows(c) ==
  c.view # None =>
    \A v \in Saves(c) \cup {c.view} : Start(c).stores \subseteq v.stores

GoodConn(c, d) ==
  /\ c \in Conns(Sound, ScopeNames)
  /\ Held(c, d) /\ Scoped(c) /\ Current(c, d) /\ Clean(c) /\ Grows(c)

\* A call in progress has the connection its next step needs, and the store a
\* pending put or delete required is still declared.
GoodCall(r, c, d) ==
  /\ r.op \in {"write", "vacuum"} => IsOpen(c)
  /\ r.op \in Restoring => ~IsOpen(c)
  /\ r.op = "write" =>
       /\ d # Hollow
       /\ d # Torn => r.store \in Sees(c, d).stores

\* A file has one writer.
OneWriter ==
  \A g, h \in Handles :
    conn[g].writer /\ conn[h].writer /\ conn[g].ino = conn[h].ino => g = h

\* Every file and snapshot is a database whose rows are declared, or debris.
FilesSound ==
  /\ base \in Inodes \cup {None}
  /\ disk \in [Inodes -> Files \cup {None}]
  /\ base # None => disk[base] # None
  /\ snaps \in [Labels -> Files \cup {None}]
  /\ kept \in [Labels -> Sound \cup {None}]

HandlesTyped ==
  /\ conn \in [Handles -> Conns(Sound, ScopeNames)]
  /\ call \in [Handles -> {Idle} \cup WriteCalls \cup FileCalls]

HandlesGood ==
  \A h \in Handles :
    GoodConn(conn[h], Committed(h)) /\ GoodCall(call[h], conn[h], Committed(h))

IInv == FilesSound /\ HandlesTyped /\ HandlesGood /\ OneWriter
=============================================================================
