---------------------------- MODULE StoreHandle -----------------------------
(***************************************************************************)
(* Handles on one store directory: opening, closing and losing them, their *)
(* savepoint scopes, and the snapshot and restore calls, which work on     *)
(* files beside the database rather than inside it.                        *)
(*                                                                         *)
(* Every handle is a Store object with one SQLite connection, used by one  *)
(* thread at a time.  Handles interleave between the SQL statements and    *)
(* the file operations of their calls.                                     *)
(***************************************************************************)
EXTENDS SqliteConnection, RowData

CONSTANTS
  Handles,          \* open or openable handles on the directory
  Readonly,         \* those opened with "readonly": true
  Labels,           \* snapshot labels that pass validLabel
  ScopeNames,       \* savepoint names that pass validSavepoint, case folded
  MaxScopes,        \* bound: savepoints open at once on a handle
  Hollow,           \* a file of zero bytes
  Torn,             \* a file cut short or overwritten under an open connection
  Faults,           \* what may go wrong, of FaultKinds
  SoleRestore,      \* callers restore only while no other handle is open
  ScopedSnapshots   \* callers may ask for a snapshot inside a savepoint scope

FaultKinds == {"crash", "crash_in_file_call", "disk_full"}

ASSUME HandleAssumption ==
  /\ Readonly \subseteq Handles
  /\ MaxScopes \in Nat
  /\ Faults \subseteq FaultKinds
  /\ SoleRestore \in BOOLEAN /\ ScopedSnapshots \in BOOLEAN

ASSUME MarkerAssumption ==
  /\ Hollow # Torn /\ Hollow # None /\ Torn # None
  /\ {Hollow, Torn, None} \cap Database = {}

VARIABLES
  base,    \* the file named base.db, or None
  disk,    \* the committed content of every file that is named or held open
  conn,    \* the connection of each handle
  call,    \* the call each handle is in the middle of
  snaps,   \* the files of snapshots/, by label
  kept     \* history: what the last answered snapshot of a label saw

handleVars == <<base, disk, conn, call, snaps, kept>>

Images == Database \cup {Hollow, Torn}

Idle == [op |-> "idle"]
WriteCalls == [op : {"write"}, store : Stores, key : Keys, value : Values \cup {NoValue}]
FileCalls == [op : {"vacuum", "unlink", "copy", "open", "reopen"}, label : Labels]
Restoring == {"unlink", "copy", "open", "reopen"}

\* What the files, connections and calls are, whatever happens: no call in progress
\* and no half-done file operation leaves anything else behind (store.hpp, Store).
TypeOK ==
  /\ base \in Inodes \cup {None}
  /\ disk \in [Inodes -> Images \cup {None}]
  /\ conn \in [Handles -> Conns(Database, ScopeNames)]
  /\ call \in [Handles -> {Idle} \cup WriteCalls \cup FileCalls]
  /\ snaps \in [Labels -> Images \cup {None}]
  /\ kept \in [Labels -> Database \cup {None}]

Init ==
  /\ base = None
  /\ disk = [i \in Inodes |-> None]
  /\ conn = [h \in Handles |-> Closed]
  /\ call = [h \in Handles |-> Idle]
  /\ snaps = [l \in Labels |-> None]
  /\ kept = [l \in Labels |-> None]

----------------------------------------------------------------------------
(* Connections and locks *)

Ready(h) == call[h] = Idle /\ IsOpen(conn[h])

Begin(h, request) == call' = [call EXCEPT ![h] = request]
Return(h) == Begin(h, Idle)

Committed(h) == disk[conn[h].ino]

\* SQLite answers only for a file that is a whole database.
Readable(h) == Committed(h) \notin {Hollow, Torn}

\* Mutant of Seen: reads what another transaction has not committed.
SeenDirty(h) ==
  IF \E g \in Handles : conn[g].ino = conn[h].ino /\ conn[g].writer
  THEN conn[CHOOSE g \in Handles : conn[g].ino = conn[h].ino /\ conn[g].writer].view
  ELSE Sees(conn[h], Committed(h))

Seen(h) == Sees(conn[h], Committed(h))

LockedByOther(h) ==
  \E g \in Handles \ {h} : conn[g].ino = conn[h].ino /\ conn[g].writer

\* The busy handler runs only while the connection holds no snapshot.
Waits(h) == conn[h].view = None /\ LockedByOther(h)

\* Mutant of Refused: an old snapshot may be upgraded.
RefusedIfLocked(h) ==
  h \in Readonly \/ ~Readable(h) \/ (~conn[h].writer /\ LockedByOther(h))

\* A snapshot that is stale, or whose upgrade meets a lock, is refused at once.
Refused(h) ==
  \/ h \in Readonly
  \/ ~Readable(h)
  \/ /\ conn[h].view # None
     /\ ~conn[h].writer
     /\ conn[h].stale \/ LockedByOther(h)

\* A file is gone once it has neither a name nor a connection.
Reaped(d, b, c) ==
  [i \in Inodes |-> IF i = b \/ \E g \in Handles : c[g].ino = i THEN d[i] ELSE None]

Fresh(i) == disk[i] = None

\* The file gets new committed content: snapshots other connections hold on
\* it are stale from now on.
Publish(h, c, content, dirtied) ==
  /\ disk' = [disk EXCEPT ![c.ino] = content]
  /\ conn' = [g \in Handles |->
                IF g = h THEN c
                ELSE IF dirtied /\ conn[g].ino = c.ino /\ conn[g].view # None
                THEN [conn[g] EXCEPT !.stale = TRUE]
                ELSE conn[g]]

\* One INSERT, UPSERT or DELETE of a handle that may write.
Write(h, content, dirtied) ==
  IF InScope(conn[h])
  THEN /\ conn' = [conn EXCEPT ![h] = Wrote(Pinned(@, Committed(h)), content, dirtied)]
       /\ UNCHANGED disk
  ELSE Publish(h, conn[h], content, dirtied)

----------------------------------------------------------------------------
(* Opening and closing *)

\* Mutant of OpenConnection: the schema statements recreate the tables.
OpenRecreating(h) ==
  \E i \in Inodes :
    /\ IF base = None THEN Fresh(i) ELSE i = base
    /\ base' = i
    /\ conn' = [conn EXCEPT ![h] = Conn(i)]
    /\ disk' = Reaped([disk EXCEPT ![i] = Blank], i, conn')

(***************************************************************************)
(* openConnection: a read-write handle creates base.db where there is none *)
(* and the schema where the file is empty; a torn file refuses the schema  *)
(* statements and the connection is closed again.  A read-only handle      *)
(* needs the file, and runs no statement on it.                            *)
(***************************************************************************)
OpenConnection(h) ==
  LET Opened(i, b, d) == LET c == [conn EXCEPT ![h] = Conn(i)]
                         IN  /\ conn' = c
                             /\ base' = b
                             /\ disk' = Reaped(d, b, c)
  IN \/ /\ base = None /\ h \notin Readonly
        /\ \E i \in Inodes : Fresh(i) /\ Opened(i, i, [disk EXCEPT ![i] = Blank])
     \/ /\ base # None /\ disk[base] = Hollow /\ h \notin Readonly
        /\ Opened(base, base, [disk EXCEPT ![base] = Blank])
     \/ /\ base # None
        /\ disk[base] \in Database \/ h \in Readonly
        /\ Opened(base, base, disk)
     \/ /\ IF base = None THEN h \in Readonly ELSE disk[base] = Torn /\ h \notin Readonly
        /\ Opened(None, base, disk)

\* Only the caller's discipline keeps a second handle away from a restore.
MayOpen(h) ==
  SoleRestore => \A g \in Handles \ {h} : call[g] = Idle \/ call[g].op \notin Restoring

\* despia_local_open, and despia_local_reopen, which closes first.
Open(h) ==
  /\ call[h] = Idle
  /\ MayOpen(h)
  /\ OpenConnection(h)
  /\ UNCHANGED <<call, snaps, kept>>

\* The connection goes and takes its open scope with it.
Disconnect(h) ==
  LET c == [conn EXCEPT ![h] = Closed]
  IN  /\ conn' = c
      /\ disk' = Reaped(disk, base, c)

\* despia_local_close
Close(h) ==
  /\ Ready(h)
  /\ Disconnect(h)
  /\ UNCHANGED <<base, call, snaps, kept>>

\* The process goes between two statements of row calls, or between calls.
Crash(h) ==
  /\ "crash" \in Faults
  /\ IsOpen(conn[h])
  /\ call[h].op \in {"idle", "write"}
  /\ Disconnect(h)
  /\ Return(h)
  /\ UNCHANGED <<base, snaps, kept>>

----------------------------------------------------------------------------
(* Savepoint scopes *)

Savepoint(h, n) ==
  /\ Ready(h)
  /\ Len(conn[h].scopes) < MaxScopes
  /\ conn' = [conn EXCEPT ![h] = Pushed(@, n)]
  /\ UNCHANGED <<base, disk, call, snaps, kept>>

\* Ends scope k of connection c; the outermost one commits what c wrote (a
\* commit cannot mend a file that was overwritten under the connection).
EndScope(h, c, k) ==
  IF k = 1 /\ c.writer /\ Readable(h)
  THEN Publish(h, Released(c, k), c.view, c.dirty)
  ELSE /\ conn' = [conn EXCEPT ![h] = Released(c, k)]
       /\ UNCHANGED disk

\* A name that opens no scope is refused and changes nothing.
Release(h, n) ==
  /\ Ready(h)
  /\ \E k \in DOMAIN conn[h].scopes :
       /\ Innermost(conn[h], n, k)
       /\ EndScope(h, conn[h], k)
  /\ UNCHANGED <<base, call, snaps, kept>>

\* Mutant of Rollback: ROLLBACK TO alone, which leaves the savepoint in place.
RollbackUnreleased(h, n) ==
  /\ Ready(h)
  /\ \E k \in DOMAIN conn[h].scopes :
       /\ Innermost(conn[h], n, k)
       /\ conn' = [conn EXCEPT ![h] = RolledBack(@, k)]
  /\ UNCHANGED <<base, disk, call, snaps, kept>>

\* ROLLBACK TO, then RELEASE.
Rollback(h, n) ==
  /\ Ready(h)
  /\ \E k \in DOMAIN conn[h].scopes :
       /\ Innermost(conn[h], n, k)
       /\ EndScope(h, RolledBack(conn[h], k), k)
  /\ UNCHANGED <<base, call, snaps, kept>>

----------------------------------------------------------------------------
(* Snapshots *)

\* snapshot, first step: the file of that label goes.
SnapshotRemove(h, l) ==
  /\ Ready(h)
  /\ ScopedSnapshots \/ ~InScope(conn[h])
  /\ snaps' = [snaps EXCEPT ![l] = None]
  /\ Begin(h, [op |-> "vacuum", label |-> l])
  /\ UNCHANGED <<base, disk, conn, kept>>

\* VACUUM refuses inside a transaction, and to write over a file.
VacuumRefused(h) ==
  InScope(conn[h]) \/ snaps[call[h].label] \notin {None, Hollow}

\* Mutant of VacuumInto: answers whatever it copied.
VacuumIntoUnchecked(h) ==
  /\ call[h].op = "vacuum"
  /\ ~VacuumRefused(h)
  /\ snaps' = [snaps EXCEPT ![call[h].label] = Committed(h)]
  /\ kept' = [kept EXCEPT ![call[h].label] = Committed(h)]
  /\ Return(h)
  /\ UNCHANGED <<base, disk, conn>>

\* snapshot, second step: VACUUM INTO, and the answer.  One that fails midway
\* is rolled back to a file of no bytes, which stays.
VacuumInto(h) ==
  /\ call[h].op = "vacuum"
  /\ LET l == call[h].label
     IN  \/ /\ VacuumRefused(h)
            /\ UNCHANGED <<snaps, kept>>
         \/ /\ ~VacuumRefused(h) /\ Readable(h)
            /\ snaps' = [snaps EXCEPT ![l] = Committed(h)]
            /\ kept' = [kept EXCEPT ![l] = Committed(h)]
         \/ /\ ~VacuumRefused(h)
            /\ "disk_full" \in Faults \/ ~Readable(h)
            /\ snaps' = [snaps EXCEPT ![l] = Hollow]
            /\ UNCHANGED kept
  /\ Return(h)
  /\ UNCHANGED <<base, disk, conn>>

CrashInSnapshot(h) ==
  /\ "crash_in_file_call" \in Faults
  /\ call[h].op = "vacuum"
  /\ \/ UNCHANGED snaps
     \/ /\ ~VacuumRefused(h)
        /\ \E f \in {Hollow, Torn} : snaps' = [snaps EXCEPT ![call[h].label] = f]
  /\ Disconnect(h)
  /\ Return(h)
  /\ UNCHANGED <<base, kept>>

----------------------------------------------------------------------------
(* Restore *)

\* Mutant of RestoreBegin: the connection is not closed.
RestoreBeginOpen(h, l) ==
  /\ Ready(h)
  /\ SoleRestore => \A g \in Handles \ {h} : ~IsOpen(conn[g])
  /\ snaps[l] # None
  /\ Begin(h, [op |-> "unlink", label |-> l])
  /\ UNCHANGED <<base, disk, conn, snaps, kept>>

\* restore, first step: the label exists, and the connection is closed.
RestoreBegin(h, l) ==
  /\ Ready(h)
  /\ SoleRestore => \A g \in Handles \ {h} : ~IsOpen(conn[g])
  /\ snaps[l] # None
  /\ Disconnect(h)
  /\ Begin(h, [op |-> "unlink", label |-> l])
  /\ UNCHANGED <<base, snaps, kept>>

\* base.db-wal, base.db-shm and base.db are removed.
RestoreUnlink(h) ==
  /\ call[h].op = "unlink"
  /\ base' = None
  /\ disk' = Reaped(disk, None, conn)
  /\ Begin(h, [call[h] EXCEPT !.op = "copy"])
  /\ UNCHANGED <<conn, snaps, kept>>

\* copy_file puts `content` into base.db: a new file, or the one another handle
\* created meanwhile.  Written over while a connection holds it open, the file
\* is left any mixture.
CopyIn(content) ==
  \E i \in Inodes :
    /\ IF base = None THEN Fresh(i) ELSE i = base
    /\ base' = i
    /\ disk' = [disk EXCEPT ![i] = IF \E g \in Handles : conn[g].ino = i THEN Torn
                                  ELSE content]

\* Mutant of RestoreCopy: the snapshot is moved, not copied.
RestoreMove(h) ==
  /\ call[h].op = "copy"
  /\ snaps[call[h].label] # None
  /\ CopyIn(snaps[call[h].label])
  /\ snaps' = [snaps EXCEPT ![call[h].label] = None]
  /\ Begin(h, [call[h] EXCEPT !.op = "open"])
  /\ UNCHANGED <<conn, kept>>

\* Mutant of RestoreCopy: nothing handles a snapshot that has gone.
RestoreCopyUnhandled(h) ==
  /\ call[h].op = "copy"
  /\ snaps[call[h].label] # None
  /\ CopyIn(snaps[call[h].label])
  /\ Begin(h, [call[h] EXCEPT !.op = "open"])
  /\ UNCHANGED <<conn, snaps, kept>>

\* copy_file: done, or failed with the target absent or incomplete.
RestoreCopy(h) ==
  /\ call[h].op = "copy"
  /\ \/ /\ snaps[call[h].label] = None
        /\ Begin(h, [call[h] EXCEPT !.op = "reopen"])
        /\ UNCHANGED <<base, disk>>
     \/ /\ snaps[call[h].label] # None
        /\ CopyIn(snaps[call[h].label])
        /\ Begin(h, [call[h] EXCEPT !.op = "open"])
     \/ /\ snaps[call[h].label] # None
        /\ "disk_full" \in Faults
        /\ \E f \in {Hollow, Torn} : CopyIn(f)
        /\ Begin(h, [call[h] EXCEPT !.op = "reopen"])
  /\ UNCHANGED <<conn, snaps, kept>>

\* openConnection again; "reopen" answers restore_failed whatever it finds.
RestoreOpen(h) ==
  /\ call[h].op \in {"open", "reopen"}
  /\ OpenConnection(h)
  /\ Return(h)
  /\ UNCHANGED <<snaps, kept>>

\* The process goes with base.db unlinked, incomplete or not reopened.
CrashInRestore(h) ==
  /\ "crash_in_file_call" \in Faults
  /\ call[h].op \in Restoring
  /\ \/ UNCHANGED <<base, disk>>
     \/ /\ call[h].op = "copy" /\ snaps[call[h].label] # None
        /\ \E f \in {Hollow, Torn} : CopyIn(f)
  /\ Return(h)
  /\ UNCHANGED <<conn, snaps, kept>>

HandleNext(h) ==
  \/ Open(h) \/ Close(h) \/ Crash(h)
  \/ \E n \in ScopeNames : Savepoint(h, n) \/ Release(h, n) \/ Rollback(h, n)
  \/ \E l \in Labels : SnapshotRemove(h, l) \/ RestoreBegin(h, l)
  \/ VacuumInto(h) \/ CrashInSnapshot(h)
  \/ RestoreUnlink(h) \/ RestoreCopy(h) \/ RestoreOpen(h) \/ CrashInRestore(h)

=============================================================================
