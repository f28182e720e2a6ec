-------------------------------- MODULE Rows --------------------------------
(***************************************************************************)
(* The data plane of one store directory: the row actions (declare, put,   *)
(* delete and the reads) on top of the handles of StoreHandle.             *)
(*                                                                         *)
(* put and delete are two statements, a SELECT that requires the store and *)
(* then the write, with other handles' steps between them.                 *)
(***************************************************************************)
EXTENDS StoreHandle

\* Any statement that only reads: get, query, stats, index.info, index.search.
Read(h) ==
  /\ Ready(h)
  /\ Readable(h)
  /\ InScope(conn[h])
  /\ conn' = [conn EXCEPT ![h] = Pinned(@, Committed(h))]
  /\ UNCHANGED <<base, disk, call, snaps, kept>>

\* declare.  While it waits for a lock it does not happen; refused, it answers
\* an error and changes nothing.
Declare(h, s) ==
  /\ Ready(h)
  /\ ~Waits(h) /\ ~Refused(h)
  /\ Write(h, Declared(Seen(h), s), s \notin Seen(h).stores)
  /\ UNCHANGED <<base, call, snaps, kept>>

\* put (a value) and delete (NoValue), first statement: requireStore.  A store
\* that was not declared ends the call, with the scope's snapshot taken.
RequireStore(h, s, k, v) ==
  /\ Ready(h)
  /\ Readable(h)
  /\ conn' = [conn EXCEPT ![h] = Pinned(@, Committed(h))]
  /\ IF s \in Seen(h).stores
     THEN Begin(h, [op |-> "write", store |-> s, key |-> k, value |-> v])
     ELSE UNCHANGED call
  /\ UNCHANGED <<base, disk, snaps, kept>>

\* The write is refused: a read-only handle, a stale snapshot or a lock met
\* while holding a snapshot.
RefuseRow(h) ==
  /\ call[h].op = "write"
  /\ Refused(h)
  /\ Return(h)
  /\ UNCHANGED <<base, disk, conn, snaps, kept>>

\* Mutant of BusyTimeout: no busy timeout, the wait has no end.
BusyForever(h) == FALSE /\ UNCHANGED handleVars

\* The busy handler gave up: 5000 ms without the lock.
BusyTimeout(h) ==
  /\ call[h].op = "write"
  /\ Waits(h)
  /\ Return(h)
  /\ UNCHANGED <<base, disk, conn, snaps, kept>>

\* Second statement: the upsert or the DELETE.
WriteRow(h) ==
  /\ call[h].op = "write"
  /\ ~Waits(h) /\ ~Refused(h)
  /\ LET w == call[h]
     IN  Write(h, WithRow(Seen(h), w.store, w.key, w.value),
                  Dirties(Seen(h), w.store, w.key, w.value))
  /\ Return(h)
  /\ UNCHANGED <<base, snaps, kept>>

\* SQLITE_FULL, of a statement that writes or of the commit that ends a
\* scope: SQLite rolls the whole transaction back, and the scopes are gone.
DiskFull(h) ==
  /\ "disk_full" \in Faults
  /\ call[h].op = "write" \/ Ready(h)
  /\ ~Waits(h) /\ ~Refused(h)
  /\ conn' = [conn EXCEPT ![h] = Conn(conn[h].ino)]
  /\ Return(h)
  /\ UNCHANGED <<base, disk, snaps, kept>>

RowNext(h) ==
  \/ Read(h)
  \/ \E s \in Stores : Declare(h, s)
  \/ \E s \in Stores, k \in Keys, v \in Values \cup {NoValue} : RequireStore(h, s, k, v)
  \/ WriteRow(h) \/ RefuseRow(h) \/ BusyTimeout(h) \/ DiskFull(h)

Next == \E h \in Handles : HandleNext(h) \/ RowNext(h)

\* A call that was entered runs on: its thread is scheduled, and the busy
\* handler stops waiting.  Nothing makes a caller start a call.
Continue(h) ==
  \/ WriteRow(h) \/ RefuseRow(h) \/ BusyTimeout(h)
  \/ VacuumInto(h) \/ RestoreUnlink(h) \/ RestoreCopy(h) \/ RestoreOpen(h)

Spec == Init /\ [][Next]_handleVars /\ \A h \in Handles : WF_handleVars(Continue(h))

----------------------------------------------------------------------------
(* Properties *)

\* Every content a handle can come to read: committed in a file, seen by a
\* transaction, saved by a scope, or kept in a snapshot.
Contents ==
  {disk[i] : i \in Inodes} \cup {snaps[l] : l \in Labels}
  \cup {conn[h].view : h \in Handles}
  \cup (UNION {{conn[h].scopes[k].saved : k \in DOMAIN conn[h].scopes} : h \in Handles})

\* A row never exists in a store that was not declared, although the check
\* and the write of put are separate statements and a scope that declared the
\* store may be rolled back (store.cpp, requireStore before every row write).
DeclaredRows == \A c \in Contents \cap Database : RowsDeclared(c)

\* A transaction that wrote started from what the file still holds, and is
\* the only writer of the file: committing it loses nobody's commit.
NoLostUpdate ==
  \A h \in Handles : conn[h].writer =>
    /\ InScope(conn[h])
    /\ Readable(h) => conn[h].scopes[1].saved = Committed(h)
    /\ \A g \in Handles \ {h} : conn[g].writer => conn[g].ino # conn[h].ino

\* Every open handle is on the file that the next open will find.
HandlesOnBase == \A h \in Handles : IsOpen(conn[h]) => conn[h].ino = base

\* A commit lands in the file that the next open will find.
CommitReachesBase ==
  [][\A i \in Inodes : disk[i] \in Database /\ disk'[i] \in Database /\ disk'[i] # disk[i]
        => base = i]_handleVars

\* The backup of a label that was answered stays there, as it was, until a
\* later snapshot of that label replaces it.
BackupKept ==
  \A l \in Labels : kept[l] # None =>
    \/ snaps[l] = kept[l]
    \/ \E h \in Handles : call[h] = [op |-> "vacuum", label |-> l]

\* A restore that answers ok leaves exactly what the answered snapshot saw.
RestoreAnswersOk(h) ==
  /\ call[h].op = "open" /\ call'[h] = Idle
  /\ IsOpen(conn[h])'
RestoreExact ==
  [][\A h \in Handles : RestoreAnswersOk(h) => disk'[base'] = kept[call[h].label]]_handleVars

\* A call that was entered returns.
CallsReturn == \A h \in Handles : call[h] # Idle ~> call[h] = Idle

=============================================================================
