--------------------------- MODULE RestoreProofs ----------------------------
(***************************************************************************)
(* What the discipline of the callers buys, for every number of handles:   *)
(* if a handle restores only while no other is open, every open handle is  *)
(* on base.db and every commit reaches it; if besides nobody snapshots     *)
(* inside a scope and no file operation is cut short, answered backups     *)
(* stay and a restore brings back exactly what they saw.                   *)
(***************************************************************************)
EXTENDS RowsProofs

\* A handle in the middle of a restore is alone.
Alone ==
  \A h \in Handles : call[h].op \in Restoring =>
    \A g \in Handles \ {h} : ~IsOpen(conn[g]) /\ call[g].op \notin Restoring

RInv == IInv /\ Alone /\ HandlesOnBase

\* No file and no snapshot is debris, and a snapshot is the one answered.
NoDebris ==
  /\ \A i \in Inodes : disk[i] \in Sound \cup {None}
  /\ \A l \in Labels : snaps[l] \in {None, kept[l]}

\* VACUUM INTO is only asked for outside a scope.
VacuumsOutside == \A h \in Handles : call[h].op = "vacuum" => ~InScope(conn[h])

\* Where the backup is while it is restored.
Underway(h) ==
  /\ call[h].op # "reopen"
  /\ kept[call[h].label] # None
  /\ call[h].op = "copy" => base = None
  /\ call[h].op = "open" => base # None /\ disk[base] = kept[call[h].label]

RestoresUnderway == \A h \in Handles : call[h].op \in Restoring => Underway(h)

SInv == RInv /\ NoDebris /\ BackupKept /\ VacuumsOutside /\ RestoresUnderway

----------------------------------------------------------------------------
(* Steps of one handle that leave base.db named as it is *)

\* What the other handles keep when h takes a step: all but a stale mark.
Bystanders(h) ==
  \A g \in Handles \ {h} :
    /\ conn'[g].ino = conn[g].ino /\ conn'[g].scopes = conn[g].scopes
    /\ conn'[g].view = conn[g].view
    /\ call'[g] = call[g]

\* A row call, a scope call, a close or a crash of an open handle h.
RowStep(h) ==
  /\ IsOpen(conn[h])
  /\ IsOpen(conn'[h]) => conn'[h].ino = conn[h].ino
  /\ call[h].op \in {"idle", "write"} /\ call'[h].op \in {"idle", "write"}
  /\ Bystanders(h)
  /\ \A i \in Inodes : \/ disk'[i] \in {disk[i], None}
                       \/ i = conn[h].ino /\ disk'[i] \in Sound
  /\ UNCHANGED <<base, snaps, kept>>

\* Only the connection of h changes, if any.
LEMMA OthersStay ==
  ASSUME IInv, NEW h \in Handles, NEW c, conn' = [conn EXCEPT ![h] = c],
         \A g \in Handles \ {h} : call'[g] = call[g]
  PROVE  conn'[h] = c /\ Bystanders(h)
BY DEF IInv, HandlesTyped, Bystanders

\* Content is committed into the file of h.
LEMMA PublishEffect ==
  ASSUME IInv, NEW h \in Handles, IsOpen(conn[h]), NEW c, c.ino = conn[h].ino,
         NEW content, NEW dirtied, Publish(h, c, content, dirtied),
         \A g \in Handles \ {h} : call'[g] = call[g]
  PROVE  /\ conn'[h] = c /\ Bystanders(h)
         /\ disk'[conn[h].ino] = content
         /\ \A i \in Inodes \ {conn[h].ino} : disk'[i] = disk[i]
<1>1. conn[h].ino \in Inodes /\ DOMAIN disk = Inodes
  BY HandleFacts DEF IInv, FilesSound
<1>2. /\ disk'[conn[h].ino] = content
      /\ \A i \in Inodes \ {conn[h].ino} : disk'[i] = disk[i]
  BY <1>1 DEF Publish
<1>3. /\ conn'[h] = c
      /\ \A g \in Handles \ {h} : conn'[g] \in {conn[g], [conn[g] EXCEPT !.stale = TRUE]}
  BY DEF Publish
<1>4. \A g \in Handles : conn[g] \in Conns(Sound, ScopeNames)
  BY HandleFacts
<1>5. Bystanders(h)
  BY <1>3, <1>4 DEF Bystanders, Conns
<1> QED
  BY <1>2, <1>3, <1>5

\* A handle that loses its connection.
LEMMA DisconnectEffect ==
  ASSUME IInv, NEW h \in Handles, Disconnect(h),
         \A g \in Handles \ {h} : call'[g] = call[g]
  PROVE  /\ conn'[h] = Closed /\ ~IsOpen(conn'[h]) /\ Bystanders(h)
         /\ \A i \in Inodes : disk'[i] \in {disk[i], None}
         /\ base \in Inodes => disk'[base] = disk[base]
<1>1. conn' = [conn EXCEPT ![h] = Closed] /\ disk' = Reaped(disk, base, conn')
  BY DEF Disconnect
<1>2. conn'[h] = Closed /\ Bystanders(h)
  BY <1>1, OthersStay
<1> QED
  BY <1>1, <1>2 DEF Reaped, IsOpen, Closed, Conn

\* What a statement that is not refused sees is a sound database.
LEMMA SeenSound ==
  ASSUME IInv, NEW h \in Handles, IsOpen(conn[h]), Readable(h)
  PROVE  Seen(h) \in Sound
<1>1. Committed(h) \in Sound /\ conn[h].view \in Sound \cup {None}
  BY HandleFacts, ConnFields
<1> QED
  BY <1>1 DEF Seen, Sees

\* The content that put or delete writes is sound.
LEMMA WrittenSound ==
  ASSUME IInv, NEW h \in Handles, WriteRow(h)
  PROVE  /\ IsOpen(conn[h]) /\ call[h].store \in Seen(h).stores
         /\ WithRow(Seen(h), call[h].store, call[h].key, call[h].value) \in Sound
<1>1. /\ call[h].store \in Stores /\ call[h].key \in Keys
      /\ call[h].value \in Values \cup {NoValue}
      /\ IsOpen(conn[h]) /\ Readable(h)
  BY HandleFacts, CallShapes DEF WriteRow, GoodCall, Refused
<1>2. Seen(h) \in Sound /\ Committed(h) \in Sound
  BY <1>1, SeenSound, HandleFacts
<1>3. call[h].store \in Seen(h).stores
  BY <1>2, HandleFacts, Markers DEF WriteRow, GoodCall, Seen
<1> QED
  BY <1>1, <1>2, <1>3, WithRowSound

\* A write goes to the view of the scope, or is committed at once.
LEMMA WriteEffect ==
  ASSUME IInv, NEW h \in Handles, IsOpen(conn[h]), Readable(h), NEW new \in Sound,
         NEW dirtied, Write(h, new, dirtied),
         \A g \in Handles \ {h} : call'[g] = call[g]
  PROVE  /\ conn'[h].ino = conn[h].ino /\ Bystanders(h)
         /\ \A i \in Inodes : disk'[i] = disk[i] \/ (i = conn[h].ino /\ disk'[i] = new)
<1>1. CASE InScope(conn[h])
  <2> DEFINE w == Wrote(Pinned(conn[h], Committed(h)), new, dirtied)
  <2>1. conn' = [conn EXCEPT ![h] = w] /\ UNCHANGED disk
    BY <1>1 DEF Write
  <2>2. /\ Committed(h) \in Sound /\ GoodConn(conn[h], Committed(h))
        /\ Pinned(conn[h], Committed(h)) \in Conns(Sound, ScopeNames)
        /\ Pinned(conn[h], Committed(h)).ino = conn[h].ino
    BY HandleFacts, PinnedGood DEF GoodConn
  <2>3. w.ino = conn[h].ino
    BY <2>2 DEF Wrote, Conns
  <2> HIDE DEF w
  <2> QED
    BY <2>1, <2>3, OthersStay
<1>2. CASE ~InScope(conn[h])
  <2>1. Publish(h, conn[h], new, dirtied)
    BY <1>2 DEF Write
  <2> QED
    BY <2>1, PublishEffect
<1> QED
  BY <1>1, <1>2

\* The end of a scope, rolled back or not: its view may be committed.
LEMMA EndScopeEffect ==
  ASSUME IInv, NEW h \in Handles, IsOpen(conn[h]), NEW c, NEW k \in DOMAIN c.scopes,
         GoodConn(c, Committed(h)), c.ino = conn[h].ino,
         EndScope(h, c, k), \A g \in Handles \ {h} : call'[g] = call[g]
  PROVE  /\ conn'[h] = Released(c, k) /\ conn'[h].ino = conn[h].ino /\ Bystanders(h)
         /\ \A i \in Inodes \ {conn[h].ino} : disk'[i] = disk[i]
         /\ IF k = 1 /\ c.writer /\ Readable(h)
            THEN c.view \in Sound /\ disk'[conn[h].ino] = c.view
            ELSE UNCHANGED disk
<1> DEFINE r == Released(c, k)
<1>1. r.ino = c.ino
  <2>1. CASE k = 1
    BY <2>1 DEF Released, Conn
  <2>2. CASE k # 1
    BY <2>2, ReleasedGood
  <2> QED
    BY <2>1, <2>2
<1>2. CASE k = 1 /\ c.writer /\ Readable(h)
  <2>1. Publish(h, r, c.view, c.dirty)
    BY <1>2 DEF EndScope
  <2>2. c.view \in Sound
    BY <1>2, GoodScopes
  <2> HIDE DEF r
  <2>3. /\ conn'[h] = r /\ Bystanders(h) /\ disk'[conn[h].ino] = c.view
        /\ \A i \in Inodes \ {conn[h].ino} : disk'[i] = disk[i]
    BY <2>1, <1>1, PublishEffect
  <2> QED
    BY <2>2, <2>3, <1>1, <1>2 DEF r
<1>3. CASE ~(k = 1 /\ c.writer /\ Readable(h))
  <2>1. conn' = [conn EXCEPT ![h] = r] /\ UNCHANGED disk
    BY <1>3 DEF EndScope
  <2> HIDE DEF r
  <2>2. conn'[h] = r /\ Bystanders(h)
    BY <2>1, OthersStay
  <2> QED
    BY <2>1, <2>2, <1>1, <1>3 DEF r
<1> QED
  BY <1>2, <1>3

\* A call that goes on or ends is one of h alone.
LEMMA CallEffect ==
  ASSUME IInv, NEW h \in Handles, NEW r, Begin(h, r)
  PROVE  call'[h] = r /\ \A g \in Handles \ {h} : call'[g] = call[g]
BY DEF Begin, IInv, HandlesTyped

LEMMA CloseStep ==
  ASSUME IInv, NEW h \in Handles, Close(h) \/ Crash(h)
  PROVE  RowStep(h)
<1>1. /\ Disconnect(h) /\ IsOpen(conn[h]) /\ UNCHANGED <<base, snaps, kept>>
      /\ call[h].op \in {"idle", "write"}
      /\ call'[h] \in {call[h], Idle}
      /\ \A g \in Handles \ {h} : call'[g] = call[g]
  BY CallEffect, CallShapes DEF Close, Crash, Ready, Return
<1> QED
  BY <1>1, DisconnectEffect, CallShapes DEF RowStep

LEMMA SavepointStep ==
  ASSUME IInv, NEW h \in Handles, NEW n \in ScopeNames, Savepoint(h, n)
  PROVE  RowStep(h)
<1> DEFINE c == Pushed(conn[h], n)
<1>1. /\ conn' = [conn EXCEPT ![h] = c] /\ UNCHANGED <<base, disk, call, snaps, kept>>
      /\ call[h] = Idle /\ IsOpen(conn[h])
  BY DEF Savepoint, Ready
<1>2. c.ino = conn[h].ino
  BY <1>1, HandleFacts, PushedGood
<1> HIDE DEF c
<1>3. conn'[h] = c /\ Bystanders(h)
  BY <1>1, OthersStay
<1> QED
  BY <1>1, <1>2, <1>3, CallShapes DEF RowStep

\* The end of a scope, with or without ROLLBACK TO before it.
LEMMA EndStep ==
  ASSUME IInv, NEW h \in Handles, Ready(h), NEW c, NEW k \in DOMAIN c.scopes,
         GoodConn(c, Committed(h)), c.ino = conn[h].ino,
         EndScope(h, c, k), UNCHANGED <<base, call, snaps, kept>>
  PROVE  RowStep(h)
<1>1. IsOpen(conn[h]) /\ call[h] = Idle /\ \A g \in Handles \ {h} : call'[g] = call[g]
  BY DEF Ready
<1>2. /\ conn'[h].ino = conn[h].ino /\ Bystanders(h)
      /\ \A i \in Inodes \ {conn[h].ino} : disk'[i] = disk[i]
      /\ disk'[conn[h].ino] \in Sound \/ UNCHANGED disk
  BY <1>1, EndScopeEffect
<1> QED
  BY <1>1, <1>2, CallShapes DEF RowStep

LEMMA ReleaseStep ==
  ASSUME IInv, NEW h \in Handles, NEW n \in ScopeNames, Release(h, n)
  PROVE  RowStep(h)
<1>1. PICK k \in DOMAIN conn[h].scopes : EndScope(h, conn[h], k)
  BY DEF Release
<1> QED
  BY <1>1, HandleFacts, EndStep DEF Release

LEMMA RollbackStep ==
  ASSUME IInv, NEW h \in Handles, NEW n \in ScopeNames, Rollback(h, n)
  PROVE  RowStep(h)
<1>1. PICK k \in DOMAIN conn[h].scopes : EndScope(h, RolledBack(conn[h], k), k)
  BY DEF Rollback
<1> DEFINE c == RolledBack(conn[h], k)
<1>2. GoodConn(c, Committed(h)) /\ c.ino = conn[h].ino /\ k \in DOMAIN c.scopes
  BY HandleFacts, RolledBackGood
<1> HIDE DEF c
<1>3. EndScope(h, c, k)
  BY <1>1 DEF c
<1> QED
  BY <1>2, <1>3, EndStep DEF Rollback

\* A statement that only reads takes the snapshot of its scope.
LEMMA PinEffect ==
  ASSUME IInv, NEW h \in Handles, IsOpen(conn[h]), Readable(h),
         conn' = [conn EXCEPT ![h] = Pinned(@, Committed(h))],
         \A g \in Handles \ {h} : call'[g] = call[g]
  PROVE  /\ conn'[h] = Pinned(conn[h], Committed(h)) /\ conn'[h].ino = conn[h].ino
         /\ Bystanders(h)
<1> DEFINE c == Pinned(conn[h], Committed(h))
<1>1. c.ino = conn[h].ino /\ conn' = [conn EXCEPT ![h] = c]
  BY HandleFacts, PinnedGood
<1> HIDE DEF c
<1> QED
  BY <1>1, OthersStay DEF c

LEMMA ReadStep ==
  ASSUME IInv, NEW h \in Handles, Read(h)
  PROVE  RowStep(h)
BY PinEffect, CallShapes DEF Read, Ready, RowStep

LEMMA RequireStoreStep ==
  ASSUME IInv, NEW h \in Handles, NEW s, NEW k, NEW v, RequireStore(h, s, k, v)
  PROVE  RowStep(h)
<1> DEFINE w == [op |-> "write", store |-> s, key |-> k, value |-> v]
<1>1. /\ call[h] = Idle /\ w.op = "write"
      /\ UNCHANGED call \/ Begin(h, w)
  BY DEF RequireStore, Ready
<1> HIDE DEF w
<1>2. /\ call'[h] \in {Idle, w}
      /\ \A g \in Handles \ {h} : call'[g] = call[g]
  BY <1>1, CallEffect
<1> QED
  BY <1>1, <1>2, PinEffect, CallShapes DEF RequireStore, Ready, RowStep

\* A write, of declare or of put and delete.
LEMMA WriteStep ==
  ASSUME IInv, NEW h \in Handles, IsOpen(conn[h]), Readable(h), NEW new \in Sound,
         NEW dirtied, Write(h, new, dirtied),
         call[h].op \in {"idle", "write"}, call'[h] = Idle,
         \A g \in Handles \ {h} : call'[g] = call[g],
         UNCHANGED <<base, snaps, kept>>
  PROVE  RowStep(h)
<1>1. /\ conn'[h].ino = conn[h].ino /\ Bystanders(h)
      /\ \A i \in Inodes : disk'[i] = disk[i] \/ (i = conn[h].ino /\ disk'[i] = new)
  BY WriteEffect
<1> QED
  BY <1>1, CallShapes DEF RowStep

LEMMA DeclareStep ==
  ASSUME IInv, NEW h \in Handles, NEW s \in Stores, Declare(h, s)
  PROVE  RowStep(h)
<1>1. /\ IsOpen(conn[h]) /\ Readable(h) /\ call[h] = Idle
      /\ UNCHANGED <<base, call, snaps, kept>>
      /\ Write(h, Declared(Seen(h), s), s \notin Seen(h).stores)
  BY DEF Declare, Ready, Refused
<1>2. Declared(Seen(h), s) \in Sound
  BY <1>1, SeenSound, DeclaredSound
<1> QED
  BY <1>1, <1>2, WriteStep, CallShapes

LEMMA WriteRowStep ==
  ASSUME IInv, NEW h \in Handles, WriteRow(h)
  PROVE  RowStep(h)
<1> DEFINE w == call[h]
           new == WithRow(Seen(h), w.store, w.key, w.value)
           dirtied == Dirties(Seen(h), w.store, w.key, w.value)
<1>1. /\ Readable(h) /\ call[h].op = "write" /\ Begin(h, Idle)
      /\ UNCHANGED <<base, snaps, kept>> /\ Write(h, new, dirtied)
  BY DEF WriteRow, Refused, Return
<1>2. IsOpen(conn[h]) /\ new \in Sound
  BY WrittenSound
<1>3. call'[h] = Idle /\ \A g \in Handles \ {h} : call'[g] = call[g]
  BY <1>1, CallEffect
<1> HIDE DEF new, dirtied
<1> QED
  BY <1>1, <1>2, <1>3, WriteStep

LEMMA ReturnStep ==
  ASSUME IInv, NEW h \in Handles, RefuseRow(h) \/ BusyTimeout(h)
  PROVE  RowStep(h)
<1>1. /\ call[h].op = "write" /\ Begin(h, Idle)
      /\ UNCHANGED <<base, disk, conn, snaps, kept>>
  BY DEF RefuseRow, BusyTimeout, Return
<1>2. IsOpen(conn[h])
  BY <1>1, HandleFacts DEF GoodCall
<1>3. call'[h] = Idle /\ \A g \in Handles \ {h} : call'[g] = call[g]
  BY <1>1, CallEffect
<1> QED
  BY <1>1, <1>2, <1>3, CallShapes DEF RowStep, Bystanders

LEMMA DiskFullStep ==
  ASSUME IInv, NEW h \in Handles, DiskFull(h)
  PROVE  RowStep(h)
<1>1. /\ call[h].op \in {"idle", "write"} /\ Begin(h, Idle)
      /\ conn' = [conn EXCEPT ![h] = Conn(conn[h].ino)]
      /\ UNCHANGED <<base, disk, snaps, kept>>
  BY CallShapes DEF DiskFull, Return, Ready
<1>2. IsOpen(conn[h])
  BY HandleFacts DEF GoodCall, DiskFull, Ready
<1>3. call'[h] = Idle /\ \A g \in Handles \ {h} : call'[g] = call[g]
  BY <1>1, CallEffect
<1>4. Conn(conn[h].ino).ino = conn[h].ino
  BY DEF Conn
<1> QED
  BY <1>1, <1>2, <1>3, <1>4, OthersStay, CallShapes DEF RowStep

\* The actions that are such steps.
RowActions(h) ==
  \/ Close(h) \/ Crash(h)
  \/ \E n \in ScopeNames : Savepoint(h, n) \/ Release(h, n) \/ Rollback(h, n)
  \/ RowNext(h)

LEMMA RowSteps ==
  ASSUME IInv, NEW h \in Handles, RowActions(h)
  PROVE  RowStep(h)
<1>1. CASE Close(h) \/ Crash(h)
  BY <1>1, CloseStep
<1>2. CASE \E n \in ScopeNames : Savepoint(h, n) \/ Release(h, n) \/ Rollback(h, n)
  BY <1>2, SavepointStep, ReleaseStep, RollbackStep
<1>3. CASE Read(h)
  BY <1>3, ReadStep
<1>4. CASE \E s \in Stores : Declare(h, s)
  BY <1>4, DeclareStep
<1>5. CASE \E s \in Stores, k \in Keys, v \in Values \cup {NoValue} : RequireStore(h, s, k, v)
  BY <1>5, RequireStoreStep
<1>6. CASE WriteRow(h) \/ RefuseRow(h) \/ BusyTimeout(h) \/ DiskFull(h)
  BY <1>6, WriteRowStep, ReturnStep, DiskFullStep
<1> QED
  BY <1>1, <1>2, <1>3, <1>4, <1>5, <1>6 DEF RowActions, RowNext

----------------------------------------------------------------------------
(* The other steps *)

\* snapshot, whole or cut short, changes no content of the store.
LEMMA SnapshotEffect ==
  ASSUME IInv, NEW h \in Handles,
         (\E l \in Labels : SnapshotRemove(h, l)) \/ VacuumInto(h) \/ CrashInSnapshot(h)
  PROVE  /\ base' = base /\ Bystanders(h) /\ call'[h].op \notin Restoring
         /\ IsOpen(conn'[h]) => conn'[h] = conn[h]
         /\ \A i \in Inodes : disk'[i] \in {disk[i], None}
<1>1. CASE \E l \in Labels : SnapshotRemove(h, l)
  <2>1. PICK l \in Labels : SnapshotRemove(h, l)
    BY <1>1
  <2> DEFINE r == [op |-> "vacuum", label |-> l]
  <2>2. Begin(h, r) /\ UNCHANGED <<base, disk, conn>> /\ r.op \notin Restoring
    BY <2>1 DEF SnapshotRemove, Restoring
  <2> HIDE DEF r
  <2>3. call'[h] = r /\ \A g \in Handles \ {h} : call'[g] = call[g]
    BY <2>2, CallEffect
  <2> QED
    BY <2>2, <2>3 DEF Bystanders
<1>2. CASE VacuumInto(h)
  <2>1. Begin(h, Idle) /\ UNCHANGED <<base, disk, conn>>
    BY <1>2 DEF VacuumInto, Return
  <2>2. call'[h] = Idle /\ \A g \in Handles \ {h} : call'[g] = call[g]
    BY <2>1, CallEffect
  <2> QED
    BY <2>1, <2>2, CallShapes DEF Bystanders
<1>3. CASE CrashInSnapshot(h)
  <2>1. Begin(h, Idle) /\ Disconnect(h) /\ UNCHANGED base
    BY <1>3 DEF CrashInSnapshot, Return
  <2>2. call'[h] = Idle /\ \A g \in Handles \ {h} : call'[g] = call[g]
    BY <2>1, CallEffect
  <2> QED
    BY <2>1, <2>2, DisconnectEffect, CallShapes
<1> QED
  BY <1>1, <1>2, <1>3

\* openConnection opens base.db, makes it, or opens nothing.
LEMMA OpenEffect ==
  ASSUME IInv, NEW h \in Handles, OpenConnection(h),
         \A g \in Handles \ {h} : call'[g] = call[g]
  PROVE  /\ Bystanders(h)
         /\ conn'[h] \in {Conn(base'), Conn(None)}
         /\ base # None => base' = base
         /\ base = None /\ base' # None => base' \in Inodes /\ disk'[base'] = Blank
         /\ \A i \in Inodes : \/ disk'[i] \in {disk[i], None}
                              \/ disk[i] \in {None, Hollow} /\ disk'[i] = Blank
         /\ base # None /\ disk[base] \in Database =>
              conn'[h] = Conn(base) /\ disk'[base] = disk[base]
<1> DEFINE Opened(i, b, d) == /\ conn' = [conn EXCEPT ![h] = Conn(i)]
                              /\ base' = b
                              /\ disk' = Reaped(d, b, conn')
           Outcome == /\ Bystanders(h)
                      /\ conn'[h] \in {Conn(base'), Conn(None)}
                      /\ base # None => base' = base
                      /\ base = None /\ base' # None => base' \in Inodes /\ disk'[base'] = Blank
                      /\ \A i \in Inodes : \/ disk'[i] \in {disk[i], None}
                                           \/ disk[i] \in {None, Hollow} /\ disk'[i] = Blank
                      /\ base # None /\ disk[base] \in Database =>
                           conn'[h] = Conn(base) /\ disk'[base] = disk[base]
<1>1. disk \in [Inodes -> Files \cup {None}] /\ base \in Inodes \cup {None}
  BY DEF IInv, FilesSound
<1>2. ASSUME NEW i \in Inodes, Fresh(i), base = None,
             Opened(i, i, [disk EXCEPT ![i] = Blank])
      PROVE  Outcome
  <2>1. conn'[h] = Conn(i) /\ Bystanders(h)
    BY <1>2, OthersStay
  <2> QED
    BY <2>1, <1>1, <1>2 DEF Reaped, Fresh
<1>3. CASE base # None /\ disk[base] = Hollow /\ Opened(base, base, [disk EXCEPT ![base] = Blank])
  <2>1. conn'[h] = Conn(base) /\ Bystanders(h)
    BY <1>3, OthersStay
  <2>2. disk[base] \notin Database
    BY <1>3, MarkerAssumption
  <2> QED
    BY <2>1, <2>2, <1>1, <1>3 DEF Reaped
<1>4. CASE base # None /\ Opened(base, base, disk)
  <2>1. conn'[h] = Conn(base) /\ Bystanders(h)
    BY <1>4, OthersStay
  <2> QED
    BY <2>1, <1>1, <1>4 DEF Reaped
<1>5. CASE (base = None \/ disk[base] = Torn) /\ Opened(None, base, disk)
  <2>1. conn'[h] = Conn(None) /\ Bystanders(h)
    BY <1>5, OthersStay
  <2>2. base = None \/ disk[base] \notin Database
    BY <1>5, MarkerAssumption
  <2> QED
    BY <2>1, <2>2, <1>1, <1>5 DEF Reaped
<1>6. CASE /\ base = None /\ h \notin Readonly
           /\ \E i \in Inodes : Fresh(i) /\ Opened(i, i, [disk EXCEPT ![i] = Blank])
  BY <1>2, <1>6
<1>7. Outcome
  BY <1>3, <1>4, <1>5, <1>6 DEF OpenConnection
<1> QED
  BY <1>7

\* The steps of restore once the connection is closed, but for the last one.
LEMMA RestoreEffect ==
  ASSUME IInv, NEW h \in Handles, RestoreUnlink(h) \/ RestoreCopy(h) \/ CrashInRestore(h)
  PROVE  /\ call[h].op \in Restoring /\ conn' = conn
         /\ \A g \in Handles \ {h} : call'[g] = call[g]
         /\ \A i \in Inodes : \/ disk'[i] \in {disk[i], None}
                              \/ disk[i] = None
                              \/ i = base
<1>1. ASSUME NEW content, CopyIn(content)
      PROVE  \A i \in Inodes : disk'[i] = disk[i] \/ disk[i] = None \/ i = base
  BY <1>1 DEF CopyIn, Fresh, IInv, FilesSound
<1>2. CASE RestoreUnlink(h)
  BY <1>2, CallEffect DEF RestoreUnlink, Reaped, Restoring
<1>3. CASE RestoreCopy(h)
  <2>1. call[h].op \in Restoring /\ conn' = conn /\ \E r : Begin(h, r)
    BY <1>3 DEF RestoreCopy, Restoring
  <2>2. UNCHANGED disk \/ \E content : CopyIn(content)
    BY <1>3 DEF RestoreCopy
  <2> QED
    BY <2>1, <2>2, <1>1, CallEffect
<1>4. CASE CrashInRestore(h)
  <2>1. call[h].op \in Restoring /\ conn' = conn /\ Begin(h, Idle)
    BY <1>4 DEF CrashInRestore, Return
  <2>2. UNCHANGED disk \/ \E content : CopyIn(content)
    BY <1>4 DEF CrashInRestore
  <2> QED
    BY <2>1, <2>2, <1>1, CallEffect
<1> QED
  BY <1>2, <1>3, <1>4

----------------------------------------------------------------------------
(* A handle that restores is alone, and open handles are on base.db *)

\* No handle closes in on a restore: none is open beside one.
LEMMA NoneRestores ==
  ASSUME RInv, NEW h \in Handles, IsOpen(conn[h])
  PROVE  \A g \in Handles : call[g].op \notin Restoring
<1>1. call[h].op \notin Restoring
  BY HandleFacts DEF GoodCall, RInv
<1> QED
  BY <1>1 DEF RInv, Alone

\* A step that opens no connection, moves none and enters no restore.
LEMMA CalmKeeps ==
  ASSUME RInv, base' = base,
         \A g \in Handles : IsOpen(conn'[g]) => conn'[g].ino = conn[g].ino,
         \A g \in Handles : call'[g].op \in Restoring => call[g].op \in Restoring
  PROVE  Alone' /\ HandlesOnBase'
<1>1. \A g \in Handles : IsOpen(conn'[g]) => IsOpen(conn[g])
  BY DEF IsOpen
<1>2. Alone'
  BY <1>1 DEF RInv, Alone
<1>3. HandlesOnBase'
  BY <1>1 DEF RInv, HandlesOnBase
<1> QED
  BY <1>2, <1>3

\* A step of a handle that is alone leaves the others closed.
LEMMA AloneKeeps ==
  ASSUME RInv, NEW h \in Handles, Bystanders(h),
         \A g \in Handles \ {h} : ~IsOpen(conn[g]) /\ call[g].op \notin Restoring,
         IsOpen(conn'[h]) => conn'[h].ino = base'
  PROVE  Alone' /\ HandlesOnBase'
<1>1. \A g \in Handles \ {h} : ~IsOpen(conn'[g]) /\ call'[g].op \notin Restoring
  BY DEF Bystanders, IsOpen
<1> QED
  BY <1>1 DEF Alone, HandlesOnBase

LEMMA OpenKeepsAlone ==
  ASSUME SoleRestore, RInv, NEW h \in Handles, Open(h)
  PROVE  Alone' /\ HandlesOnBase'
<1>1. /\ \A g \in Handles : call[g].op \notin Restoring
      /\ UNCHANGED call /\ OpenConnection(h)
  BY CallShapes DEF Open, MayOpen
<1>2. /\ Bystanders(h) /\ conn'[h] \in {Conn(base'), Conn(None)}
      /\ base # None => base' = base
  BY <1>1, OpenEffect DEF RInv
<1>3. Alone'
  BY <1>1 DEF Alone
<1>4. ASSUME NEW g \in Handles \ {h}, IsOpen(conn'[g])
      PROVE  conn'[g].ino = base'
  BY <1>2, <1>4 DEF Bystanders, RInv, HandlesOnBase, IsOpen
<1>5. IsOpen(conn'[h]) => conn'[h].ino = base'
  BY <1>2 DEF IsOpen, Conn
<1> QED
  BY <1>3, <1>4, <1>5 DEF HandlesOnBase

LEMMA RestoreKeepsAlone ==
  ASSUME SoleRestore, RInv, NEW h \in Handles,
         \/ \E l \in Labels : RestoreBegin(h, l)
         \/ RestoreUnlink(h) \/ RestoreCopy(h) \/ RestoreOpen(h) \/ CrashInRestore(h)
  PROVE  Alone' /\ HandlesOnBase'
<1>0. IInv
  BY DEF RInv
<1>1. CASE \E l \in Labels : RestoreBegin(h, l)
  <2>1. PICK l \in Labels : RestoreBegin(h, l)
    BY <1>1
  <2>2. /\ IsOpen(conn[h]) /\ Disconnect(h)
        /\ \A g \in Handles \ {h} : ~IsOpen(conn[g])
        /\ \E r : Begin(h, r)
    BY <2>1 DEF RestoreBegin, Ready
  <2>3. \A g \in Handles \ {h} : ~IsOpen(conn[g]) /\ call[g].op \notin Restoring
    BY <2>2, NoneRestores
  <2>4. Bystanders(h) /\ ~IsOpen(conn'[h])
    BY <2>2, <1>0, CallEffect, DisconnectEffect
  <2> QED
    BY <2>3, <2>4, AloneKeeps
<1>2. CASE RestoreUnlink(h) \/ RestoreCopy(h) \/ CrashInRestore(h)
  <2>1. /\ call[h].op \in Restoring /\ conn' = conn
        /\ \A g \in Handles \ {h} : call'[g] = call[g]
    BY <1>0, <1>2, RestoreEffect
  <2>2. ~IsOpen(conn[h]) /\ \A g \in Handles \ {h} : ~IsOpen(conn[g]) /\ call[g].op \notin Restoring
    BY <1>0, <2>1, HandleFacts DEF GoodCall, RInv, Alone
  <2> QED
    BY <2>1, <2>2, AloneKeeps DEF Bystanders
<1>3. CASE RestoreOpen(h)
  <2>1. call[h].op \in Restoring /\ OpenConnection(h) /\ Begin(h, Idle)
    BY <1>3 DEF RestoreOpen, Restoring, Return
  <2>2. Bystanders(h) /\ conn'[h] \in {Conn(base'), Conn(None)}
    BY <2>1, <1>0, CallEffect, OpenEffect
  <2>3. \A g \in Handles \ {h} : ~IsOpen(conn[g]) /\ call[g].op \notin Restoring
    BY <2>1 DEF RInv, Alone
  <2> QED
    BY <2>2, <2>3, AloneKeeps DEF IsOpen, Conn
<1> QED
  BY <1>1, <1>2, <1>3

\* The steps by kind.
LEMMA StepKinds ==
  ASSUME Next
  PROVE  \E h \in Handles :
           \/ RowActions(h) \/ Open(h)
           \/ (\E l \in Labels : SnapshotRemove(h, l)) \/ VacuumInto(h) \/ CrashInSnapshot(h)
           \/ (\E l \in Labels : RestoreBegin(h, l))
           \/ RestoreUnlink(h) \/ RestoreCopy(h) \/ RestoreOpen(h) \/ CrashInRestore(h)
<1>1. PICK h \in Handles : HandleNext(h) \/ RowNext(h)
  BY DEF Next
<1>2. CASE RowNext(h)
  BY <1>2 DEF RowActions
<1>3. CASE HandleNext(h)
  BY <1>3 DEF HandleNext, RowActions
<1> QED
  BY <1>1, <1>2, <1>3

LEMMA RInvKeeps == SoleRestore /\ RInv /\ [Next]_handleVars => RInv'
<1> SUFFICES ASSUME SoleRestore, RInv, [Next]_handleVars PROVE RInv'
  OBVIOUS
<1>1. IInv /\ IInv'
  BY NextGood DEF RInv
<1>2. CASE UNCHANGED handleVars
  BY <1>1, <1>2 DEF handleVars, RInv, Alone, HandlesOnBase
<1>3. ASSUME NEW h \in Handles, RowActions(h) PROVE RInv'
  <2>1. RowStep(h)
    BY <1>1, <1>3, RowSteps
  <2>2. /\ base' = base
        /\ \A g \in Handles : IsOpen(conn'[g]) => conn'[g].ino = conn[g].ino
        /\ \A g \in Handles : call'[g].op \in Restoring => call[g].op \in Restoring
    BY <2>1 DEF RowStep, Bystanders, Restoring
  <2> QED
    BY <1>1, <2>2, CalmKeeps DEF RInv
<1>4. ASSUME NEW h \in Handles, Open(h) PROVE RInv'
  BY <1>1, <1>4, OpenKeepsAlone DEF RInv
<1>5. ASSUME NEW h \in Handles,
             (\E l \in Labels : SnapshotRemove(h, l)) \/ VacuumInto(h) \/ CrashInSnapshot(h)
      PROVE  RInv'
  <2>1. /\ base' = base
        /\ \A g \in Handles : IsOpen(conn'[g]) => conn'[g].ino = conn[g].ino
        /\ \A g \in Handles : call'[g].op \in Restoring => call[g].op \in Restoring
    BY <1>1, <1>5, SnapshotEffect DEF Bystanders
  <2> QED
    BY <1>1, <2>1, CalmKeeps DEF RInv
<1>6. ASSUME NEW h \in Handles,
             \/ \E l \in Labels : RestoreBegin(h, l)
             \/ RestoreUnlink(h) \/ RestoreCopy(h) \/ RestoreOpen(h) \/ CrashInRestore(h)
      PROVE  RInv'
  BY <1>1, <1>6, RestoreKeepsAlone DEF RInv
<1> QED
  BY <1>2, <1>3, <1>4, <1>5, <1>6, StepKinds

LEMMA RInductive ==
  ASSUME SoleRestore
  PROVE  Spec => []RInv
<1>1. Init => RInv
  <2> SUFFICES ASSUME Init PROVE RInv
    OBVIOUS
  <2>1. \A h \in Handles : ~IsOpen(conn[h]) /\ call[h].op \notin Restoring
    BY CallShapes DEF Init, IsOpen, Closed, Conn
  <2> QED
    BY <2>1, InitGood DEF RInv, Alone, HandlesOnBase
<1>2. RInv /\ [Next]_handleVars => RInv'
  BY RInvKeeps
<1> QED
  BY <1>1, <1>2, PTL DEF Spec

\* If handles restore only while no other is open, then every open handle is on
\* the file that the next open finds (store.cpp, restore: it unlinks base.db, and
\* closes its own connection only), whatever crashes and full disks do.
THEOREM HandlesStayOnBase ==
  ASSUME SoleRestore
  PROVE  Spec => []HandlesOnBase
<1>1. RInv => HandlesOnBase
  BY DEF RInv
<1> QED
  BY <1>1, RInductive, PTL

\* A file whose content becomes another one is base.db.
LEMMA CommitSteps ==
  ASSUME RInv, Next, NEW i \in Inodes,
         disk[i] \in Database, disk'[i] \in Database, disk'[i] # disk[i]
  PROVE  base = i
<1>0. IInv /\ None \notin Database /\ Hollow \notin Database
  BY MarkerAssumption DEF RInv
<1>1. ASSUME NEW h \in Handles, RowActions(h) PROVE base = i
  BY <1>0, <1>1, RowSteps DEF RowStep, RInv, HandlesOnBase
<1>2. ASSUME NEW h \in Handles, Open(h) \/ RestoreOpen(h) PROVE base = i
  <2>1. OpenConnection(h) /\ \A g \in Handles \ {h} : call'[g] = call[g]
    BY <1>0, <1>2, CallEffect DEF Open, RestoreOpen, Return
  <2> QED
    BY <1>0, <2>1, OpenEffect
<1>3. ASSUME NEW h \in Handles,
             (\E l \in Labels : SnapshotRemove(h, l)) \/ VacuumInto(h) \/ CrashInSnapshot(h)
      PROVE  base = i
  BY <1>0, <1>3, SnapshotEffect
<1>4. ASSUME NEW h \in Handles, NEW l \in Labels, RestoreBegin(h, l) PROVE base = i
  BY <1>0, <1>4, CallEffect, DisconnectEffect DEF RestoreBegin
<1>5. ASSUME NEW h \in Handles, RestoreUnlink(h) \/ RestoreCopy(h) \/ CrashInRestore(h)
      PROVE  base = i
  BY <1>0, <1>5, RestoreEffect
<1> QED
  BY <1>1, <1>2, <1>3, <1>4, <1>5, StepKinds

\* Under the same discipline no commit is made into a file that lost its name:
\* what a write answered ok for is there at the next open (the run of two handles
\* that restore under each other shows what happens without it).
THEOREM CommitsReachBase ==
  ASSUME SoleRestore
  PROVE  Spec => CommitReachesBase
<1>1. RInv /\ [Next]_handleVars =>
        [\A i \in Inodes : disk[i] \in Database /\ disk'[i] \in Database /\ disk'[i] # disk[i]
            => base = i]_handleVars
  BY CommitSteps
<1> QED
  BY <1>1, RInductive, PTL DEF Spec, CommitReachesBase

----------------------------------------------------------------------------
(* Backups, for callers who snapshot outside scopes and file calls that are *)
(* not cut short                                                            *)

\* The answered backups stay in place as long as none of their labels is being
\* replaced and no snapshot call ends.
LEMMA BackupsStay ==
  ASSUME BackupKept, UNCHANGED <<snaps, kept>>,
         \A g \in Handles : call[g].op = "vacuum" => call'[g] = call[g]
  PROVE  BackupKept'
<1>1. \A g \in Handles, l \in Labels :
        call[g] = [op |-> "vacuum", label |-> l] => call'[g] = [op |-> "vacuum", label |-> l]
  <2> SUFFICES ASSUME NEW g \in Handles, NEW l \in Labels,
                      call[g] = [op |-> "vacuum", label |-> l]
               PROVE  call'[g] = call[g]
    OBVIOUS
  <2>1. call[g].op = "vacuum"
    OBVIOUS
  <2> QED
    BY <2>1
<1> QED
  BY <1>1 DEF BackupKept

LEMMA RowKeepsSafe ==
  ASSUME SInv, RInv', NEW h \in Handles, RowStep(h)
  PROVE  SInv'
<1>1. \A g \in Handles : call[g].op \notin Restoring
  BY NoneRestores DEF RowStep, SInv
<1>2. RestoresUnderway'
  BY <1>1, CallShapes DEF RestoresUnderway, RowStep, Bystanders, Restoring
<1>3. NoDebris'
  BY DEF SInv, NoDebris, RowStep
<1>4. BackupKept'
  BY BackupsStay DEF SInv, RowStep, Bystanders
<1>5. VacuumsOutside'
  BY DEF SInv, VacuumsOutside, RowStep, Bystanders, InScope
<1> QED
  BY <1>2, <1>3, <1>4, <1>5 DEF SInv

LEMMA OpenKeepsSafe ==
  ASSUME SoleRestore, SInv, RInv', NEW h \in Handles, Open(h)
  PROVE  SInv'
<1>1. /\ \A g \in Handles : call[g].op \notin Restoring
      /\ UNCHANGED <<call, snaps, kept>> /\ OpenConnection(h) /\ call[h] = Idle
  BY CallShapes DEF Open, MayOpen
<1>2. /\ Bystanders(h)
      /\ \A i \in Inodes : disk'[i] \in {disk[i], None, Blank}
  BY <1>1, OpenEffect DEF SInv, RInv
<1>3. RestoresUnderway'
  BY <1>1 DEF RestoresUnderway
<1>4. NoDebris'
  BY <1>1, <1>2, BlankSound DEF SInv, NoDebris
<1>5. BackupKept'
  BY <1>1, BackupsStay DEF SInv
<1>6. VacuumsOutside'
  BY <1>1, <1>2, CallShapes DEF SInv, VacuumsOutside, Bystanders, InScope
<1> QED
  BY <1>3, <1>4, <1>5, <1>6 DEF SInv

LEMMA SnapshotRemoveKeepsSafe ==
  ASSUME ~ScopedSnapshots, SInv, RInv', NEW h \in Handles, NEW l \in Labels,
         SnapshotRemove(h, l)
  PROVE  SInv'
<1> DEFINE r == [op |-> "vacuum", label |-> l]
<1>1. /\ IInv /\ IsOpen(conn[h]) /\ call[h] = Idle /\ ~InScope(conn[h])
      /\ snaps \in [Labels -> Files \cup {None}]
      /\ snaps' = [snaps EXCEPT ![l] = None]
      /\ Begin(h, r) /\ UNCHANGED <<base, disk, conn, kept>>
      /\ r.op = "vacuum"
  BY DEF SnapshotRemove, Ready, SInv, RInv, IInv, FilesSound
<1>2. snaps'[l] = None /\ \A m \in Labels \ {l} : snaps'[m] = snaps[m]
  BY <1>1
<1>3. call'[h] = r /\ \A g \in Handles \ {h} : call'[g] = call[g]
  BY <1>1, CallEffect
<1>4. RestoresUnderway'
  <2>1. \A g \in Handles : call'[g].op \notin Restoring
    BY <1>1, <1>3, NoneRestores, CallShapes DEF SInv
  <2> QED
    BY <2>1 DEF RestoresUnderway
<1>5. NoDebris'
  BY <1>1, <1>2 DEF SInv, NoDebris
<1>6. BackupKept'
  <2> SUFFICES ASSUME NEW m \in Labels, kept'[m] # None
               PROVE  \/ snaps'[m] = kept'[m]
                      \/ \E g \in Handles : call'[g] = [op |-> "vacuum", label |-> m]
    BY DEF BackupKept
  <2>1. CASE m = l
    BY <2>1, <1>3
  <2>2. CASE m # l
    <3>1. \/ snaps[m] = kept[m]
          \/ \E g \in Handles : call[g] = [op |-> "vacuum", label |-> m]
      BY <1>1 DEF SInv, BackupKept
    <3>2. \A g \in Handles : call[g] = [op |-> "vacuum", label |-> m] => call'[g] = call[g]
      BY <1>1, <1>3, CallShapes
    <3> QED
      BY <2>2, <3>1, <3>2, <1>1, <1>2
  <2> QED
    BY <2>1, <2>2
<1>7. VacuumsOutside'
  BY <1>1, <1>3 DEF SInv, VacuumsOutside
<1> QED
  BY <1>4, <1>5, <1>6, <1>7 DEF SInv

\* Outside a scope and without debris VACUUM INTO copies what is committed, or
\* finds the backup that another snapshot of the label just made.
LEMMA VacuumIntoEffect ==
  ASSUME "disk_full" \notin Faults, SInv, NEW h \in Handles, VacuumInto(h)
  PROVE  /\ IsOpen(conn[h]) /\ ~InScope(conn[h])
         /\ Readable(h) /\ Committed(h) \in Sound
         /\ \E l \in Labels :
              /\ call[h] = [op |-> "vacuum", label |-> l]
              /\ snaps'[l] = kept'[l]
              /\ kept' \in {kept, [kept EXCEPT ![l] = Committed(h)]}
              /\ \A m \in Labels \ {l} : snaps'[m] = snaps[m] /\ kept'[m] = kept[m]
         /\ call'[h] = Idle /\ \A g \in Handles \ {h} : call'[g] = call[g]
         /\ UNCHANGED <<base, disk, conn>>
<1> DEFINE l == call[h].label
<1>1. /\ IInv /\ call[h].op = "vacuum" /\ Begin(h, Idle) /\ UNCHANGED <<base, disk, conn>>
  BY DEF VacuumInto, Return, SInv, RInv
<1>2. IsOpen(conn[h]) /\ ~InScope(conn[h]) /\ l \in Labels
  BY <1>1, HandleFacts, CallShapes DEF GoodCall, SInv, VacuumsOutside
<1>3. call[h] = [op |-> "vacuum", label |-> l]
  BY <1>1, HandleFacts, CallShapes DEF FileCalls
<1>4. Committed(h) \in Sound /\ Readable(h)
  <2>1. conn[h].ino \in Inodes /\ Committed(h) # None
    BY <1>1, <1>2, HandleFacts, Markers DEF Files
  <2> QED
    BY <2>1, Markers DEF SInv, NoDebris, Committed, Readable
<1>5. call'[h] = Idle /\ \A g \in Handles \ {h} : call'[g] = call[g]
  BY <1>1, CallEffect
<1>6. /\ snaps \in [Labels -> Files \cup {None}] /\ kept \in [Labels -> Sound \cup {None}]
      /\ snaps[l] \in {None, kept[l]}
  BY <1>1, <1>2 DEF IInv, FilesSound, SInv, NoDebris
<1>7. \/ VacuumRefused(h) /\ UNCHANGED <<snaps, kept>>
      \/ snaps' = [snaps EXCEPT ![l] = Committed(h)] /\ kept' = [kept EXCEPT ![l] = Committed(h)]
  BY <1>4 DEF VacuumInto
<1>8. /\ snaps'[l] = kept'[l]
      /\ kept' \in {kept, [kept EXCEPT ![l] = Committed(h)]}
      /\ \A m \in Labels \ {l} : snaps'[m] = snaps[m] /\ kept'[m] = kept[m]
  <2>1. CASE VacuumRefused(h) /\ UNCHANGED <<snaps, kept>>
    BY <2>1, <1>2, <1>6 DEF VacuumRefused
  <2>2. CASE snaps' = [snaps EXCEPT ![l] = Committed(h)] /\ kept' = [kept EXCEPT ![l] = Committed(h)]
    BY <2>2, <1>2, <1>6
  <2> QED
    BY <2>1, <2>2, <1>7
<1> QED
  BY <1>1, <1>2, <1>3, <1>4, <1>5, <1>8

LEMMA VacuumIntoKeepsSafe ==
  ASSUME "disk_full" \notin Faults, SInv, RInv', NEW h \in Handles, VacuumInto(h)
  PROVE  SInv'
<1>1. /\ IsOpen(conn[h]) /\ call'[h] = Idle /\ \A g \in Handles \ {h} : call'[g] = call[g]
      /\ UNCHANGED <<base, disk, conn>>
  BY VacuumIntoEffect
<1>2. PICK l \in Labels :
        /\ call[h] = [op |-> "vacuum", label |-> l]
        /\ snaps'[l] = kept'[l]
        /\ \A m \in Labels \ {l} : snaps'[m] = snaps[m] /\ kept'[m] = kept[m]
  BY VacuumIntoEffect
<1>3. RestoresUnderway'
  <2>1. \A g \in Handles : call'[g].op \notin Restoring
    BY <1>1, NoneRestores, CallShapes DEF SInv
  <2> QED
    BY <2>1 DEF RestoresUnderway
<1>4. NoDebris'
  BY <1>1, <1>2 DEF SInv, NoDebris
<1>5. BackupKept'
  <2> SUFFICES ASSUME NEW m \in Labels \ {l}, kept'[m] # None
               PROVE  \/ snaps'[m] = kept'[m]
                      \/ \E g \in Handles : call'[g] = [op |-> "vacuum", label |-> m]
    BY <1>2 DEF BackupKept
  <2>1. \/ snaps[m] = kept[m]
        \/ \E g \in Handles : call[g] = [op |-> "vacuum", label |-> m]
    BY <1>2 DEF SInv, BackupKept
  <2>2. \A g \in Handles : call[g] = [op |-> "vacuum", label |-> m] => g # h
    BY <1>2
  <2> QED
    BY <2>1, <2>2, <1>1, <1>2
<1>6. VacuumsOutside'
  BY <1>1, CallShapes DEF SInv, VacuumsOutside
<1> QED
  BY <1>3, <1>4, <1>5, <1>6 DEF SInv

\* While a handle restores, the backup it restores is in place.
LEMMA BackupInPlace ==
  ASSUME SInv, NEW h \in Handles, call[h].op \in Restoring
  PROVE  /\ call[h].label \in Labels /\ call[h] \in FileCalls
         /\ kept[call[h].label] \in Sound /\ snaps[call[h].label] = kept[call[h].label]
         /\ \A g \in Handles : ~IsOpen(conn[g]) /\ call[g].op # "vacuum"
         /\ \A g \in Handles \ {h} : call[g].op \notin Restoring
         /\ \A i \in Inodes : ~\E g \in Handles : conn[g].ino = i
<1> DEFINE l == call[h].label
<1>1. IInv /\ l \in Labels /\ call[h] \in FileCalls
  BY HandleFacts, CallShapes DEF SInv, RInv
<1>2. \A g \in Handles : ~IsOpen(conn[g])
  BY <1>1, HandleFacts DEF GoodCall, SInv, RInv, Alone
<1>3. \A g \in Handles : call[g].op # "vacuum"
  BY <1>1, <1>2, HandleFacts DEF GoodCall
<1>4. kept[l] # None /\ kept[l] \in Sound
  BY <1>1 DEF SInv, RestoresUnderway, Underway, IInv, FilesSound
<1>5. snaps[l] = kept[l]
  <2>1. \A g \in Handles : call[g] # [op |-> "vacuum", label |-> l]
    BY <1>3
  <2> QED
    BY <2>1, <1>1, <1>4 DEF SInv, BackupKept
<1>6. \A i \in Inodes : ~\E g \in Handles : conn[g].ino = i
  BY <1>2, Markers DEF IsOpen
<1> QED
  BY <1>1, <1>2, <1>3, <1>4, <1>5, <1>6 DEF SInv, RInv, Alone

LEMMA RestoreBeginKeepsSafe ==
  ASSUME SInv, RInv', NEW h \in Handles, NEW l \in Labels, RestoreBegin(h, l)
  PROVE  SInv'
<1> DEFINE r == [op |-> "unlink", label |-> l]
<1>1. /\ IInv /\ IsOpen(conn[h]) /\ call[h] = Idle /\ snaps[l] # None
      /\ Disconnect(h) /\ Begin(h, r) /\ UNCHANGED <<base, snaps, kept>>
  BY DEF RestoreBegin, Ready, SInv, RInv
<1>2. /\ call'[h] = r /\ \A g \in Handles \ {h} : call'[g] = call[g]
      /\ Bystanders(h) /\ \A i \in Inodes : disk'[i] \in {disk[i], None}
  BY <1>1, CallEffect, DisconnectEffect
<1>3. r.op = "unlink" /\ r.label = l
  OBVIOUS
<1> HIDE DEF r
<1>4. kept[l] # None
  BY <1>1 DEF SInv, NoDebris
<1>5. RestoresUnderway'
  <2>1. \A g \in Handles \ {h} : call'[g].op \notin Restoring
    BY <1>1, <1>2, NoneRestores DEF SInv
  <2>2. Underway(h)'
    BY <1>1, <1>2, <1>3, <1>4 DEF Underway
  <2> QED
    BY <2>1, <2>2, <1>2 DEF RestoresUnderway, Underway
<1>6. NoDebris'
  BY <1>1, <1>2 DEF SInv, NoDebris
<1>7. BackupKept'
  BY <1>1, <1>2, BackupsStay, CallShapes DEF SInv
<1>8. VacuumsOutside'
  BY <1>2, <1>3 DEF SInv, VacuumsOutside, Bystanders, InScope
<1> QED
  BY <1>5, <1>6, <1>7, <1>8 DEF SInv

\* A step of a restore after which it is still under way, or over.
LEMMA RestoreStepKeepsSafe ==
  ASSUME SInv, RInv', NEW h \in Handles, call[h].op \in Restoring,
         \A g \in Handles \ {h} : call'[g] = call[g],
         call'[h].op # "vacuum",
         call'[h].op \in Restoring => Underway(h)',
         \A i \in Inodes : disk'[i] \in Sound \cup {None},
         UNCHANGED <<snaps, kept>>
  PROVE  SInv'
<1>1. /\ \A g \in Handles : call[g].op # "vacuum"
      /\ \A g \in Handles \ {h} : call[g].op \notin Restoring
  BY BackupInPlace
<1>2. RestoresUnderway'
  BY <1>1 DEF RestoresUnderway, Underway
<1>3. NoDebris'
  BY DEF SInv, NoDebris
<1>4. BackupKept'
  BY <1>1, BackupsStay DEF SInv
<1>5. VacuumsOutside'
  BY <1>1 DEF VacuumsOutside
<1> QED
  BY <1>2, <1>3, <1>4, <1>5 DEF SInv

\* The next call of a restore is of the same label.
LEMMA NextOfRestore ==
  ASSUME SInv, NEW h \in Handles, call[h].op \in Restoring, NEW op,
         Begin(h, [call[h] EXCEPT !.op = op])
  PROVE  /\ call'[h].op = op /\ call'[h].label = call[h].label
         /\ \A g \in Handles \ {h} : call'[g] = call[g]
<1> DEFINE r == [call[h] EXCEPT !.op = op]
<1>1. r.op = op /\ r.label = call[h].label
  BY BackupInPlace DEF FileCalls
<1> HIDE DEF r
<1>2. call'[h] = r /\ \A g \in Handles \ {h} : call'[g] = call[g]
  BY CallEffect DEF SInv, RInv, r
<1> QED
  BY <1>1, <1>2

LEMMA RestoreUnlinkKeepsSafe ==
  ASSUME SInv, RInv', NEW h \in Handles, RestoreUnlink(h)
  PROVE  SInv'
<1>1. /\ call[h].op \in Restoring /\ base' = None /\ disk' = Reaped(disk, None, conn)
      /\ Begin(h, [call[h] EXCEPT !.op = "copy"]) /\ UNCHANGED <<snaps, kept>>
  BY DEF RestoreUnlink, Restoring
<1>2. /\ call'[h].op = "copy" /\ call'[h].label = call[h].label
      /\ \A g \in Handles \ {h} : call'[g] = call[g]
  BY <1>1, NextOfRestore
<1>3. kept[call[h].label] # None
  BY <1>1, BackupInPlace, Markers
<1>4. Underway(h)'
  BY <1>1, <1>2, <1>3 DEF Underway
<1>5. \A i \in Inodes : disk'[i] \in Sound \cup {None}
  BY <1>1 DEF Reaped, SInv, NoDebris
<1> QED
  BY <1>1, <1>2, <1>4, <1>5, RestoreStepKeepsSafe

\* copy_file finds the backup, and no file in its way that a handle holds.
LEMMA RestoreCopyEffect ==
  ASSUME "disk_full" \notin Faults, SInv, NEW h \in Handles, RestoreCopy(h)
  PROVE  /\ call[h].op = "copy" /\ call'[h].op = "open" /\ call'[h].label = call[h].label
         /\ \A g \in Handles \ {h} : call'[g] = call[g]
         /\ base' \in Inodes /\ disk'[base'] = kept[call[h].label]
         /\ \A i \in Inodes \ {base'} : disk'[i] = disk[i]
         /\ UNCHANGED <<conn, snaps, kept>>
<1> DEFINE backup == kept[call[h].label]
<1>1. call[h].op = "copy" /\ call[h].op \in Restoring /\ UNCHANGED <<conn, snaps, kept>>
  BY DEF RestoreCopy, Restoring
<1>2. backup \in Sound /\ snaps[call[h].label] = backup /\ backup # None
  BY <1>1, BackupInPlace, Markers
<1>3. CopyIn(backup) /\ Begin(h, [call[h] EXCEPT !.op = "open"])
  BY <1>2 DEF RestoreCopy
<1>4. PICK i \in Inodes :
        /\ base' = i
        /\ disk' = [disk EXCEPT ![i] = IF \E g \in Handles : conn[g].ino = i THEN Torn
                                      ELSE backup]
  BY <1>3 DEF CopyIn
<1>5. disk' = [disk EXCEPT ![i] = backup] /\ DOMAIN disk = Inodes
  BY <1>1, <1>4, BackupInPlace DEF SInv, RInv, IInv, FilesSound
<1>6. /\ call'[h].op = "open" /\ call'[h].label = call[h].label
      /\ \A g \in Handles \ {h} : call'[g] = call[g]
  BY <1>1, <1>3, NextOfRestore
<1> QED
  BY <1>1, <1>4, <1>5, <1>6

LEMMA RestoreCopyKeepsSafe ==
  ASSUME "disk_full" \notin Faults, SInv, RInv', NEW h \in Handles, RestoreCopy(h)
  PROVE  SInv'
<1>1. /\ call[h].op = "copy" /\ call'[h].op = "open" /\ call'[h].label = call[h].label
      /\ \A g \in Handles \ {h} : call'[g] = call[g]
      /\ base' \in Inodes /\ disk'[base'] = kept[call[h].label]
      /\ \A i \in Inodes \ {base'} : disk'[i] = disk[i]
      /\ UNCHANGED <<snaps, kept>>
  BY RestoreCopyEffect
<1>2. call[h].op \in Restoring /\ kept[call[h].label] \in Sound
  BY <1>1, BackupInPlace DEF Restoring
<1>3. Underway(h)'
  BY <1>1, <1>2, Markers DEF Underway
<1>4. \A i \in Inodes : disk'[i] \in Sound \cup {None}
  BY <1>1, <1>2 DEF SInv, NoDebris
<1> QED
  BY <1>1, <1>2, <1>3, <1>4, RestoreStepKeepsSafe

\* The last step finds the backup under base.db and opens it as it is.
LEMMA RestoreOpenEffect ==
  ASSUME SInv, NEW h \in Handles, RestoreOpen(h)
  PROVE  /\ call[h].op = "open" /\ call[h].op \in Restoring /\ call'[h] = Idle
         /\ conn'[h] = Conn(base) /\ Bystanders(h)
         /\ base # None /\ base' = base /\ disk'[base] = kept[call[h].label]
         /\ \A i \in Inodes : disk'[i] \in {disk[i], None, Blank}
         /\ UNCHANGED <<snaps, kept>>
<1>1. /\ call[h].op \in Restoring /\ OpenConnection(h) /\ Begin(h, Idle)
      /\ call[h].op \in {"open", "reopen"} /\ UNCHANGED <<snaps, kept>>
  BY DEF RestoreOpen, Restoring, Return
<1>2. call[h].op = "open" /\ base # None /\ disk[base] = kept[call[h].label]
  BY <1>1 DEF SInv, RestoresUnderway, Underway
<1>3. disk[base] \in Database
  BY <1>1, <1>2, BackupInPlace, Markers
<1>4. call'[h] = Idle /\ \A g \in Handles \ {h} : call'[g] = call[g]
  BY <1>1, CallEffect DEF SInv, RInv
<1>5. /\ Bystanders(h) /\ base' = base
      /\ conn'[h] = Conn(base) /\ disk'[base] = disk[base]
      /\ \A i \in Inodes : disk'[i] \in {disk[i], None, Blank}
  BY <1>1, <1>2, <1>3, <1>4, OpenEffect DEF SInv, RInv
<1> QED
  BY <1>1, <1>2, <1>4, <1>5

LEMMA RestoreOpenKeepsSafe ==
  ASSUME SInv, RInv', NEW h \in Handles, RestoreOpen(h)
  PROVE  SInv'
<1>1. /\ call[h].op \in Restoring /\ call'[h] = Idle /\ Bystanders(h)
      /\ \A i \in Inodes : disk'[i] \in {disk[i], None, Blank}
      /\ UNCHANGED <<snaps, kept>>
  BY RestoreOpenEffect
<1>2. \A i \in Inodes : disk'[i] \in Sound \cup {None}
  BY <1>1, BlankSound DEF SInv, NoDebris
<1> QED
  BY <1>1, <1>2, CallShapes, RestoreStepKeepsSafe DEF Bystanders

\* What the callers and the faults of the last theorems are.
Careful == SoleRestore /\ ~ScopedSnapshots /\ Faults \subseteq {"crash"}

LEMMA SInvKeeps == Careful /\ SInv /\ [Next]_handleVars => SInv'
<1> SUFFICES ASSUME Careful, SInv, [Next]_handleVars PROVE SInv'
  OBVIOUS
<1>1. RInv' /\ IInv
  BY RInvKeeps DEF Careful, SInv, RInv
<1>2. "disk_full" \notin Faults /\ "crash_in_file_call" \notin Faults
  BY DEF Careful
<1>3. CASE UNCHANGED handleVars
  BY <1>1, <1>3 DEF handleVars, SInv, NoDebris, BackupKept, VacuumsOutside,
                    RestoresUnderway, Underway
<1>4. ASSUME NEW h \in Handles, RowActions(h) PROVE SInv'
  BY <1>1, <1>4, RowSteps, RowKeepsSafe
<1>5. ASSUME NEW h \in Handles, Open(h) PROVE SInv'
  BY <1>1, <1>5, OpenKeepsSafe DEF Careful
<1>6. ASSUME NEW h \in Handles, (\E l \in Labels : SnapshotRemove(h, l)) \/ VacuumInto(h)
      PROVE  SInv'
  BY <1>1, <1>2, <1>6, SnapshotRemoveKeepsSafe, VacuumIntoKeepsSafe DEF Careful
<1>7. ASSUME NEW h \in Handles, CrashInSnapshot(h) \/ CrashInRestore(h) PROVE SInv'
  BY <1>2, <1>7 DEF CrashInSnapshot, CrashInRestore
<1>8. ASSUME NEW h \in Handles, NEW l \in Labels, RestoreBegin(h, l) PROVE SInv'
  BY <1>1, <1>8, RestoreBeginKeepsSafe
<1>9. ASSUME NEW h \in Handles, RestoreUnlink(h) \/ RestoreCopy(h) \/ RestoreOpen(h)
      PROVE  SInv'
  BY <1>1, <1>2, <1>9, RestoreUnlinkKeepsSafe, RestoreCopyKeepsSafe, RestoreOpenKeepsSafe
<1> QED
  BY <1>3, <1>4, <1>5, <1>6, <1>7, <1>8, <1>9, StepKinds

LEMMA SInductive ==
  ASSUME Careful
  PROVE  Spec => []SInv
<1>1. Init => SInv
  <2> SUFFICES ASSUME Init PROVE SInv
    OBVIOUS
  <2>1. \A h \in Handles : ~IsOpen(conn[h]) /\ call[h].op = "idle" /\ conn[h].scopes = <<>>
    BY CallShapes DEF Init, IsOpen, Closed, Conn
  <2>2. RInv
    BY <2>1, InitGood, CallShapes DEF RInv, Alone, HandlesOnBase
  <2>3. NoDebris /\ BackupKept
    BY DEF Init, NoDebris, BackupKept
  <2>4. VacuumsOutside /\ RestoresUnderway
    BY <2>1, CallShapes DEF VacuumsOutside, RestoresUnderway, Restoring
  <2> QED
    BY <2>2, <2>3, <2>4 DEF SInv
<1>2. SInv /\ [Next]_handleVars => SInv'
  BY SInvKeeps
<1> QED
  BY <1>1, <1>2, PTL DEF Spec

\* Only the last step of a restore ends one that has copied the backup.
LEMMA EndOfRestore ==
  ASSUME Careful, SInv, Next, NEW h \in Handles, call[h].op = "open", call'[h] # call[h]
  PROVE  RestoreOpen(h)
<1>1. IInv /\ "crash_in_file_call" \notin Faults /\ call[h] # Idle
  BY CallShapes DEF SInv, RInv, Careful
<1>2. ASSUME NEW g \in Handles, RowActions(g) PROVE FALSE
  BY <1>1, <1>2, RowSteps DEF RowStep, Bystanders
<1>3. ASSUME NEW g \in Handles, Open(g) PROVE FALSE
  BY <1>3 DEF Open
<1>4. ASSUME NEW g \in Handles, NEW r, Begin(g, r),
             call[g] = Idle \/ call[g].op \in {"vacuum", "unlink", "copy"}
      PROVE  FALSE
  BY <1>1, <1>4, CallEffect
<1>5. ASSUME NEW g \in Handles, NEW l \in Labels, SnapshotRemove(g, l) \/ RestoreBegin(g, l)
      PROVE  FALSE
  BY <1>4, <1>5 DEF SnapshotRemove, RestoreBegin, Ready
<1>6. ASSUME NEW g \in Handles, VacuumInto(g) \/ RestoreUnlink(g) \/ RestoreCopy(g)
      PROVE  FALSE
  BY <1>4, <1>6 DEF VacuumInto, RestoreUnlink, RestoreCopy, Return
<1>7. ASSUME NEW g \in Handles, CrashInSnapshot(g) \/ CrashInRestore(g) PROVE FALSE
  BY <1>1, <1>7 DEF CrashInSnapshot, CrashInRestore
<1>8. ASSUME NEW g \in Handles, RestoreOpen(g) PROVE g = h
  BY <1>1, <1>8, CallEffect DEF RestoreOpen, Return
<1> QED
  BY <1>2, <1>3, <1>5, <1>6, <1>7, <1>8, StepKinds

\* An answered backup stays until a later snapshot of its label replaces it, for
\* callers who restore alone and snapshot outside scopes, and file calls that are
\* neither cut short nor out of space; other snapshots of the label may run at once.
THEOREM BackupsAreKept ==
  ASSUME SoleRestore, ~ScopedSnapshots, Faults \subseteq {"crash"}
  PROVE  Spec => []BackupKept
<1>1. Careful
  BY DEF Careful
<1>2. SInv => BackupKept
  BY DEF SInv
<1> QED
  BY <1>1, <1>2, SInductive, PTL

\* Under the same conditions a restore that answers ok leaves exactly what the
\* answered snapshot saw (store.cpp, restore: unlink, copy_file, openConnection).
THEOREM RestoresAreExact ==
  ASSUME SoleRestore, ~ScopedSnapshots, Faults \subseteq {"crash"}
  PROVE  Spec => RestoreExact
<1>1. Careful
  BY DEF Careful
<1>2. SInv /\ [Next]_handleVars =>
        [\A h \in Handles : RestoreAnswersOk(h) => disk'[base'] = kept[call[h].label]]_handleVars
  <2> SUFFICES ASSUME SInv, Next, NEW h \in Handles, RestoreAnswersOk(h)
               PROVE  disk'[base'] = kept[call[h].label]
    OBVIOUS
  <2>1. call[h].op = "open" /\ call'[h] # call[h]
    BY CallShapes DEF RestoreAnswersOk
  <2>2. RestoreOpen(h)
    BY <1>1, <2>1, EndOfRestore
  <2> QED
    BY <2>2, RestoreOpenEffect
<1> QED
  BY <1>1, <1>2, SInductive, PTL DEF Spec, RestoreExact
=============================================================================
