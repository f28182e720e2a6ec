----------------------------- MODULE RowsProofs -----------------------------
(***************************************************************************)
(* TypeOK, NoLostUpdate and DeclaredRows hold of every number of handles,  *)
(* stores, keys, values, labels, scopes and faults: the invariant IInv of  *)
(* RowsInvariant is inductive, and implies the three.                      *)
(***************************************************************************)
EXTENDS ConnProofs

----------------------------------------------------------------------------
(* What the statements make of a database *)

\* The schema alone has no rows (store.cpp, kSchema).
LEMMA BlankSound == Blank \in Sound
<1>1. Blank \in Database
  BY DEF Blank, Database, Rows
<1>2. RowsDeclared(Blank)
  BY DEF RowsDeclared, HasRow, Blank
<1> QED
  BY <1>1, <1>2 DEF Sound

\* declare leaves every row in a declared store.
LEMMA DeclaredSound ==
  ASSUME NEW db \in Sound, NEW s \in Stores
  PROVE  /\ Declared(db, s) \in Sound
         /\ db.stores \subseteq Declared(db, s).stores
         /\ s \in db.stores => Declared(db, s) = db
<1>1. db \in Database /\ RowsDeclared(db)
  BY DEF Sound
<1>2. /\ Declared(db, s) \in Database
      /\ Declared(db, s).stores = db.stores \cup {s}
      /\ Declared(db, s).rows = db.rows
  BY <1>1 DEF Declared, Database
<1>3. RowsDeclared(Declared(db, s))
  BY <1>1, <1>2 DEF RowsDeclared, HasRow
<1>4. s \in db.stores => Declared(db, s) = db
  BY <1>1, <1>2 DEF Database
<1> QED
  BY <1>2, <1>3, <1>4 DEF Sound

\* put or delete in a declared store leaves every row in a declared store.
LEMMA WithRowSound ==
  ASSUME NEW db \in Sound, NEW s \in Stores, NEW k \in Keys,
         NEW v \in Values \cup {NoValue}, s \in db.stores
  PROVE  /\ WithRow(db, s, k, v) \in Sound
         /\ WithRow(db, s, k, v).stores = db.stores
         /\ ~Dirties(db, s, k, v) => WithRow(db, s, k, v) = db
<1> DEFINE new == WithRow(db, s, k, v)
<1>1. db \in Database /\ RowsDeclared(db)
  BY DEF Sound
<1>2. /\ db.rows \in [Stores -> [Keys -> Values \cup {NoValue}]]
      /\ db.stores \in SUBSET Stores
  BY <1>1 DEF Database, Rows
<1>3. /\ new.stores = db.stores
      /\ new.rows = [db.rows EXCEPT ![s] = [@ EXCEPT ![k] = v]]
      /\ new = [stores |-> new.stores, rows |-> new.rows]
  BY <1>1 DEF WithRow, Database
<1>4. new \in Database
  BY <1>2, <1>3 DEF Database, Rows
<1>5. RowsDeclared(new)
  <2>1. \A t \in Stores \ {s} : new.rows[t] = db.rows[t]
    BY <1>2, <1>3
  <2> QED
    BY <2>1, <1>1, <1>3 DEF RowsDeclared, HasRow
<1>6. ~Dirties(db, s, k, v) => new = db
  <2> SUFFICES ASSUME ~Dirties(db, s, k, v) PROVE new = db
    OBVIOUS
  <2>1. db.rows[s][k] = v
    BY DEF Dirties
  <2>2. new.rows = db.rows
    BY <2>1, <1>2, <1>3
  <2>3. db = [stores |-> db.stores, rows |-> db.rows]
    BY <1>1 DEF Database
  <2> QED
    BY <2>2, <2>3, <1>3
<1> QED
  BY <1>3, <1>4, <1>5, <1>6 DEF Sound

----------------------------------------------------------------------------
(* One handle in a good state *)

\* What the invariant says of one handle and its file.
LEMMA HandleFacts ==
  ASSUME IInv, NEW h \in Handles
  PROVE  /\ conn[h] \in Conns(Sound, ScopeNames)
         /\ call[h] \in {Idle} \cup WriteCalls \cup FileCalls
         /\ GoodConn(conn[h], Committed(h))
         /\ GoodCall(call[h], conn[h], Committed(h))
         /\ IsOpen(conn[h]) => conn[h].ino \in Inodes /\ Committed(h) \in Files
         /\ ~IsOpen(conn[h]) => conn[h] = Closed
         /\ IsOpen(conn[h]) /\ Readable(h) => Committed(h) \in Sound
<1>1. conn[h] \in Conns(Sound, ScopeNames) /\ call[h] \in {Idle} \cup WriteCalls \cup FileCalls
  BY DEF IInv, HandlesTyped
<1>2. GoodConn(conn[h], Committed(h)) /\ GoodCall(call[h], conn[h], Committed(h))
  BY DEF IInv, HandlesGood
<1>3. Held(conn[h], Committed(h))
  BY <1>2 DEF GoodConn
<1>4. IsOpen(conn[h]) => conn[h].ino \in Inodes
  BY <1>1, ConnFields DEF IsOpen
<1>5. IsOpen(conn[h]) => Committed(h) \in Files
  BY <1>3, <1>4 DEF IInv, FilesSound, Held, Committed
<1> QED
  BY <1>1, <1>2, <1>3, <1>4, <1>5 DEF Held, Readable, Files

\* The calls by what they do.
LEMMA CallShapes ==
  /\ Idle.op = "idle"
  /\ \A r \in WriteCalls : /\ r.op = "write" /\ r.store \in Stores /\ r.key \in Keys
                           /\ r.value \in Values \cup {NoValue}
  /\ \A r \in FileCalls : /\ r.op \in {"vacuum"} \cup Restoring
                          /\ r.label \in Labels
  /\ \A r \in {Idle} \cup WriteCalls \cup FileCalls : r.op = "write" => r \in WriteCalls
  /\ \A r \in {Idle} \cup WriteCalls \cup FileCalls :
        r.op \in {"vacuum"} \cup Restoring => r \in FileCalls
  /\ "write" \notin Restoring /\ "vacuum" \notin Restoring /\ "idle" \notin Restoring
BY DEF Idle, WriteCalls, FileCalls, Restoring

----------------------------------------------------------------------------
(* Two shapes of step *)

\* What happens to the file of a handle that does not take the step: nothing,
\* or it is overwritten, or it was empty and gets the schema.
SafeFor(g) ==
  IsOpen(conn[g]) =>
    \/ disk'[conn[g].ino] = disk[conn[g].ino]
    \/ disk'[conn[g].ino] = Torn
    \/ disk[conn[g].ino] = Hollow /\ disk'[conn[g].ino] \in Sound

\* A step of one handle that leaves the other connections alone.
LEMMA OneHandleSteps ==
  ASSUME IInv, NEW h \in Handles, FilesSound', HandlesTyped',
         \A g \in Handles \ {h} : conn'[g] = conn[g] /\ call'[g] = call[g] /\ SafeFor(g),
         GoodConn(conn'[h], disk'[conn'[h].ino]),
         GoodCall(call'[h], conn'[h], disk'[conn'[h].ino]),
         conn'[h].writer =>
           \A g \in Handles \ {h} : conn[g].writer => conn[g].ino # conn'[h].ino
  PROVE  IInv'
<1>1. ASSUME NEW g \in Handles \ {h}
      PROVE  /\ GoodConn(conn[g], disk'[conn[g].ino])
             /\ GoodCall(call[g], conn[g], disk'[conn[g].ino])
  <2> DEFINE d == disk[conn[g].ino]
             e == disk'[conn[g].ino]
  <2>1. /\ GoodConn(conn[g], d) /\ GoodCall(call[g], conn[g], d)
        /\ conn[g] \in Conns(Sound, ScopeNames)
    BY HandleFacts DEF Committed
  <2>2. CASE ~IsOpen(conn[g])
    <3>1. conn[g] = Conn(None)
      BY <2>1, <2>2 DEF GoodConn, Held, Closed
    <3>2. GoodConn(conn[g], e)
      BY <3>1, ConnGood
    <3>3. call[g].op # "write"
      BY <2>1, <2>2 DEF GoodCall
    <3> QED
      BY <3>2, <3>3, <2>1 DEF GoodCall
  <2>3. CASE IsOpen(conn[g]) /\ e = d
    BY <2>1, <2>3
  <2>4. CASE IsOpen(conn[g]) /\ e = Torn
    <3>1. GoodConn(conn[g], e)
      BY <2>1, <2>4, TornGood
    <3> QED
      BY <3>1, <2>1, <2>4, Markers DEF GoodCall
  <2>5. CASE IsOpen(conn[g]) /\ d = Hollow /\ e \in Sound
    <3>1. conn[g].view = None
      BY <2>1, <2>5 DEF GoodConn, Current
    <3>2. GoodConn(conn[g], e)
      BY <3>1, <2>1, <2>5, UnviewedGood, Markers
    <3>3. call[g].op # "write"
      BY <2>1, <2>5 DEF GoodCall
    <3> QED
      BY <3>2, <3>3, <2>1 DEF GoodCall
  <2> QED
    BY <2>2, <2>3, <2>4, <2>5 DEF SafeFor
<1>2. HandlesGood'
  BY <1>1 DEF HandlesGood, Committed
<1>3. OneWriter'
  BY DEF OneWriter, IInv
<1> QED
  BY <1>2, <1>3 DEF IInv

\* A step that commits new content into the file of handle h.
LEMMA PublishSteps ==
  ASSUME IInv, NEW h \in Handles, IsOpen(conn[h]), Readable(h),
         NEW c, c.ino = conn[h].ino, ~c.writer,
         NEW content \in Sound, GoodConn(c, content),
         NEW dirtied \in BOOLEAN, ~dirtied => content = Committed(h),
         Committed(h).stores \subseteq content.stores,
         \A g \in Handles \ {h} : conn[g].ino = conn[h].ino => ~conn[g].writer,
         Publish(h, c, content, dirtied),
         call' = [call EXCEPT ![h] = Idle],
         UNCHANGED <<base, snaps, kept>>
  PROVE  IInv'
<1> DEFINE i == conn[h].ino
           Stale(g) == dirtied /\ conn[g].ino = i /\ conn[g].view # None
<1>1. /\ i \in Inodes /\ disk[i] = Committed(h) /\ Committed(h) \in Sound
      /\ disk \in [Inodes -> Files \cup {None}]
  BY HandleFacts DEF Committed, IInv, FilesSound
<1>2. /\ disk' \in [Inodes -> Files \cup {None}]
      /\ disk'[i] = content
      /\ \A j \in Inodes \ {i} : disk'[j] = disk[j]
  BY <1>1 DEF Publish, Files
<1>3. FilesSound'
  BY <1>2, Markers DEF IInv, FilesSound
<1>4. /\ DOMAIN conn' = Handles /\ conn'[h] = c
      /\ \A g \in Handles \ {h} :
           conn'[g] = IF Stale(g) THEN [conn[g] EXCEPT !.stale = TRUE] ELSE conn[g]
      /\ conn' = [g \in Handles |-> conn'[g]]
  BY DEF Publish
<1>5. call' \in [Handles -> {Idle} \cup WriteCalls \cup FileCalls] /\ call'[h] = Idle
      /\ \A g \in Handles \ {h} : call'[g] = call[g]
  BY DEF IInv, HandlesTyped
<1>6. ASSUME NEW g \in Handles \ {h}
      PROVE  /\ GoodConn(conn'[g], disk'[conn'[g].ino])
             /\ GoodCall(call[g], conn'[g], disk'[conn'[g].ino])
             /\ conn'[g].ino = conn[g].ino /\ conn'[g].writer = conn[g].writer
  <2>0. /\ GoodConn(conn[g], Committed(g)) /\ GoodCall(call[g], conn[g], Committed(g))
        /\ conn[g] \in Conns(Sound, ScopeNames)
        /\ call[g] \in {Idle} \cup WriteCalls \cup FileCalls
    BY HandleFacts
  <2>1. CASE conn[g].ino # i
    <3>1. conn'[g] = conn[g]
      BY <2>1, <1>4
    <3>2. CASE IsOpen(conn[g])
      <4>1. disk'[conn[g].ino] = Committed(g)
        BY <1>2, <2>1, <3>2, HandleFacts DEF Committed
      <4> QED
        BY <4>1, <3>1, <2>0
    <3>3. CASE ~IsOpen(conn[g])
      <4>1. conn[g] = Conn(None) /\ call[g].op # "write"
        BY <3>3, <2>0 DEF GoodConn, Held, Closed, GoodCall
      <4>2. GoodConn(conn[g], disk'[conn[g].ino])
        BY <4>1, ConnGood
      <4> QED
        BY <4>1, <4>2, <3>1, <2>0 DEF GoodCall
    <3> QED
      BY <3>2, <3>3
  <2>2. CASE conn[g].ino = i /\ Stale(g)
    <3>1. conn'[g] = [conn[g] EXCEPT !.stale = TRUE]
      BY <2>2, <1>4
    <3>2. /\ conn'[g].ino = i /\ conn'[g].view = conn[g].view
          /\ conn'[g].writer = conn[g].writer
      BY <3>1, <2>0, <2>2 DEF Conns
    <3>3. GoodConn(conn'[g], content)
      BY <3>1, <2>0, <2>2, StaledGood
    <3>4. GoodCall(call[g], conn'[g], content)
      <4>1. IsOpen(conn'[g]) <=> IsOpen(conn[g])
        BY <3>2, <2>2 DEF IsOpen
      <4>2. Sees(conn'[g], content) = Sees(conn[g], Committed(g))
        BY <3>2, <2>2 DEF Sees
      <4>3. Committed(g) # Torn
        BY <2>2, <1>1, Markers DEF Committed
      <4> QED
        BY <4>1, <4>2, <4>3, <2>0, Markers DEF GoodCall
    <3> QED
      BY <3>2, <3>3, <3>4, <1>2, <2>2
  <2>3. CASE conn[g].ino = i /\ ~Stale(g)
    <3>1. conn'[g] = conn[g] /\ Committed(g) = Committed(h)
      BY <2>3, <1>4 DEF Committed
    <3>2. GoodConn(conn[g], content)
      <4>1. CASE dirtied
        BY <4>1, <2>0, <2>3, UnviewedGood, Markers
      <4>2. CASE ~dirtied
        BY <4>2, <2>0, <3>1
      <4> QED
        BY <4>1, <4>2
    <3>3. GoodCall(call[g], conn[g], content)
      <4>1. Committed(g) # Torn /\ content # Hollow
        BY <3>1, <1>1, Markers
      <4>2. call[g].op = "write" => call[g].store \in Sees(conn[g], content).stores
        BY <4>1, <3>1, <2>0 DEF GoodCall, Sees
      <4> QED
        BY <4>1, <4>2, <2>0 DEF GoodCall
    <3> QED
      BY <3>1, <3>2, <3>3, <1>2, <2>3
  <2> QED
    BY <2>1, <2>2, <2>3
<1>7. GoodCall(Idle, c, content)
  BY CallShapes DEF GoodCall
<1>8. HandlesGood'
  BY <1>2, <1>4, <1>5, <1>6, <1>7 DEF HandlesGood, Committed
<1>9. HandlesTyped'
  <2>1. \A g \in Handles : conn'[g] \in Conns(Sound, ScopeNames)
    BY <1>4, <1>6 DEF GoodConn
  <2> QED
    BY <2>1, <1>4, <1>5 DEF HandlesTyped
<1>10. OneWriter'
  BY <1>4, <1>6 DEF OneWriter, IInv
<1> QED
  BY <1>3, <1>8, <1>9, <1>10 DEF IInv

----------------------------------------------------------------------------
(* Effects shared by several actions *)

\* A call that is over asks nothing of its connection.
LEMMA IdleCall ==
  ASSUME NEW c, NEW d
  PROVE  GoodCall(Idle, c, d)
BY CallShapes DEF GoodCall

\* A call is entered, left or continued.
LEMMA BeginTyped ==
  ASSUME IInv, NEW h \in Handles, NEW r \in {Idle} \cup WriteCalls \cup FileCalls,
         Begin(h, r)
  PROVE  /\ call' \in [Handles -> {Idle} \cup WriteCalls \cup FileCalls]
         /\ call'[h] = r
         /\ \A g \in Handles \ {h} : call'[g] = call[g]
BY DEF Begin, IInv, HandlesTyped

\* The connection of one handle is replaced by another good one on the same
\* file, and no file changes.
LEMMA ConnReplaced ==
  ASSUME IInv, NEW h \in Handles, NEW c, GoodConn(c, Committed(h)),
         c.ino = conn[h].ino, c.writer => conn[h].writer \/ ~LockedByOther(h),
         conn' = [conn EXCEPT ![h] = c],
         call' \in [Handles -> {Idle} \cup WriteCalls \cup FileCalls],
         \A g \in Handles \ {h} : call'[g] = call[g],
         GoodCall(call'[h], c, Committed(h)),
         UNCHANGED <<base, disk, snaps, kept>>
  PROVE  IInv'
<1>1. /\ conn'[h] = c /\ \A g \in Handles \ {h} : conn'[g] = conn[g]
      /\ conn' \in [Handles -> Conns(Sound, ScopeNames)]
  BY DEF IInv, HandlesTyped, GoodConn
<1>2. FilesSound' /\ HandlesTyped'
  BY <1>1 DEF IInv, FilesSound, HandlesTyped
<1>3. \A g \in Handles \ {h} : SafeFor(g)
  BY DEF SafeFor
<1>4. GoodConn(conn'[h], disk'[conn'[h].ino]) /\ GoodCall(call'[h], conn'[h], disk'[conn'[h].ino])
  BY <1>1 DEF Committed
<1>5. conn'[h].writer => \A g \in Handles \ {h} : conn[g].writer => conn[g].ino # conn'[h].ino
  BY <1>1 DEF IInv, OneWriter, LockedByOther
<1> QED
  BY <1>1, <1>2, <1>3, <1>4, <1>5, OneHandleSteps

\* A step that changes no connection and no file of the store.
LEMMA CallSteps ==
  ASSUME IInv, NEW h \in Handles, UNCHANGED <<base, disk, conn>>,
         snaps' \in [Labels -> Files \cup {None}], kept' \in [Labels -> Sound \cup {None}],
         call' \in [Handles -> {Idle} \cup WriteCalls \cup FileCalls],
         \A g \in Handles \ {h} : call'[g] = call[g],
         GoodCall(call'[h], conn[h], Committed(h))
  PROVE  IInv'
<1>1. FilesSound' /\ HandlesTyped'
  BY DEF IInv, FilesSound, HandlesTyped
<1>2. \A g \in Handles \ {h} : SafeFor(g)
  BY DEF SafeFor
<1>3. GoodConn(conn'[h], disk'[conn'[h].ino]) /\ GoodCall(call'[h], conn'[h], disk'[conn'[h].ino])
  BY HandleFacts DEF Committed
<1>4. conn'[h].writer => \A g \in Handles \ {h} : conn[g].writer => conn[g].ino # conn'[h].ino
  BY DEF IInv, OneWriter
<1> QED
  BY <1>1, <1>2, <1>3, <1>4, OneHandleSteps

\* The connection of h becomes a new one on file i (or none), other handles
\* keep theirs, and files nobody names or holds go.
LEMMA Reconnected ==
  ASSUME IInv, NEW h \in Handles, NEW i \in Inodes \cup {None}, NEW b \in Inodes \cup {None},
         NEW d \in [Inodes -> Files \cup {None}],
         conn' = [conn EXCEPT ![h] = Conn(i)], base' = b, disk' = Reaped(d, b, conn'),
         i # None => d[i] # None, b # None => d[b] # None,
         \A g \in Handles \ {h} : IsOpen(conn[g]) =>
            \/ d[conn[g].ino] = disk[conn[g].ino]
            \/ disk[conn[g].ino] = Hollow /\ d[conn[g].ino] \in Sound,
         snaps' \in [Labels -> Files \cup {None}], kept' \in [Labels -> Sound \cup {None}],
         call' \in [Handles -> {Idle} \cup WriteCalls \cup FileCalls],
         \A g \in Handles \ {h} : call'[g] = call[g],
         call'[h].op \in {"idle"} \cup Restoring, call'[h].op \in Restoring => i = None
  PROVE  IInv'
<1>1. disk' \in [Inodes -> Files \cup {None}]
  BY DEF Reaped
<1>2. /\ conn'[h] = Conn(i) /\ \A g \in Handles \ {h} : conn'[g] = conn[g]
      /\ DOMAIN conn' = Handles
  BY DEF IInv, HandlesTyped
<1>3. Conn(i).ino = i /\ Conn(i).writer = FALSE
  BY DEF Conn
<1>4. \A g \in Handles : conn'[g].ino \in Inodes => disk'[conn'[g].ino] = d[conn'[g].ino]
  BY DEF Reaped
<1>5. GoodConn(conn'[h], disk'[conn'[h].ino])
  <2>1. i # None => disk'[i] # None
    BY <1>2, <1>3, <1>4
  <2> QED
    BY <2>1, <1>2, <1>3, ConnGood
<1>6. GoodCall(call'[h], conn'[h], disk'[conn'[h].ino])
  BY <1>2, <1>3, CallShapes DEF GoodCall, IsOpen
<1>7. \A g \in Handles \ {h} : SafeFor(g)
  <2> SUFFICES ASSUME NEW g \in Handles \ {h}, IsOpen(conn[g])
               PROVE  SafeFor(g)
    BY DEF SafeFor
  <2>1. conn[g].ino \in Inodes
    BY HandleFacts
  <2>2. disk'[conn[g].ino] = d[conn[g].ino]
    BY <2>1, <1>2, <1>4
  <2> QED
    BY <2>2 DEF SafeFor
<1>8. FilesSound'
  <2>1. b # None => disk'[b] = d[b]
    BY DEF Reaped
  <2> QED
    BY <2>1, <1>1 DEF FilesSound
<1>9. HandlesTyped'
  <2>1. \A g \in Handles : conn'[g] \in Conns(Sound, ScopeNames)
    BY <1>2, <1>5, HandleFacts DEF GoodConn
  <2>2. conn' \in [Handles -> Conns(Sound, ScopeNames)]
    BY <2>1, <1>2 DEF IInv, HandlesTyped
  <2> QED
    BY <2>2 DEF HandlesTyped
<1> QED
  BY <1>2, <1>3, <1>5, <1>6, <1>7, <1>8, <1>9, OneHandleSteps

\* openConnection, by the start of a call or by the end of a restore.
LEMMA OpenSteps ==
  ASSUME IInv, NEW h \in Handles, OpenConnection(h), call' = [call EXCEPT ![h] = Idle],
         UNCHANGED <<snaps, kept>>
  PROVE  IInv'
<1> DEFINE Opened(i, b, d) == /\ conn' = [conn EXCEPT ![h] = Conn(i)]
                              /\ base' = b
                              /\ disk' = Reaped(d, b, conn')
<1>1. /\ disk \in [Inodes -> Files \cup {None}] /\ base \in Inodes \cup {None}
      /\ base # None => disk[base] # None
      /\ snaps' \in [Labels -> Files \cup {None}] /\ kept' \in [Labels -> Sound \cup {None}]
      /\ call' \in [Handles -> {Idle} \cup WriteCalls \cup FileCalls] /\ call'[h].op = "idle"
      /\ \A g \in Handles \ {h} : call'[g] = call[g]
  BY CallShapes DEF IInv, FilesSound, HandlesTyped
<1>2. ASSUME NEW i \in Inodes, disk[i] \in {None, Hollow},
             Opened(i, i, [disk EXCEPT ![i] = Blank])
      PROVE  IInv'
  <2> DEFINE d == [disk EXCEPT ![i] = Blank]
  <2>1. d \in [Inodes -> Files \cup {None}] /\ d[i] = Blank /\ d[i] # None
    BY <1>1, BlankSound, Markers DEF Files
  <2>2. \A g \in Handles \ {h} : IsOpen(conn[g]) =>
            \/ d[conn[g].ino] = disk[conn[g].ino]
            \/ disk[conn[g].ino] = Hollow /\ d[conn[g].ino] \in Sound
    BY <1>1, <1>2, HandleFacts, BlankSound, Markers DEF Committed, Files
  <2>3. /\ conn' = [conn EXCEPT ![h] = Conn(i)] /\ base' = i /\ disk' = Reaped(d, i, conn')
        /\ i \in Inodes \cup {None}
    BY <1>2
  <2> HIDE DEF d
  <2>4. call'[h].op \in {"idle"} \cup Restoring /\ (call'[h].op \in Restoring => i = None)
    BY <1>1, CallShapes
  <2> QED
    BY <2>1, <2>2, <2>3, <2>4, <1>1, Reconnected
<1>3. ASSUME NEW i \in Inodes \cup {None}, i # None => disk[i] # None,
             Opened(i, base, disk)
      PROVE  IInv'
  BY <1>1, <1>3, CallShapes, Reconnected
<1>4. CASE /\ base = None /\ h \notin Readonly
           /\ \E i \in Inodes : Fresh(i) /\ Opened(i, i, [disk EXCEPT ![i] = Blank])
  BY <1>2, <1>4 DEF Fresh
<1>5. CASE /\ base # None /\ disk[base] = Hollow /\ h \notin Readonly
           /\ Opened(base, base, [disk EXCEPT ![base] = Blank])
  BY <1>1, <1>2, <1>5
<1>6. CASE /\ base # None
           /\ disk[base] \in Database \/ h \in Readonly
           /\ Opened(base, base, disk)
  BY <1>1, <1>3, <1>6
<1>7. CASE Opened(None, base, disk)
  BY <1>1, <1>3, <1>7
<1> QED
  BY <1>4, <1>5, <1>6, <1>7 DEF OpenConnection

\* A connection that goes leaves the others, and their files, as they were.
LEMMA DisconnectSteps ==
  ASSUME IInv, NEW h \in Handles, Disconnect(h), UNCHANGED base,
         snaps' \in [Labels -> Files \cup {None}], kept' \in [Labels -> Sound \cup {None}],
         call' \in [Handles -> {Idle} \cup WriteCalls \cup FileCalls],
         \A g \in Handles \ {h} : call'[g] = call[g],
         call'[h].op \in {"idle"} \cup Restoring
  PROVE  IInv'
<1>1. /\ disk \in [Inodes -> Files \cup {None}] /\ base \in Inodes \cup {None}
      /\ base # None => disk[base] # None
      /\ conn' = [conn EXCEPT ![h] = Conn(None)] /\ disk' = Reaped(disk, base, conn')
  BY DEF IInv, FilesSound, Disconnect, Closed
<1> QED
  BY <1>1, Reconnected

\* INSERT, upsert or DELETE by a handle that neither waits nor is refused.
LEMMA WriteSteps ==
  ASSUME IInv, NEW h \in Handles, IsOpen(conn[h]), ~Waits(h), ~Refused(h),
         NEW new \in Sound, NEW dirtied \in BOOLEAN,
         Seen(h).stores \subseteq new.stores, ~dirtied => new = Seen(h),
         Write(h, new, dirtied), call' = [call EXCEPT ![h] = Idle],
         UNCHANGED <<base, snaps, kept>>
  PROVE  IInv'
<1> DEFINE c == conn[h]
           d == Committed(h)
           p == Pinned(c, d)
           w == Wrote(p, new, dirtied)
<1>1. /\ GoodConn(c, d) /\ d \in Sound /\ Readable(h)
  BY HandleFacts DEF Refused
<1>2. CASE InScope(c)
  <2>1. /\ GoodConn(p, d) /\ p.view = Seen(h) /\ p.view # None
        /\ p.ino = c.ino /\ p.writer = c.writer /\ p.stale = c.stale
    BY <1>1, <1>2, PinnedGood DEF Seen
  <2>2. p.writer \/ ~p.stale
    BY <2>1, <1>1, GoodScopes DEF Refused
  <2>3. GoodConn(w, d) /\ w.ino = c.ino
    BY <2>1, <2>2, WroteGood
  <2>4. c.writer \/ ~LockedByOther(h)
    BY DEF Waits, Refused
  <2>5. conn' = [conn EXCEPT ![h] = w] /\ UNCHANGED disk
    BY <1>2 DEF Write
  <2>6. /\ call' \in [Handles -> {Idle} \cup WriteCalls \cup FileCalls] /\ call'[h] = Idle
        /\ \A g \in Handles \ {h} : call'[g] = call[g]
    BY DEF IInv, HandlesTyped
  <2> HIDE DEF w
  <2> QED
    BY <2>3, <2>4, <2>5, <2>6, IdleCall, ConnReplaced
<1>3. CASE ~InScope(c)
  <2>1. c.view = None /\ ~c.writer /\ Seen(h) = d
    BY <1>1, <1>3, GoodScopes DEF Seen, Sees
  <2>2. GoodConn(c, new)
    BY <1>1, <2>1, UnviewedGood, Markers
  <2>3. Publish(h, c, new, dirtied)
    BY <1>3 DEF Write
  <2>4. \A g \in Handles \ {h} : conn[g].ino = conn[h].ino => ~conn[g].writer
    BY <2>1 DEF Waits, LockedByOther
  <2> QED
    BY <1>1, <2>1, <2>2, <2>3, <2>4, PublishSteps
<1> QED
  BY <1>2, <1>3

\* The end of scope k of connection c, which is that of h, rolled back or not.
LEMMA EndScopeSteps ==
  ASSUME IInv, NEW h \in Handles, Ready(h), NEW c, NEW k \in DOMAIN c.scopes,
         GoodConn(c, Committed(h)), c.ino = conn[h].ino, c.writer = conn[h].writer,
         EndScope(h, c, k), UNCHANGED <<base, call, snaps, kept>>
  PROVE  IInv'
<1> DEFINE d == Committed(h)
           r == Released(c, k)
<1>0. /\ call' = [call EXCEPT ![h] = Idle] /\ call'[h] = Idle
      /\ call' \in [Handles -> {Idle} \cup WriteCalls \cup FileCalls]
      /\ \A g \in Handles \ {h} : call'[g] = call[g]
  BY DEF Ready, IInv, HandlesTyped
<1>1. c \in Conns(Sound, ScopeNames) /\ IsOpen(c) /\ c.ino \in Inodes /\ d \in Files
  BY HandleFacts DEF GoodConn, Ready, IsOpen
<1>2. k = 1 => r = Conn(c.ino) /\ r.ino = c.ino /\ r.writer = FALSE
  BY DEF Released, Conn
<1>3. CASE k = 1 /\ c.writer /\ Readable(h)
  <2>1. Publish(h, r, c.view, c.dirty)
    BY <1>3 DEF EndScope
  <2>2. /\ c.view \in Sound /\ c.view # None /\ c.dirty \in BOOLEAN
        /\ Start(c) = d
        /\ Start(c).stores \subseteq c.view.stores
        /\ ~c.dirty => c.view = d
    <3>1. c.view # None /\ c.view \in Sound /\ c.dirty \in BOOLEAN
      BY <1>1, <1>3, GoodScopes, ConnFields
    <3>2. Start(c) = d
      BY <3>1, <1>3 DEF GoodConn, Current, Readable
    <3>3. ~c.dirty => c.view = d
      BY <3>1, <3>2 DEF GoodConn, Clean
    <3>4. Start(c).stores \subseteq c.view.stores
      BY <3>1 DEF GoodConn, Grows
    <3> QED
      BY <3>1, <3>2, <3>3, <3>4
  <2>3. GoodConn(r, c.view)
    BY <1>1, <1>2, <1>3, <2>2, ConnGood
  <2>4. \A g \in Handles \ {h} : conn[g].ino = conn[h].ino => ~conn[g].writer
    BY <1>3 DEF IInv, OneWriter
  <2>5. r.ino = conn[h].ino /\ ~r.writer
    BY <1>2, <1>3
  <2>6. /\ ~c.dirty => c.view = Committed(h)
        /\ Committed(h).stores \subseteq c.view.stores
    BY <2>2
  <2>7. IsOpen(conn[h]) /\ Readable(h)
    BY <1>3 DEF Ready
  <2>8. c.view \in Sound /\ c.dirty \in BOOLEAN /\ call' = [call EXCEPT ![h] = Idle]
    BY <1>0, <2>2
  <2>9. UNCHANGED <<base, snaps, kept>>
    OBVIOUS
  <2> HIDE DEF r, d
  <2> QED
    BY <2>1, <2>3, <2>4, <2>5, <2>6, <2>7, <2>8, <2>9, PublishSteps
<1>4. CASE ~(k = 1 /\ c.writer /\ Readable(h))
  <2>1. conn' = [conn EXCEPT ![h] = r] /\ UNCHANGED disk
    BY <1>4 DEF EndScope
  <2>2. GoodConn(r, d) /\ r.ino = c.ino /\ (r.writer => c.writer)
    <3>1. CASE k = 1
      <4>1. d # None
        BY <1>1, Markers DEF Files
      <4> QED
        BY <3>1, <4>1, <1>1, <1>2, ConnGood
    <3>2. CASE k # 1
      BY <3>2, ReleasedGood
    <3> QED
      BY <3>1, <3>2
  <2>3. GoodCall(call'[h], r, d)
    BY <1>0, IdleCall
  <2>4. r.ino = conn[h].ino /\ (r.writer => conn[h].writer \/ ~LockedByOther(h))
    BY <2>2
  <2> HIDE DEF r
  <2> QED
    BY <1>0, <2>1, <2>2, <2>3, <2>4, ConnReplaced
<1> QED
  BY <1>3, <1>4

\* copy_file puts something into base.db.
LEMMA CopySteps ==
  ASSUME IInv, NEW h \in Handles, NEW content \in Files, CopyIn(content),
         UNCHANGED <<conn, snaps, kept>>,
         call[h].op \in Restoring,
         call' \in [Handles -> {Idle} \cup WriteCalls \cup FileCalls],
         \A g \in Handles \ {h} : call'[g] = call[g],
         call'[h].op \in {"idle"} \cup Restoring
  PROVE  IInv'
<1>1. PICK i \in Inodes :
         /\ IF base = None THEN Fresh(i) ELSE i = base
         /\ base' = i
         /\ disk' = [disk EXCEPT ![i] = IF \E g \in Handles : conn[g].ino = i THEN Torn
                                       ELSE content]
  BY DEF CopyIn
<1>2. FilesSound' /\ HandlesTyped'
  BY <1>1, Markers DEF IInv, FilesSound, HandlesTyped, Files
<1>3. \A g \in Handles \ {h} : SafeFor(g)
  <2> SUFFICES ASSUME NEW g \in Handles \ {h}, IsOpen(conn[g])
               PROVE  SafeFor(g)
    BY DEF SafeFor
  <2>1. conn[g].ino \in Inodes
    BY HandleFacts
  <2> QED
    BY <2>1, <1>1 DEF SafeFor, IInv, FilesSound
<1>4. conn'[h] = Conn(None) /\ conn'[h].writer = FALSE
  <2>1. conn[h] = Conn(None)
    BY HandleFacts DEF GoodCall, Closed
  <2> QED
    BY <2>1 DEF Conn
<1>5. GoodConn(conn'[h], disk'[conn'[h].ino])
  BY <1>4, ConnGood
<1>6. GoodCall(call'[h], conn'[h], disk'[conn'[h].ino])
  BY <1>4, CallShapes DEF GoodCall, IsOpen, Conn
<1> QED
  BY <1>2, <1>3, <1>4, <1>5, <1>6, OneHandleSteps

----------------------------------------------------------------------------
(* Every action keeps the invariant *)

\* despia_local_open and despia_local_reopen keep the invariant.
LEMMA OpenKeeps ==
  ASSUME IInv, NEW h \in Handles, Open(h)
  PROVE  IInv'
<1>1. call' = [call EXCEPT ![h] = Idle]
  BY DEF Open, IInv, HandlesTyped
<1> QED
  BY <1>1, OpenSteps DEF Open

\* despia_local_close keeps the invariant.
LEMMA CloseKeeps ==
  ASSUME IInv, NEW h \in Handles, Close(h)
  PROVE  IInv'
BY DisconnectSteps, CallShapes DEF Close, Ready, IInv, FilesSound, HandlesTyped

\* The end of the process between statements keeps the invariant.
LEMMA CrashKeeps ==
  ASSUME IInv, NEW h \in Handles, Crash(h)
  PROVE  IInv'
<1>1. Begin(h, Idle)
  BY DEF Crash, Return
<1> QED
  BY <1>1, BeginTyped, DisconnectSteps, CallShapes DEF Crash, IInv, FilesSound

\* savepoint keeps the invariant.
LEMMA SavepointKeeps ==
  ASSUME IInv, NEW h \in Handles, NEW n \in ScopeNames, Savepoint(h, n)
  PROVE  IInv'
<1> DEFINE c == Pushed(conn[h], n)
<1>1. call'[h] = Idle /\ conn' = [conn EXCEPT ![h] = c]
  BY DEF Savepoint, Ready
<1>2. GoodConn(c, Committed(h)) /\ c.ino = conn[h].ino /\ c.writer = conn[h].writer
  BY HandleFacts, PushedGood DEF Savepoint, Ready
<1>3. GoodCall(call'[h], c, Committed(h))
  BY <1>1, IdleCall
<1> HIDE DEF c
<1> QED
  BY <1>1, <1>2, <1>3, ConnReplaced DEF Savepoint, IInv, HandlesTyped

\* release keeps the invariant.
LEMMA ReleaseKeeps ==
  ASSUME IInv, NEW h \in Handles, NEW n \in ScopeNames, Release(h, n)
  PROVE  IInv'
<1>1. PICK k \in DOMAIN conn[h].scopes : EndScope(h, conn[h], k)
  BY DEF Release
<1> QED
  BY <1>1, HandleFacts, EndScopeSteps DEF Release

\* rollback, ROLLBACK TO and then RELEASE, keeps the invariant.
LEMMA RollbackKeeps ==
  ASSUME IInv, NEW h \in Handles, NEW n \in ScopeNames, Rollback(h, n)
  PROVE  IInv'
<1>1. PICK k \in DOMAIN conn[h].scopes : EndScope(h, RolledBack(conn[h], k), k)
  BY DEF Rollback
<1> DEFINE c == RolledBack(conn[h], k)
<1>2. /\ GoodConn(c, Committed(h)) /\ c.ino = conn[h].ino /\ c.writer = conn[h].writer
      /\ k \in DOMAIN c.scopes
  BY HandleFacts, RolledBackGood
<1> HIDE DEF c
<1>3. EndScope(h, c, k)
  BY <1>1 DEF c
<1>4. Ready(h) /\ UNCHANGED <<base, call, snaps, kept>>
  BY DEF Rollback
<1> QED
  BY <1>2, <1>3, <1>4, EndScopeSteps

\* The first step of snapshot keeps the invariant.
LEMMA SnapshotRemoveKeeps ==
  ASSUME IInv, NEW h \in Handles, NEW l \in Labels, SnapshotRemove(h, l)
  PROVE  IInv'
<1> DEFINE r == [op |-> "vacuum", label |-> l]
<1>1. r \in FileCalls /\ r.op = "vacuum"
  BY DEF FileCalls
<1>2. Begin(h, r) /\ IsOpen(conn[h])
  BY DEF SnapshotRemove, Ready
<1>3. /\ call' \in [Handles -> {Idle} \cup WriteCalls \cup FileCalls] /\ call'[h] = r
      /\ \A g \in Handles \ {h} : call'[g] = call[g]
  BY <1>1, <1>2, BeginTyped
<1>4. GoodCall(call'[h], conn[h], Committed(h))
  BY <1>1, <1>2, <1>3, CallShapes DEF GoodCall
<1>5. snaps' \in [Labels -> Files \cup {None}] /\ kept' \in [Labels -> Sound \cup {None}]
  BY DEF SnapshotRemove, IInv, FilesSound
<1> QED
  BY <1>3, <1>4, <1>5, CallSteps DEF SnapshotRemove

\* VACUUM INTO, done, refused or cut short, keeps the invariant.
LEMMA VacuumIntoKeeps ==
  ASSUME IInv, NEW h \in Handles, VacuumInto(h)
  PROVE  IInv'
<1>1. Begin(h, Idle) /\ call[h].op = "vacuum"
  BY DEF VacuumInto, Return
<1>2. /\ call' \in [Handles -> {Idle} \cup WriteCalls \cup FileCalls] /\ call'[h] = Idle
      /\ \A g \in Handles \ {h} : call'[g] = call[g]
  BY <1>1, BeginTyped
<1>3. IsOpen(conn[h])
  BY <1>1, HandleFacts DEF GoodCall
<1>4. Readable(h) => Committed(h) \in Sound
  BY <1>3, HandleFacts
<1>5. snaps' \in [Labels -> Files \cup {None}] /\ kept' \in [Labels -> Sound \cup {None}]
  BY <1>4 DEF VacuumInto, IInv, FilesSound, Files
<1>6. GoodCall(call'[h], conn[h], Committed(h))
  BY <1>2, IdleCall
<1> QED
  BY <1>2, <1>5, <1>6, CallSteps DEF VacuumInto

\* The end of the process during VACUUM INTO keeps the invariant.
LEMMA CrashInSnapshotKeeps ==
  ASSUME IInv, NEW h \in Handles, CrashInSnapshot(h)
  PROVE  IInv'
<1>1. Begin(h, Idle)
  BY DEF CrashInSnapshot, Return
<1>2. snaps' \in [Labels -> Files \cup {None}] /\ kept' \in [Labels -> Sound \cup {None}]
  BY DEF CrashInSnapshot, IInv, FilesSound, Files
<1> QED
  BY <1>1, <1>2, BeginTyped, DisconnectSteps, CallShapes DEF CrashInSnapshot

\* The first step of restore keeps the invariant.
LEMMA RestoreBeginKeeps ==
  ASSUME IInv, NEW h \in Handles, NEW l \in Labels, RestoreBegin(h, l)
  PROVE  IInv'
<1> DEFINE r == [op |-> "unlink", label |-> l]
<1>1. r \in FileCalls /\ r.op = "unlink"
  BY DEF FileCalls
<1>2. Begin(h, r) /\ Disconnect(h)
  BY DEF RestoreBegin
<1>3. /\ call' \in [Handles -> {Idle} \cup WriteCalls \cup FileCalls] /\ call'[h] = r
      /\ \A g \in Handles \ {h} : call'[g] = call[g]
  BY <1>1, <1>2, BeginTyped
<1>4. call'[h].op \in {"idle"} \cup Restoring
  BY <1>1, <1>3 DEF Restoring
<1> QED
  BY <1>2, <1>3, <1>4, DisconnectSteps DEF RestoreBegin, IInv, FilesSound

\* The next step of a restore is again a call of the same label.
LEMMA RestoreCalls ==
  ASSUME IInv, NEW h \in Handles, call[h].op \in Restoring, NEW op \in Restoring
  PROVE  [call[h] EXCEPT !.op = op] \in FileCalls /\ [call[h] EXCEPT !.op = op].op = op
<1>1. call[h] \in FileCalls
  BY HandleFacts, CallShapes
<1> QED
  BY <1>1 DEF FileCalls, Restoring

\* Unlinking base.db keeps the invariant, also under other connections.
LEMMA RestoreUnlinkKeeps ==
  ASSUME IInv, NEW h \in Handles, RestoreUnlink(h)
  PROVE  IInv'
<1> DEFINE r == [call[h] EXCEPT !.op = "copy"]
<1>1. call[h].op \in Restoring /\ r \in FileCalls /\ r.op = "copy"
  BY RestoreCalls DEF RestoreUnlink, Restoring
<1>2. Begin(h, r)
  BY DEF RestoreUnlink
<1>3. /\ call' \in [Handles -> {Idle} \cup WriteCalls \cup FileCalls] /\ call'[h] = r
      /\ \A g \in Handles \ {h} : call'[g] = call[g]
  BY <1>1, <1>2, BeginTyped
<1>4. call'[h].op \in Restoring
  BY <1>1, <1>3 DEF Restoring
<1>5. /\ conn[h] = Conn(None) /\ conn' = [conn EXCEPT ![h] = Conn(None)]
      /\ base' = None /\ disk' = Reaped(disk, None, conn')
  <2>1. conn[h] = Conn(None)
    BY <1>1, HandleFacts DEF GoodCall, Closed
  <2> QED
    BY <2>1 DEF RestoreUnlink, IInv, HandlesTyped
<1>6. /\ disk \in [Inodes -> Files \cup {None}]
      /\ snaps' \in [Labels -> Files \cup {None}] /\ kept' \in [Labels -> Sound \cup {None}]
  BY DEF RestoreUnlink, IInv, FilesSound
<1> QED
  BY <1>3, <1>4, <1>5, <1>6, Reconnected

\* copy_file keeps the invariant, also onto a file another handle made.
LEMMA RestoreCopyKeeps ==
  ASSUME IInv, NEW h \in Handles, RestoreCopy(h)
  PROVE  IInv'
<1>1. call[h].op \in Restoring /\ call[h].label \in Labels
  BY HandleFacts, CallShapes DEF RestoreCopy, Restoring
<1>2. snaps[call[h].label] # None => snaps[call[h].label] \in Files
  BY <1>1 DEF IInv, FilesSound
<1>3. ASSUME NEW op \in {"open", "reopen"}, Begin(h, [call[h] EXCEPT !.op = op])
      PROVE  /\ call' \in [Handles -> {Idle} \cup WriteCalls \cup FileCalls]
             /\ \A g \in Handles \ {h} : call'[g] = call[g]
             /\ call'[h].op \in Restoring
  <2>1. [call[h] EXCEPT !.op = op] \in FileCalls /\ [call[h] EXCEPT !.op = op].op \in Restoring
    BY <1>1, RestoreCalls DEF Restoring
  <2> QED
    BY <2>1, <1>3, BeginTyped
<1>4. CASE /\ snaps[call[h].label] = None
           /\ Begin(h, [call[h] EXCEPT !.op = "reopen"])
           /\ UNCHANGED <<base, disk>>
  <2>1. GoodCall(call'[h], conn[h], Committed(h))
    BY <1>1, <1>3, <1>4, HandleFacts, CallShapes DEF GoodCall
  <2> QED
    BY <2>1, <1>3, <1>4, CallSteps DEF RestoreCopy, IInv, FilesSound
<1>5. CASE /\ snaps[call[h].label] # None
           /\ CopyIn(snaps[call[h].label])
           /\ Begin(h, [call[h] EXCEPT !.op = "open"])
  BY <1>1, <1>2, <1>3, <1>5, CopySteps DEF RestoreCopy
<1>6. CASE /\ \E f \in {Hollow, Torn} : CopyIn(f)
           /\ Begin(h, [call[h] EXCEPT !.op = "reopen"])
  BY <1>1, <1>3, <1>6, CopySteps DEF RestoreCopy, Files
<1> QED
  BY <1>4, <1>5, <1>6 DEF RestoreCopy

\* The last step of restore keeps the invariant.
LEMMA RestoreOpenKeeps ==
  ASSUME IInv, NEW h \in Handles, RestoreOpen(h)
  PROVE  IInv'
BY OpenSteps DEF RestoreOpen, Return, Begin

\* The end of the process during a restore keeps the invariant.
LEMMA CrashInRestoreKeeps ==
  ASSUME IInv, NEW h \in Handles, CrashInRestore(h)
  PROVE  IInv'
<1>1. Begin(h, Idle) /\ call[h].op \in Restoring
  BY DEF CrashInRestore, Return
<1>2. /\ call' \in [Handles -> {Idle} \cup WriteCalls \cup FileCalls] /\ call'[h] = Idle
      /\ \A g \in Handles \ {h} : call'[g] = call[g]
  BY <1>1, BeginTyped
<1>3. CASE UNCHANGED <<base, disk>>
  <2>1. GoodCall(call'[h], conn[h], Committed(h))
    BY <1>2, IdleCall
  <2> QED
    BY <2>1, <1>2, <1>3, CallSteps DEF CrashInRestore, IInv, FilesSound
<1>4. CASE \E f \in {Hollow, Torn} : CopyIn(f)
  BY <1>1, <1>2, <1>4, CopySteps, CallShapes DEF CrashInRestore, Files
<1> QED
  BY <1>3, <1>4 DEF CrashInRestore

\* A statement read: its scope has the snapshot now, and sees what it saw.
LEMMA PinSteps ==
  ASSUME IInv, NEW h \in Handles, Ready(h), Readable(h),
         conn' = [conn EXCEPT ![h] = Pinned(@, Committed(h))],
         NEW r \in {Idle} \cup WriteCalls, call' = [call EXCEPT ![h] = r],
         r \in WriteCalls => r.store \in Seen(h).stores,
         UNCHANGED <<base, disk, snaps, kept>>
  PROVE  IInv'
<1> DEFINE d == Committed(h)
           c == Pinned(conn[h], d)
<1>1. d \in Sound /\ GoodConn(conn[h], d) /\ IsOpen(conn[h])
  BY HandleFacts DEF Ready
<1>2. /\ GoodConn(c, d) /\ c.ino = conn[h].ino /\ c.writer = conn[h].writer
      /\ Sees(c, d) = Seen(h)
  BY <1>1, PinnedGood DEF Seen
<1>3. /\ call' \in [Handles -> {Idle} \cup WriteCalls \cup FileCalls] /\ call'[h] = r
      /\ \A g \in Handles \ {h} : call'[g] = call[g]
  BY DEF IInv, HandlesTyped
<1>4. conn' = [conn EXCEPT ![h] = c]
  OBVIOUS
<1>5. GoodCall(call'[h], c, d)
  <2>1. CASE r = Idle
    BY <2>1, <1>3, IdleCall
  <2>2. CASE r \in WriteCalls
    BY <2>2, <1>1, <1>2, <1>3, CallShapes, Markers DEF GoodCall, IsOpen
  <2> QED
    BY <2>1, <2>2
<1> HIDE DEF c
<1> QED
  BY <1>2, <1>3, <1>4, <1>5, ConnReplaced

\* A read inside a scope keeps the invariant.
LEMMA ReadKeeps ==
  ASSUME IInv, NEW h \in Handles, Read(h)
  PROVE  IInv'
<1>1. call' = [call EXCEPT ![h] = Idle] /\ Idle \notin WriteCalls
  BY CallShapes DEF Read, Ready, IInv, HandlesTyped
<1> QED
  BY <1>1, PinSteps DEF Read

\* declare keeps the invariant.
LEMMA DeclareKeeps ==
  ASSUME IInv, NEW h \in Handles, NEW s \in Stores, Declare(h, s)
  PROVE  IInv'
<1>1. IsOpen(conn[h]) /\ call' = [call EXCEPT ![h] = Idle]
  BY DEF Declare, Ready, IInv, HandlesTyped
<1>2. Seen(h) \in Sound
  <2>1. Committed(h) \in Sound /\ conn[h].view \in Sound \cup {None}
    BY <1>1, HandleFacts, ConnFields DEF Declare, Refused
  <2> QED
    BY <2>1 DEF Seen, Sees
<1>3. /\ Declared(Seen(h), s) \in Sound
      /\ Seen(h).stores \subseteq Declared(Seen(h), s).stores
      /\ s \in Seen(h).stores => Declared(Seen(h), s) = Seen(h)
  BY <1>2, DeclaredSound
<1>4. ~Waits(h) /\ ~Refused(h) /\ UNCHANGED <<base, snaps, kept>>
      /\ Write(h, Declared(Seen(h), s), s \notin Seen(h).stores)
  BY DEF Declare
<1> QED
  BY <1>1, <1>3, <1>4, WriteSteps

\* The check of put and delete keeps the invariant: the store it found is
\* still declared when the write comes.
LEMMA RequireStoreKeeps ==
  ASSUME IInv, NEW h \in Handles, NEW s \in Stores, NEW k \in Keys,
         NEW v \in Values \cup {NoValue}, RequireStore(h, s, k, v)
  PROVE  IInv'
<1> DEFINE w == [op |-> "write", store |-> s, key |-> k, value |-> v]
<1>1. w \in WriteCalls /\ w.store = s /\ Idle \notin WriteCalls
  BY CallShapes DEF WriteCalls
<1>2. CASE s \in Seen(h).stores
  <2>1. call' = [call EXCEPT ![h] = w]
    BY <1>2 DEF RequireStore, Begin
  <2> HIDE DEF w
  <2> QED
    BY <2>1, <1>1, <1>2, PinSteps DEF RequireStore
<1>3. CASE s \notin Seen(h).stores
  <2>1. call' = [call EXCEPT ![h] = Idle]
    BY <1>3 DEF RequireStore, Ready, IInv, HandlesTyped
  <2> QED
    BY <2>1, <1>1, PinSteps DEF RequireStore
<1> QED
  BY <1>2, <1>3

\* A call that ends and changes nothing.
LEMMA ReturnKeeps ==
  ASSUME IInv, NEW h \in Handles, Return(h), UNCHANGED <<base, disk, conn, snaps, kept>>
  PROVE  IInv'
<1>1. /\ call' \in [Handles -> {Idle} \cup WriteCalls \cup FileCalls] /\ call'[h] = Idle
      /\ \A g \in Handles \ {h} : call'[g] = call[g]
  BY BeginTyped DEF Return
<1>2. GoodCall(call'[h], conn[h], Committed(h))
  BY <1>1, IdleCall
<1> QED
  BY <1>1, <1>2, CallSteps DEF IInv, FilesSound

\* The write of put and delete keeps the invariant.
LEMMA WriteRowKeeps ==
  ASSUME IInv, NEW h \in Handles, WriteRow(h)
  PROVE  IInv'
<1> DEFINE w == call[h]
           new == WithRow(Seen(h), w.store, w.key, w.value)
           dirtied == Dirties(Seen(h), w.store, w.key, w.value)
<1>1. /\ w.store \in Stores /\ w.key \in Keys /\ w.value \in Values \cup {NoValue}
      /\ IsOpen(conn[h])
  BY HandleFacts, CallShapes DEF WriteRow, GoodCall
<1>2. Seen(h) \in Sound /\ w.store \in Seen(h).stores
  <2>1. Committed(h) \in Sound /\ conn[h].view \in Sound \cup {None}
    BY <1>1, HandleFacts, ConnFields DEF WriteRow, Refused
  <2>2. w.store \in Seen(h).stores
    BY <2>1, HandleFacts, Markers DEF WriteRow, GoodCall, Seen
  <2> QED
    BY <2>1, <2>2 DEF Seen, Sees
<1>3. new \in Sound /\ new.stores = Seen(h).stores /\ (~dirtied => new = Seen(h))
  BY <1>1, <1>2, WithRowSound
<1>4. /\ ~Waits(h) /\ ~Refused(h) /\ Write(h, new, dirtied)
      /\ call' = [call EXCEPT ![h] = Idle] /\ UNCHANGED <<base, snaps, kept>>
  BY DEF WriteRow, Return, Begin
<1>5. dirtied \in BOOLEAN /\ Seen(h).stores \subseteq new.stores
  BY <1>3 DEF Dirties
<1> HIDE DEF new, dirtied
<1> QED
  BY <1>1, <1>3, <1>4, <1>5, WriteSteps

\* A transaction that SQLite rolls back whole keeps the invariant.
LEMMA DiskFullKeeps ==
  ASSUME IInv, NEW h \in Handles, DiskFull(h)
  PROVE  IInv'
<1> DEFINE c == Conn(conn[h].ino)
<1>1. IsOpen(conn[h]) /\ conn[h].ino \in Inodes /\ Committed(h) # None
  BY HandleFacts, Markers DEF DiskFull, GoodCall, Ready, Files
<1>2. GoodConn(c, Committed(h)) /\ c.ino = conn[h].ino /\ ~c.writer
  BY <1>1, ConnGood DEF Conn
<1>3. /\ call' \in [Handles -> {Idle} \cup WriteCalls \cup FileCalls] /\ call'[h] = Idle
      /\ \A g \in Handles \ {h} : call'[g] = call[g]
  BY BeginTyped DEF DiskFull, Return
<1>4. conn' = [conn EXCEPT ![h] = c] /\ UNCHANGED <<base, disk, snaps, kept>>
  BY DEF DiskFull
<1>5. GoodCall(call'[h], c, Committed(h))
  BY <1>3, IdleCall
<1> HIDE DEF c
<1> QED
  BY <1>2, <1>3, <1>4, <1>5, ConnReplaced

----------------------------------------------------------------------------
(* The invariant is inductive and implies the properties *)

\* The invariant holds when no handle was opened yet.
LEMMA InitGood == Init => IInv
<1> SUFFICES ASSUME Init PROVE IInv
  OBVIOUS
<1>1. FilesSound
  BY DEF Init, FilesSound
<1>2. \A h \in Handles : conn[h] = Conn(None) /\ call[h] = Idle
  BY DEF Init, Closed
<1>3. HandlesGood
  BY <1>2, ConnGood, IdleCall DEF HandlesGood
<1>4. HandlesTyped
  <2>1. Closed \in Conns(Sound, ScopeNames)
    BY ConnGood DEF GoodConn, Closed
  <2> QED
    BY <2>1 DEF HandlesTyped, Init
<1>5. OneWriter
  BY <1>2 DEF OneWriter, Conn
<1> QED
  BY <1>1, <1>3, <1>4, <1>5 DEF IInv

\* Every step of StoreHandle keeps the invariant.
LEMMA HandleNextKeeps ==
  ASSUME IInv, NEW h \in Handles, HandleNext(h)
  PROVE  IInv'
<1>1. CASE Open(h) \/ Close(h) \/ Crash(h)
  BY <1>1, OpenKeeps, CloseKeeps, CrashKeeps
<1>2. CASE \E n \in ScopeNames : Savepoint(h, n) \/ Release(h, n) \/ Rollback(h, n)
  BY <1>2, SavepointKeeps, ReleaseKeeps, RollbackKeeps
<1>3. CASE \E l \in Labels : SnapshotRemove(h, l) \/ RestoreBegin(h, l)
  BY <1>3, SnapshotRemoveKeeps, RestoreBeginKeeps
<1>4. CASE VacuumInto(h) \/ CrashInSnapshot(h)
  BY <1>4, VacuumIntoKeeps, CrashInSnapshotKeeps
<1>5. CASE RestoreUnlink(h) \/ RestoreCopy(h) \/ RestoreOpen(h) \/ CrashInRestore(h)
  BY <1>5, RestoreUnlinkKeeps, RestoreCopyKeeps, RestoreOpenKeeps, CrashInRestoreKeeps
<1> QED
  BY <1>1, <1>2, <1>3, <1>4, <1>5 DEF HandleNext

\* Every step of Rows keeps the invariant.
LEMMA RowNextKeeps ==
  ASSUME IInv, NEW h \in Handles, RowNext(h)
  PROVE  IInv'
<1>1. CASE Read(h)
  BY <1>1, ReadKeeps
<1>2. CASE \E s \in Stores : Declare(h, s)
  BY <1>2, DeclareKeeps
<1>3. CASE \E s \in Stores, k \in Keys, v \in Values \cup {NoValue} : RequireStore(h, s, k, v)
  BY <1>3, RequireStoreKeeps
<1>4. CASE WriteRow(h)
  BY <1>4, WriteRowKeeps
<1>5. CASE RefuseRow(h) \/ BusyTimeout(h)
  BY <1>5, ReturnKeeps DEF RefuseRow, BusyTimeout
<1>6. CASE DiskFull(h)
  BY <1>6, DiskFullKeeps
<1> QED
  BY <1>1, <1>2, <1>3, <1>4, <1>5, <1>6 DEF RowNext

\* Every step keeps the invariant, and so does a stutter.
LEMMA NextGood == IInv /\ [Next]_handleVars => IInv'
<1> SUFFICES ASSUME IInv, [Next]_handleVars PROVE IInv'
  OBVIOUS
<1>1. CASE Next
  BY <1>1, HandleNextKeeps, RowNextKeeps DEF Next
<1>2. CASE UNCHANGED handleVars
  BY <1>2 DEF handleVars, IInv, FilesSound, HandlesTyped, HandlesGood, OneWriter, Committed
<1> QED
  BY <1>1, <1>2

\* The inductive invariant holds of every behaviour, whatever the callers do and
\* whatever fails: each file is sound or debris, each connection is consistent with
\* its file, and each file has one writer (store.cpp, Store::call; SQLite's WAL locks).
THEOREM Inductive == Spec => []IInv
<1>1. Init => IInv
  BY InitGood
<1>2. IInv /\ [Next]_handleVars => IInv'
  BY NextGood
<1> QED
  BY <1>1, <1>2, PTL DEF Spec

\* Whatever the handles do, the state of files, connections and calls is one
\* of those the engine's code is written for.
THEOREM TypeCorrect == Spec => []TypeOK
<1>1. IInv => TypeOK
  <2> SUFFICES ASSUME IInv PROVE TypeOK
    OBVIOUS
  <2>1. Files \subseteq Images /\ Sound \subseteq Database
    BY DEF Files, Images, Sound
  <2>2. Conns(Sound, ScopeNames) \subseteq Conns(Database, ScopeNames)
    <3>1. [name : ScopeNames, saved : Sound \cup {None}]
            \subseteq [name : ScopeNames, saved : Database \cup {None}]
      BY <2>1
    <3>2. Seq([name : ScopeNames, saved : Sound \cup {None}])
            \subseteq Seq([name : ScopeNames, saved : Database \cup {None}])
      BY <3>1, SeqMonotonic
    <3> QED
      BY <2>1, <3>2 DEF Conns
  <2> QED
    BY <2>1, <2>2 DEF IInv, FilesSound, HandlesTyped, TypeOK
<1> QED
  BY <1>1, Inductive, PTL

\* No commit of one handle erases a commit of another (store.cpp: the write
\* lock and the snapshot that put, delete and declare run under).
THEOREM NoUpdateIsLost == Spec => []NoLostUpdate
<1>1. IInv => NoLostUpdate
  <2> SUFFICES ASSUME IInv, NEW h \in Handles, conn[h].writer
               PROVE  /\ InScope(conn[h])
                      /\ Readable(h) => conn[h].scopes[1].saved = Committed(h)
                      /\ \A g \in Handles \ {h} : conn[g].writer => conn[g].ino # conn[h].ino
    BY DEF NoLostUpdate
  <2>1. GoodConn(conn[h], Committed(h))
    BY HandleFacts
  <2>2. conn[h].view # None /\ InScope(conn[h])
    BY <2>1, GoodScopes
  <2>3. Readable(h) => conn[h].scopes[1].saved = Committed(h)
    BY <2>1, <2>2 DEF GoodConn, Current, Readable, Start
  <2>4. \A g \in Handles \ {h} : conn[g].writer => conn[g].ino # conn[h].ino
    BY DEF IInv, OneWriter
  <2> QED
    BY <2>2, <2>3, <2>4
<1> QED
  BY <1>1, Inductive, PTL

\* Nothing that can be read, now or after a rollback or a restore, has a row
\* in a store that was not declared (store.cpp, requireStore).
THEOREM RowsAreDeclared == Spec => []DeclaredRows
<1>1. IInv => DeclaredRows
  <2> SUFFICES ASSUME IInv, NEW c \in Contents \cap Database
               PROVE  c \in Sound
    BY DEF DeclaredRows, Sound
  <2>1. /\ \A i \in Inodes : disk[i] \in Files \cup {None}
        /\ \A l \in Labels : snaps[l] \in Files \cup {None}
    BY DEF IInv, FilesSound
  <2>2. \A h \in Handles :
          /\ conn[h].view \in Sound \cup {None}
          /\ \A k \in DOMAIN conn[h].scopes : conn[h].scopes[k].saved \in Sound \cup {None}
    BY HandleFacts, ConnFields
  <2>3. CASE c \in {disk[i] : i \in Inodes} \cup {snaps[l] : l \in Labels}
    BY <2>1, <2>3, MarkerAssumption DEF Files
  <2>4. CASE c \in {conn[h].view : h \in Handles}
    BY <2>2, <2>4, MarkerAssumption
  <2>5. CASE c \in UNION {{conn[h].scopes[k].saved : k \in DOMAIN conn[h].scopes} : h \in Handles}
    <3>1. PICK h \in Handles : c \in {conn[h].scopes[k].saved : k \in DOMAIN conn[h].scopes}
      BY <2>5, Zenon
    <3> QED
      BY <3>1, <2>2, MarkerAssumption
  <2> QED
    BY <2>3, <2>4, <2>5 DEF Contents
<1> QED
  BY <1>1, Inductive, PTL
=============================================================================
