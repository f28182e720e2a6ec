-------------------------- MODULE RefinementProofs --------------------------
(***************************************************************************)
(* Rows implements DataPlane for every number of handles, files, stores,   *)
(* keys, labels and scopes: each step of a handle is one step of the       *)
(* promised data plane, or none.  The callers and the faults are those of  *)
(* the last theorems of RestoreProofs, whose invariant the mapping needs:  *)
(* base.db is what is committed because every open handle is on it, and a  *)
(* restore is one change because the handle that restores is alone.        *)
(***************************************************************************)
EXTENDS RestoreProofs, RowsRefinement

\* The session that a connection is.
Sess(c) == [open |-> IsOpen(c), scopes |-> c.scopes, view |-> c.view]

\* No restore is under way.
Settled == \A g \in Handles : call[g].op \notin Restoring

\* Where the committed database is, at rest and during a restore.
DataIs ==
  /\ Settled => PlaneData = IF base = None THEN Blank ELSE disk[base]
  /\ \A h \in Handles : call[h].op \in Restoring => PlaneData = kept[call[h].label]

LEMMA DataFacts == SInv => DataIs
<1> SUFFICES ASSUME SInv PROVE DataIs
  OBVIOUS
<1>1. ASSUME Settled
      PROVE  PlaneData = IF base = None THEN Blank ELSE disk[base]
  <2>1. base # None => disk[base] \in Sound
    BY DEF SInv, RInv, IInv, FilesSound, NoDebris
  <2> QED
    BY <2>1, <1>1, Markers DEF PlaneData, Settled, Filled
<1>2. ASSUME NEW h \in Handles, call[h].op \in Restoring
      PROVE  PlaneData = kept[call[h].label]
  <2>1. \A g \in Handles : call[g].op \in Restoring => g = h
    BY <1>2, BackupInPlace
  <2>2. (CHOOSE g \in Handles : call[g].op \in Restoring) = h
    BY <2>1, <1>2
  <2> QED
    BY <2>2, <1>2 DEF PlaneData
<1> QED
  BY <1>1, <1>2 DEF DataIs

LEMMA DataFactsNext == SInv' => DataIs'
BY DataFacts, PTL

\* What the handles see follows from the connection of the one that moves.
LEMMA TxnStep ==
  ASSUME NEW h \in Handles, Bystanders(h)
  PROVE  /\ PlaneTxn' = [PlaneTxn EXCEPT ![h] = Sess(conn'[h])]
         /\ PlaneTxn[h] = Sess(conn[h])
         /\ Sess(conn'[h]) = Sess(conn[h]) => PlaneTxn' = PlaneTxn
<1>1. PlaneTxn = [g \in Handles |-> Sess(conn[g])]
  BY DEF PlaneTxn, Sess
<1>2. PlaneTxn' = [g \in Handles |-> Sess(conn'[g])]
  BY DEF PlaneTxn, Sess
<1>3. \A g \in Handles \ {h} : Sess(conn'[g]) = Sess(conn[g])
  BY DEF Bystanders, Sess, IsOpen
<1> QED
  BY <1>1, <1>2, <1>3

\* A handle is open on base.db, which is all that is committed.
LEMMA OpenFacts ==
  ASSUME SInv, NEW h \in Handles, IsOpen(conn[h])
  PROVE  /\ Settled /\ IInv
         /\ base \in Inodes /\ base # None /\ conn[h].ino = base
         /\ PlaneData = Committed(h) /\ Committed(h) \in Sound /\ Readable(h)
         /\ GoodConn(conn[h], Committed(h)) /\ conn[h] \in Conns(Sound, ScopeNames)
<1>1. Settled /\ IInv
  BY NoneRestores DEF SInv, RInv, Settled
<1>2. conn[h].ino = base /\ base \in Inodes /\ base # None
  BY <1>1, HandleFacts, Markers DEF SInv, RInv, HandlesOnBase
<1>3. Committed(h) \in Sound
  <2>1. Committed(h) # None
    BY <1>1, HandleFacts, Markers DEF Files
  <2> QED
    BY <2>1, <1>2 DEF SInv, NoDebris, Committed
<1> QED
  BY <1>1, <1>2, <1>3, DataFacts, HandleFacts, Markers DEF DataIs, Committed, Readable

\* What a step of a row call, of a scope, of close or of a crash comes to.
LEMMA RowStepFacts ==
  ASSUME SInv, SInv', NEW h \in Handles, RowStep(h)
  PROVE  /\ PlaneData = Committed(h) /\ PlaneData' = disk'[conn[h].ino]
         /\ PlaneTxn' = [PlaneTxn EXCEPT ![h] = Sess(conn'[h])]
         /\ PlaneTxn[h] = Sess(conn[h])
         /\ Sess(conn'[h]) = Sess(conn[h]) => PlaneTxn' = PlaneTxn
         /\ UNCHANGED kept
<1>1. IsOpen(conn[h]) /\ Bystanders(h) /\ UNCHANGED <<base, kept>>
  BY DEF RowStep
<1>2. /\ Settled /\ conn[h].ino = base /\ base # None
      /\ PlaneData = Committed(h)
  BY <1>1, OpenFacts
<1>3. Settled'
  BY <1>2 DEF Settled, RowStep, Bystanders, Restoring
<1>4. PlaneData' = disk'[base]
  BY <1>1, <1>2, <1>3, DataFactsNext DEF DataIs
<1> QED
  BY <1>1, <1>2, <1>4, TxnStep

----------------------------------------------------------------------------
(* Sessions as values *)

\* The provers take these for values like any other while they are not expanded.
Up == TRUE
Down == FALSE

\* One field of a session is set.
LEMMA SessionSet ==
  ASSUME NEW r, NEW o, NEW s, NEW v, r = [open |-> o, scopes |-> s, view |-> v]
  PROVE  /\ r.scopes = s
         /\ \A t : [r EXCEPT !.open = t] = [open |-> t, scopes |-> s, view |-> v]
         /\ \A t : [r EXCEPT !.view = t] = [open |-> o, scopes |-> s, view |-> t]
         /\ \A t : [r EXCEPT !.scopes = t] = [open |-> o, scopes |-> t, view |-> v]
OBVIOUS

LEMMA SessOpen ==
  ASSUME NEW c, IsOpen(c)
  PROVE  Sess(c) = [open |-> Up, scopes |-> c.scopes, view |-> c.view]
<1>1. IsOpen(c) = Up
  BY Zenon DEF Up
<1> QED
  BY <1>1, Zenon DEF Sess

LEMMA SessConn ==
  ASSUME NEW i, i # None
  PROVE  Sess(Conn(i)) = Plane!Session
<1>1. IsOpen(Conn(i)) /\ Conn(i).scopes = <<>> /\ Conn(i).view = None
  BY DEF IsOpen, Conn
<1>2. Plane!Session = [open |-> Up, scopes |-> <<>>, view |-> None]
  BY Zenon DEF Plane!Session, Up
<1>3. Sess(Conn(i)) = [open |-> Up, scopes |-> Conn(i).scopes, view |-> Conn(i).view]
  BY <1>1, SessOpen
<1> QED
  BY <1>1, <1>2, <1>3, Zenon

LEMMA SessClosed == Sess(Closed) = Plane!NoSession
<1>1. ~IsOpen(Closed) /\ Closed.scopes = <<>> /\ Closed.view = None
  BY DEF IsOpen, Closed, Conn
<1>2. IsOpen(Closed) = FALSE
  BY <1>1, SMT
<1>3. Sess(Closed) = [open |-> Down, scopes |-> <<>>, view |-> None]
  <2>1. Sess(Closed) = [open |-> IsOpen(Closed), scopes |-> Closed.scopes, view |-> Closed.view]
    BY Zenon DEF Sess
  <2> QED
    BY <1>1, <1>2, <2>1, Zenon DEF Down
<1>4. Plane!Session = [open |-> Up, scopes |-> <<>>, view |-> None]
  BY Zenon DEF Plane!Session, Up
<1>5. Plane!NoSession = [Plane!Session EXCEPT !.open = Down]
  BY Zenon DEF Plane!NoSession, Down
<1>6. [Plane!Session EXCEPT !.open = Down] = [open |-> Down, scopes |-> <<>>, view |-> None]
  BY <1>4, SessionSet
<1> QED
  BY <1>3, <1>5, <1>6

\* The sessions f when h has another one, when that of h is cut back to its
\* first k - 1 scopes with view w, and when h has one more scope.
SessionAt(f, h, o, s, v) == [f EXCEPT ![h] = [open |-> o, scopes |-> s, view |-> v]]
CutAt(f, h, k, w) == [f EXCEPT ![h].view = w, ![h].scopes = SubSeq(@, 1, k - 1)]
AppendAt(f, h, e) == [f EXCEPT ![h].scopes = Append(@, e)]

LEMMA SessionCut ==
  ASSUME NEW f, NEW h \in DOMAIN f, NEW o, NEW s, NEW v, NEW w, NEW k,
         f[h] = [open |-> o, scopes |-> s, view |-> v]
  PROVE  CutAt(f, h, k, w) = SessionAt(f, h, o, SubSeq(s, 1, k - 1), w)
<1> DEFINE r == [f[h] EXCEPT !.view = w]
           g == [f EXCEPT ![h] = r]
<1>1. r = [open |-> o, scopes |-> s, view |-> w]
  BY SessionSet
<1>2. g = [f EXCEPT ![h].view = w] /\ g[h] = r /\ h \in DOMAIN g
  OBVIOUS
<1> HIDE DEF r
<1>3. [g[h] EXCEPT !.scopes = SubSeq(@, 1, k - 1)]
      = [open |-> o, scopes |-> SubSeq(s, 1, k - 1), view |-> w]
  <2>1. g[h] = [open |-> o, scopes |-> s, view |-> w]
    BY <1>1, <1>2
  <2>2. g[h].scopes = s
    BY <2>1
  <2> HIDE DEF g
  <2>3. \A t : [g[h] EXCEPT !.scopes = t] = [open |-> o, scopes |-> t, view |-> w]
    BY <2>1, SessionSet
  <2> QED
    BY <2>2, <2>3
<1>4. CutAt(f, h, k, w) = [g EXCEPT ![h].scopes = SubSeq(@, 1, k - 1)]
  BY <1>2 DEF CutAt
<1>5. [g EXCEPT ![h].scopes = SubSeq(@, 1, k - 1)]
      = [g EXCEPT ![h] = [g[h] EXCEPT !.scopes = SubSeq(@, 1, k - 1)]]
  OBVIOUS
<1> QED
  BY <1>3, <1>4, <1>5 DEF SessionAt

LEMMA SessionAppend ==
  ASSUME NEW f, NEW h \in DOMAIN f, NEW o, NEW s, NEW v, NEW e,
         f[h] = [open |-> o, scopes |-> s, view |-> v]
  PROVE  AppendAt(f, h, e) = SessionAt(f, h, o, Append(s, e), v)
<1>1. [f[h] EXCEPT !.scopes = Append(@, e)] = [open |-> o, scopes |-> Append(s, e), view |-> v]
  OBVIOUS
<1> QED
  BY <1>1 DEF AppendAt, SessionAt

\* The scopes outside k are those outside k of the first k.
LEMMA CutTwice ==
  ASSUME NEW S, NEW s \in Seq(S), NEW k \in 1 .. Len(s)
  PROVE  SubSeq(SubSeq(s, 1, k), 1, k - 1) = SubSeq(s, 1, k - 1)
<1> DEFINE q == SubSeq(s, 1, k)
<1>1. q \in Seq(S) /\ Len(q) = k /\ \A j \in 1 .. k : q[j] = s[j]
  BY SubSeqProperties
<1>2. /\ SubSeq(q, 1, k - 1) \in Seq(S) /\ Len(SubSeq(q, 1, k - 1)) = k - 1
      /\ \A j \in 1 .. k - 1 : SubSeq(q, 1, k - 1)[j] = s[j]
  BY <1>1, SubSeqProperties
<1>3. /\ SubSeq(s, 1, k - 1) \in Seq(S) /\ Len(SubSeq(s, 1, k - 1)) = k - 1
      /\ \A j \in 1 .. k - 1 : SubSeq(s, 1, k - 1)[j] = s[j]
  BY SubSeqProperties
<1> QED
  BY <1>2, <1>3, SeqEqual

----------------------------------------------------------------------------
(* Rows and scopes *)

\* The first statement in a scope is a look.
LEMMA LookedPinned ==
  ASSUME NEW c \in Conns(Sound, ScopeNames), InScope(c)
  PROVE  Plane!Looked(Sess(c)) = Sess(Pinned(c, PlaneData))
<1>1. CASE c.view = None
  BY <1>1 DEF Pinned, Plane!Looked, Sess, Conns, IsOpen
<1>2. CASE c.view # None
  BY <1>2 DEF Pinned, Plane!Looked, Sess
<1> QED
  BY <1>1, <1>2

\* A statement that only reads is a look, or nothing outside a scope.
LEMMA PinPlane ==
  ASSUME SInv, SInv', NEW h \in Handles, RowStep(h), UNCHANGED disk,
         conn'[h] = Pinned(conn[h], Committed(h))
  PROVE  Plane!LookUp(h) \/ UNCHANGED Plane!planeVars
<1>1. /\ PlaneData = Committed(h) /\ PlaneData' = PlaneData /\ UNCHANGED kept
      /\ PlaneTxn' = [PlaneTxn EXCEPT ![h] = Sess(conn'[h])]
      /\ PlaneTxn[h] = Sess(conn[h])
      /\ Sess(conn'[h]) = Sess(conn[h]) => PlaneTxn' = PlaneTxn
  BY RowStepFacts DEF Committed
<1>2. conn[h] \in Conns(Sound, ScopeNames)
  BY OpenFacts DEF RowStep
<1>3. CASE InScope(conn[h])
  <2>1. Plane!Looked(PlaneTxn[h]) = Sess(conn'[h])
    BY <1>1, <1>2, <1>3, LookedPinned
  <2>2. PlaneTxn[h].scopes # <<>>
    BY <1>1, <1>3 DEF Sess, InScope
  <2> QED
    BY <2>1, <2>2, <1>1 DEF Plane!LookUp
<1>4. CASE ~InScope(conn[h])
  <2>1. conn'[h] = conn[h]
    BY <1>4 DEF Pinned
  <2> QED
    BY <2>1, <1>1 DEF Plane!planeVars
<1> QED
  BY <1>3, <1>4

\* A write is one change of what the handle sees.
LEMMA WritePlane ==
  ASSUME SInv, SInv', NEW h \in Handles, RowStep(h), NEW new, NEW dirtied,
         Write(h, new, dirtied), \A g \in Handles \ {h} : call'[g] = call[g]
  PROVE  Plane!Change(h, new) /\ Plane!Look(h) = Seen(h)
<1>1. /\ PlaneData = Committed(h) /\ PlaneData' = disk'[conn[h].ino] /\ UNCHANGED kept
      /\ PlaneTxn' = [PlaneTxn EXCEPT ![h] = Sess(conn'[h])]
      /\ PlaneTxn[h] = Sess(conn[h])
      /\ Sess(conn'[h]) = Sess(conn[h]) => PlaneTxn' = PlaneTxn
  BY RowStepFacts
<1>2. /\ conn[h] \in Conns(Sound, ScopeNames) /\ IsOpen(conn[h]) /\ IInv
      /\ Committed(h) \in Sound /\ GoodConn(conn[h], Committed(h))
  BY OpenFacts DEF RowStep
<1>3. Plane!Look(h) = Seen(h)
  BY <1>1 DEF Plane!Look, Seen, Sees, Sess
<1>4. CASE InScope(conn[h])
  <2> DEFINE p == Pinned(conn[h], Committed(h))
             w == Wrote(p, new, dirtied)
  <2>1. conn' = [conn EXCEPT ![h] = w] /\ UNCHANGED disk
    BY <1>4 DEF Write
  <2>2. conn'[h] = w
    BY <2>1, <1>2, OthersStay
  <2>3. Plane!Looked(PlaneTxn[h]) = Sess(p) /\ p \in Conns(Sound, ScopeNames)
    BY <1>1, <1>2, <1>4, LookedPinned, PinnedGood DEF GoodConn
  <2> HIDE DEF p
  <2>4. Sess(w) = [Sess(p) EXCEPT !.view = new]
    BY <2>3 DEF Sess, Wrote, Conns, IsOpen
  <2>5. PlaneTxn[h].open /\ PlaneTxn[h].scopes # <<>>
    BY <1>1, <1>2, <1>4 DEF Sess, InScope
  <2> HIDE DEF w
  <2>6. PlaneTxn' = [PlaneTxn EXCEPT ![h] = [Plane!Looked(PlaneTxn[h]) EXCEPT !.view = new]]
    BY <1>1, <2>2, <2>3, <2>4
  <2>7. PlaneData' = PlaneData
    BY <1>1, <2>1 DEF Committed
  <2> QED
    BY <1>1, <1>3, <2>5, <2>6, <2>7 DEF Plane!Change
<1>5. CASE ~InScope(conn[h])
  <2>1. Publish(h, conn[h], new, dirtied)
    BY <1>5 DEF Write
  <2>2. conn'[h] = conn[h] /\ disk'[conn[h].ino] = new
    BY <2>1, <1>2, PublishEffect
  <2>3. PlaneTxn[h].open /\ PlaneTxn[h].scopes = <<>>
    BY <1>1, <1>2, <1>5 DEF Sess, InScope
  <2> QED
    BY <1>1, <1>3, <2>2, <2>3 DEF Plane!Change
<1> QED
  BY <1>4, <1>5

\* The end of scope k of connection c, which is that of h, rolled back or not.
LEMMA FinishPlane ==
  ASSUME SInv, SInv', NEW h \in Handles, RowStep(h), NEW c, NEW k \in DOMAIN c.scopes,
         GoodConn(c, Committed(h)), c.ino = conn[h].ino,
         EndScope(h, c, k), \A g \in Handles \ {h} : call'[g] = call[g],
         Start(c) = conn[h].scopes[1].saved,
         SubSeq(c.scopes, 1, k - 1) = SubSeq(conn[h].scopes, 1, k - 1)
  PROVE  Plane!Finish(h, k, c.view) /\ UNCHANGED kept
<1>1. /\ PlaneData = Committed(h) /\ PlaneData' = disk'[conn[h].ino] /\ UNCHANGED kept
      /\ PlaneTxn' = [PlaneTxn EXCEPT ![h] = Sess(conn'[h])]
      /\ PlaneTxn[h] = Sess(conn[h])
  BY RowStepFacts
<1>2. /\ IsOpen(conn[h]) /\ IInv /\ Readable(h) /\ Committed(h) \in Sound
      /\ c \in Conns(Sound, ScopeNames)
  BY OpenFacts DEF RowStep, GoodConn
<1>3. /\ conn'[h] = Released(c, k)
      /\ IF k = 1 /\ c.writer THEN disk'[conn[h].ino] = c.view ELSE UNCHANGED disk
  BY <1>2, EndScopeEffect
<1>4. CASE k = 1
  <2>1. Sess(conn'[h]) = Plane!Session
    <3>1. conn'[h] = Conn(c.ino) /\ c.ino # None
      BY <1>2, <1>3, <1>4 DEF Released, IsOpen
    <3> QED
      BY <3>1, SessConn
  <2>2. PlaneTxn[h].scopes[1].saved = Start(c)
    BY <1>1 DEF Sess
  <2>3. CASE c.writer
    <3>1. c.view # None /\ Start(c) = Committed(h)
      BY <1>2, <2>3, GoodScopes, Markers DEF GoodConn, Current
    <3>2. PlaneData' = c.view
      BY <1>1, <1>3, <1>4, <2>3
    <3> QED
      BY <1>1, <1>4, <2>1, <2>2, <3>1, <3>2 DEF Plane!Finish
  <2>4. CASE ~c.writer
    <3>1. PlaneData' = PlaneData
      BY <1>1, <1>3, <2>4 DEF Committed
    <3>2. c.view = Start(c)
      <4>1. CASE c.view = None
        BY <1>4, <4>1, GoodScopes DEF Start
      <4>2. CASE c.view # None
        BY <2>4, <4>2, GoodScopes DEF GoodConn, Clean
      <4> QED
        BY <4>1, <4>2
    <3> QED
      BY <1>1, <1>4, <2>1, <2>2, <3>1, <3>2 DEF Plane!Finish
  <2> QED
    BY <2>3, <2>4
<1>5. CASE k # 1
  <2>1. k \in Nat \ {0, 1}
    BY <1>2, <1>5, ConnFields
  <2>2. conn'[h].scopes = SubSeq(conn[h].scopes, 1, k - 1) /\ conn'[h].view = c.view
        /\ IsOpen(conn'[h])
    BY <1>2, <1>3, <1>5 DEF Released, Conns, IsOpen
  <2>3. PlaneData' = PlaneData
    BY <1>1, <1>3, <1>5 DEF Committed
  <2>4. /\ PlaneTxn[h] = [open |-> Up, scopes |-> conn[h].scopes, view |-> conn[h].view]
        /\ Sess(conn'[h]) = [open |-> Up, scopes |-> SubSeq(conn[h].scopes, 1, k - 1),
                             view |-> c.view]
    BY <1>1, <1>2, <2>2, SessOpen
  <2>5. h \in DOMAIN PlaneTxn
    BY DEF PlaneTxn
  <2>6. PlaneTxn' = [PlaneTxn EXCEPT ![h].view = c.view, ![h].scopes = SubSeq(@, 1, k - 1)]
    <3> DEFINE t == SubSeq(conn[h].scopes, 1, k - 1)
    <3>1. PlaneTxn' = SessionAt(PlaneTxn, h, Up, t, c.view)
      BY <1>1, <2>4 DEF SessionAt
    <3>2. CutAt(PlaneTxn, h, k, c.view) = SessionAt(PlaneTxn, h, Up, t, c.view)
      BY <2>4, <2>5, SessionCut
    <3> QED
      BY <3>1, <3>2 DEF CutAt
  <2>7. k > 1
    BY <2>1
  <2> QED
    BY <1>1, <2>3, <2>6, <2>7 DEF Plane!Finish
<1> QED
  BY <1>4, <1>5

\* The scope that SQLite ends is the one the name means.
LEMMA MeantInnermost ==
  ASSUME NEW h \in Handles, NEW n, NEW k \in DOMAIN conn[h].scopes,
         conn[h] \in Conns(Sound, ScopeNames), Innermost(conn[h], n, k),
         PlaneTxn[h] = Sess(conn[h])
  PROVE  k \in DOMAIN PlaneTxn[h].scopes /\ Plane!Meant(h, n, k)
<1>1. /\ DOMAIN conn[h].scopes = 1 .. Len(conn[h].scopes) /\ Len(conn[h].scopes) \in Nat
      /\ PlaneTxn[h].scopes = conn[h].scopes
  BY ConnFields DEF Sess
<1>2. \A j \in k + 1 .. Len(conn[h].scopes) : j \in DOMAIN conn[h].scopes /\ ~(j <= k)
  BY <1>1
<1> QED
  BY <1>1, <1>2 DEF Innermost, Plane!Meant

LEMMA ReleasePlane ==
  ASSUME SInv, SInv', NEW h \in Handles, NEW n \in ScopeNames, Release(h, n)
  PROVE  Plane!ReleaseScope(h, n)
<1>1. PICK k \in DOMAIN conn[h].scopes :
        Innermost(conn[h], n, k) /\ EndScope(h, conn[h], k)
  BY DEF Release
<1>2. RowStep(h) /\ IsOpen(conn[h]) /\ \A g \in Handles \ {h} : call'[g] = call[g]
  BY ReleaseStep DEF SInv, RInv, Release, Ready
<1>3. GoodConn(conn[h], Committed(h)) /\ conn[h] \in Conns(Sound, ScopeNames)
  BY <1>2, OpenFacts
<1>4. Plane!Finish(h, k, conn[h].view) /\ UNCHANGED kept
  <2>1. Start(conn[h]) = conn[h].scopes[1].saved /\ EndScope(h, conn[h], k)
    BY <1>1 DEF Start
  <2> QED
    BY <2>1, <1>2, <1>3, FinishPlane
<1>5. PlaneTxn[h] = Sess(conn[h]) /\ PlaneTxn[h].view = conn[h].view
  <2>1. PlaneTxn[h] = Sess(conn[h])
    BY <1>2, RowStepFacts
  <2> QED
    BY <2>1 DEF Sess
<1>6. k \in DOMAIN PlaneTxn[h].scopes /\ Plane!Meant(h, n, k)
  BY <1>1, <1>3, <1>5, MeantInnermost
<1> QED
  BY <1>4, <1>5, <1>6 DEF Plane!ReleaseScope

LEMMA RollbackPlane ==
  ASSUME SInv, SInv', NEW h \in Handles, NEW n \in ScopeNames, Rollback(h, n)
  PROVE  Plane!RollbackScope(h, n)
<1>1. PICK k \in DOMAIN conn[h].scopes :
        Innermost(conn[h], n, k) /\ EndScope(h, RolledBack(conn[h], k), k)
  BY DEF Rollback
<1> DEFINE c == RolledBack(conn[h], k)
           s == conn[h].scopes
<1>2. RowStep(h) /\ IsOpen(conn[h]) /\ \A g \in Handles \ {h} : call'[g] = call[g]
  BY RollbackStep DEF SInv, RInv, Rollback, Ready
<1>3. GoodConn(conn[h], Committed(h)) /\ conn[h] \in Conns(Sound, ScopeNames)
  BY <1>2, OpenFacts
<1>4. /\ GoodConn(c, Committed(h)) /\ c.ino = conn[h].ino /\ k \in DOMAIN c.scopes
      /\ c.view = s[k].saved /\ c.scopes = SubSeq(s, 1, k)
  BY <1>3, RolledBackGood DEF RolledBack, Conns
<1>5. Start(c) = s[1].saved /\ SubSeq(c.scopes, 1, k - 1) = SubSeq(s, 1, k - 1)
  <2>1. /\ k \in Nat \ {0} /\ DOMAIN SubSeq(s, 1, k) = 1 .. k
        /\ \A j \in 1 .. k : SubSeq(s, 1, k)[j] = s[j]
    <3>1. k \in Nat \ {0} /\ k > 0
      BY <1>3, ConnFields
    <3> QED
      BY <1>3, <3>1, ScopesCut
  <2>2. SubSeq(SubSeq(s, 1, k), 1, k - 1) = SubSeq(s, 1, k - 1)
    BY <1>3, ConnFields, CutTwice
  <2> QED
    BY <1>4, <2>1, <2>2 DEF Start
<1> HIDE DEF c
<1>6. EndScope(h, c, k)
  BY <1>1 DEF c
<1>7. Plane!Finish(h, k, c.view) /\ UNCHANGED kept
  BY <1>2, <1>4, <1>5, <1>6, FinishPlane
<1>8. PlaneTxn[h] = Sess(conn[h]) /\ PlaneTxn[h].scopes[k].saved = c.view
  <2>1. PlaneTxn[h] = Sess(conn[h])
    BY <1>2, RowStepFacts
  <2> QED
    BY <1>4, <2>1 DEF Sess
<1>9. k \in DOMAIN PlaneTxn[h].scopes /\ Plane!Meant(h, n, k)
  BY <1>1, <1>3, <1>8, MeantInnermost
<1> QED
  BY <1>7, <1>8, <1>9 DEF Plane!RollbackScope

LEMMA SavepointPlane ==
  ASSUME SInv, SInv', NEW h \in Handles, NEW n \in ScopeNames, Savepoint(h, n)
  PROVE  Plane!BeginScope(h, n)
<1> DEFINE c == Pushed(conn[h], n)
<1>1. /\ RowStep(h) /\ IsOpen(conn[h]) /\ IInv
      /\ conn' = [conn EXCEPT ![h] = c] /\ UNCHANGED <<disk, call>>
  BY SavepointStep DEF SInv, RInv, Savepoint, Ready
<1>2. /\ PlaneData = Committed(h) /\ PlaneData' = disk'[conn[h].ino] /\ UNCHANGED kept
      /\ PlaneTxn' = [PlaneTxn EXCEPT ![h] = Sess(conn'[h])]
      /\ PlaneTxn[h] = Sess(conn[h])
  BY <1>1, RowStepFacts
<1>3. conn[h] \in Conns(Sound, ScopeNames)
  BY <1>1, OpenFacts
<1> DEFINE e == [name |-> n, saved |-> conn[h].view]
<1>4. c.scopes = Append(conn[h].scopes, e) /\ c.view = conn[h].view /\ IsOpen(c)
  BY <1>1, <1>3 DEF Pushed, Conns, IsOpen
<1> HIDE DEF c
<1>5. conn'[h] = c
  BY <1>1, OthersStay
<1> HIDE DEF e
<1>6. /\ PlaneTxn[h] = [open |-> Up, scopes |-> conn[h].scopes, view |-> conn[h].view]
      /\ Sess(c) = [open |-> Up, scopes |-> Append(conn[h].scopes, e), view |-> conn[h].view]
      /\ h \in DOMAIN PlaneTxn
  BY <1>1, <1>2, <1>4, SessOpen DEF PlaneTxn
<1>7. PlaneTxn' = [PlaneTxn EXCEPT ![h].scopes = Append(@, e)]
  <2> DEFINE t == Append(conn[h].scopes, e)
  <2>1. PlaneTxn' = SessionAt(PlaneTxn, h, Up, t, conn[h].view)
    BY <1>2, <1>5, <1>6 DEF SessionAt
  <2>2. AppendAt(PlaneTxn, h, e) = SessionAt(PlaneTxn, h, Up, t, conn[h].view)
    BY <1>6, SessionAppend
  <2> QED
    BY <2>1, <2>2 DEF AppendAt
<1>8. PlaneTxn[h].open /\ PlaneTxn[h].view = conn[h].view
  BY <1>6 DEF Up
<1> QED
  BY <1>1, <1>2, <1>7, <1>8 DEF Plane!BeginScope, Committed, e

\* close, the end of the process, and a transaction that is lost.
LEMMA StopPlane ==
  ASSUME SInv, SInv', NEW h \in Handles, Close(h) \/ Crash(h)
  PROVE  Plane!Stop(h)
<1>1. RowStep(h) /\ Disconnect(h) /\ \A g \in Handles \ {h} : call'[g] = call[g]
  BY CloseStep, CallEffect DEF SInv, RInv, Close, Crash, Return
<1>2. /\ PlaneData = Committed(h) /\ PlaneData' = disk'[conn[h].ino] /\ UNCHANGED kept
      /\ PlaneTxn' = [PlaneTxn EXCEPT ![h] = Sess(conn'[h])]
  BY <1>1, RowStepFacts
<1>3. conn[h].ino = base /\ base \in Inodes /\ IInv
  BY <1>1, OpenFacts DEF RowStep
<1>4. conn'[h] = Closed /\ disk'[base] = disk[base]
  BY <1>1, <1>3, DisconnectEffect
<1> QED
  BY <1>2, <1>3, <1>4, SessClosed DEF Plane!Stop, Committed

LEMMA RowPlane ==
  ASSUME SInv, SInv', NEW h \in Handles, RowNext(h), "disk_full" \notin Faults
  PROVE  [Plane!PlaneNext]_(Plane!planeVars)
<1>1. RowStep(h) /\ IInv
  BY RowSteps DEF RowActions, SInv, RInv
<1>2. CASE Read(h)
  <2>1. conn'[h] = Pinned(conn[h], Committed(h)) /\ UNCHANGED disk
    BY <1>1, <1>2 DEF Read, IInv, HandlesTyped
  <2>2. Plane!LookUp(h) \/ UNCHANGED Plane!planeVars
    BY <1>1, <2>1, PinPlane
  <2> QED
    BY <2>2 DEF Plane!PlaneNext
<1>3. ASSUME NEW s \in Stores, Declare(h, s) PROVE [Plane!PlaneNext]_(Plane!planeVars)
  <2>1. /\ Write(h, Declared(Seen(h), s), s \notin Seen(h).stores)
        /\ \A g \in Handles \ {h} : call'[g] = call[g]
    BY <1>3 DEF Declare
  <2>2. Plane!DeclareStore(h, s)
    BY <1>1, <2>1, WritePlane DEF Plane!DeclareStore, Plane!Declared, Declared
  <2> QED
    BY <2>2 DEF Plane!PlaneNext
<1>4. ASSUME NEW s \in Stores, NEW k \in Keys, NEW v \in Values \cup {NoValue},
             RequireStore(h, s, k, v)
      PROVE  [Plane!PlaneNext]_(Plane!planeVars)
  <2>1. conn'[h] = Pinned(conn[h], Committed(h)) /\ UNCHANGED disk
    BY <1>1, <1>4 DEF RequireStore, IInv, HandlesTyped
  <2>2. Plane!LookUp(h) \/ UNCHANGED Plane!planeVars
    BY <1>1, <2>1, PinPlane
  <2> QED
    BY <2>2 DEF Plane!PlaneNext
<1>5. CASE WriteRow(h)
  <2> DEFINE w == call[h]
             new == WithRow(Seen(h), w.store, w.key, w.value)
             dirtied == Dirties(Seen(h), w.store, w.key, w.value)
  <2>1. Write(h, new, dirtied) /\ Begin(h, Idle) /\ call[h].op = "write"
    BY <1>5 DEF WriteRow, Return
  <2>2. /\ w.store \in Stores /\ w.key \in Keys /\ w.value \in Values \cup {NoValue}
        /\ w.store \in Seen(h).stores
    BY <1>1, <1>5, <2>1, HandleFacts, CallShapes, WrittenSound
  <2>3. \A g \in Handles \ {h} : call'[g] = call[g]
    BY <1>1, <2>1, CallEffect
  <2>4. Plane!Change(h, new) /\ Plane!Look(h) = Seen(h)
    <3> HIDE DEF new, dirtied
    <3> QED
      BY <1>1, <2>1, <2>3, WritePlane
  <2>5. Plane!SetRow(h, w.store, w.key, w.value)
    BY <2>2, <2>4 DEF Plane!SetRow, Plane!WithRow, WithRow
  <2> HIDE DEF w
  <2> QED
    BY <2>2, <2>5 DEF Plane!PlaneNext
<1>6. CASE RefuseRow(h) \/ BusyTimeout(h)
  <2>1. UNCHANGED <<disk, conn>>
    BY <1>6 DEF RefuseRow, BusyTimeout
  <2>2. UNCHANGED Plane!planeVars
    BY <1>1, <2>1, RowStepFacts DEF Plane!planeVars, Committed
  <2> QED
    BY <2>2
<1>7. CASE DiskFull(h)
  BY <1>7 DEF DiskFull
<1> QED
  BY <1>2, <1>3, <1>4, <1>5, <1>6, <1>7 DEF RowNext

----------------------------------------------------------------------------
(* Opening, snapshots and restores *)

\* A connection is opened, or is not, onto the same data.
LEMMA ConnectPlane ==
  ASSUME NEW h \in Handles, Bystanders(h), NEW i, conn'[h] = Conn(i),
         PlaneData' = PlaneData, UNCHANGED kept
  PROVE  Plane!Start(h) \/ Plane!Stop(h)
<1>1. PlaneTxn' = [PlaneTxn EXCEPT ![h] = Sess(conn'[h])]
  BY TxnStep
<1>2. CASE i = None
  <2>1. conn'[h] = Closed
    BY <1>2 DEF Closed
  <2>2. PlaneTxn' = [PlaneTxn EXCEPT ![h] = Plane!NoSession]
    BY <1>1, <2>1, SessClosed
  <2> QED
    BY <2>2 DEF Plane!Stop
<1>3. CASE i # None
  <2>1. PlaneTxn' = [PlaneTxn EXCEPT ![h] = Plane!Session]
    BY <1>1, <1>3, SessConn
  <2> QED
    BY <2>1 DEF Plane!Start
<1> QED
  BY <1>2, <1>3

\* Opening reads the data that is there, or creates the blank database that
\* a missing base.db stands for.
LEMMA OpenPlane ==
  ASSUME SoleRestore, SInv, SInv', NEW h \in Handles, Open(h)
  PROVE  Plane!Start(h) \/ Plane!Stop(h)
<1>1. /\ IInv /\ call[h] = Idle /\ OpenConnection(h) /\ UNCHANGED <<call, snaps, kept>>
      /\ Settled /\ Settled'
  BY CallShapes DEF Open, MayOpen, SInv, RInv, Settled
<1>2. /\ Bystanders(h)
      /\ conn'[h] \in {Conn(base'), Conn(None)}
      /\ base # None => base' = base
      /\ base = None /\ base' # None => disk'[base'] = Blank
      /\ base # None /\ disk[base] \in Database => disk'[base] = disk[base]
  BY <1>1, OpenEffect
<1>3. /\ PlaneData = IF base = None THEN Blank ELSE disk[base]
      /\ PlaneData' = IF base' = None THEN Blank ELSE disk'[base']
  BY <1>1, DataFacts, DataFactsNext DEF DataIs
<1>4. base # None => disk[base] \in Database
  BY <1>1, Markers DEF SInv, NoDebris, IInv, FilesSound
<1>5. PlaneData' = PlaneData
  BY <1>2, <1>3, <1>4
<1> QED
  BY <1>1, <1>2, <1>5, ConnectPlane

\* Removing the file of a label changes no answered backup.
LEMMA SnapshotRemovePlane ==
  ASSUME SInv, SInv', NEW h \in Handles, NEW l \in Labels, SnapshotRemove(h, l)
  PROVE  UNCHANGED Plane!planeVars
<1> DEFINE r == [op |-> "vacuum", label |-> l]
<1>1. /\ IInv /\ IsOpen(conn[h]) /\ Begin(h, r) /\ UNCHANGED <<base, disk, conn, kept>>
      /\ r.op \notin Restoring
  BY DEF SnapshotRemove, Ready, SInv, RInv, Restoring
<1> HIDE DEF r
<1>2. call'[h] = r /\ \A g \in Handles \ {h} : call'[g] = call[g]
  BY <1>1, CallEffect
<1>3. Settled /\ Settled'
  BY <1>1, <1>2, NoneRestores DEF SInv, Settled
<1>4. PlaneData' = PlaneData
  BY <1>1, <1>3, DataFacts, DataFactsNext DEF DataIs
<1> QED
  BY <1>1, <1>4 DEF Plane!planeVars, PlaneTxn

\* VACUUM INTO, answered, is a backup of what is committed.
LEMMA VacuumIntoPlane ==
  ASSUME "disk_full" \notin Faults, SInv, SInv', NEW h \in Handles, VacuumInto(h)
  PROVE  [Plane!PlaneNext]_(Plane!planeVars)
<1>1. /\ IsOpen(conn[h]) /\ ~InScope(conn[h])
      /\ call'[h] = Idle /\ \A g \in Handles \ {h} : call'[g] = call[g]
      /\ UNCHANGED <<base, disk, conn>>
  BY VacuumIntoEffect
<1>2. PICK l \in Labels : kept' \in {kept, [kept EXCEPT ![l] = Committed(h)]}
  BY VacuumIntoEffect
<1>3. Settled /\ PlaneData = Committed(h) /\ IInv
  BY <1>1, OpenFacts
<1>4. Settled'
  BY <1>1, <1>3, CallShapes DEF Settled
<1>5. PlaneData' = PlaneData /\ PlaneTxn' = PlaneTxn
  BY <1>1, <1>3, <1>4, DataFacts, DataFactsNext DEF DataIs, PlaneTxn
<1>6. CASE kept' = kept
  BY <1>5, <1>6 DEF Plane!planeVars
<1>7. CASE kept' = [kept EXCEPT ![l] = Committed(h)]
  <2>1. PlaneTxn[h].open /\ PlaneTxn[h].scopes = <<>>
    BY <1>1 DEF PlaneTxn, InScope
  <2>2. Plane!Backup(h, l)
    BY <1>3, <1>5, <1>7, <2>1 DEF Plane!Backup
  <2> QED
    BY <2>2 DEF Plane!PlaneNext
<1> QED
  BY <1>2, <1>6, <1>7

\* A restore takes effect when it closes the connection.
LEMMA RestoreBeginPlane ==
  ASSUME SoleRestore, SInv, SInv', NEW h \in Handles, NEW l \in Labels, RestoreBegin(h, l)
  PROVE  Plane!Restore(h, l)
<1> DEFINE r == [op |-> "unlink", label |-> l]
<1>1. /\ IInv /\ \A g \in Handles \ {h} : ~IsOpen(conn[g])
      /\ snaps[l] # None /\ Disconnect(h) /\ Begin(h, r) /\ UNCHANGED <<base, snaps, kept>>
      /\ r.op \in Restoring /\ r.label = l
  BY DEF RestoreBegin, SInv, RInv, Restoring
<1> HIDE DEF r
<1>2. call'[h] = r /\ \A g \in Handles \ {h} : call'[g] = call[g]
  BY <1>1, CallEffect
<1>3. conn'[h] = Closed /\ Bystanders(h)
  BY <1>1, <1>2, DisconnectEffect
<1>4. kept[l] # None
  BY <1>1 DEF SInv, NoDebris
<1>5. PlaneData' = kept[l]
  BY <1>1, <1>2, DataFactsNext DEF DataIs
<1>6. PlaneTxn' = [PlaneTxn EXCEPT ![h] = Plane!NoSession]
  BY <1>3, TxnStep, SessClosed
<1>7. \A g \in Handles \ {h} : ~PlaneTxn[g].open
  BY <1>1 DEF PlaneTxn
<1> QED
  BY <1>1, <1>4, <1>5, <1>6, <1>7 DEF Plane!Restore

\* The files that a restore removes and copies are not the data any more.
LEMMA RestoreFilesPlane ==
  ASSUME "disk_full" \notin Faults, SInv, SInv', NEW h \in Handles,
         RestoreUnlink(h) \/ RestoreCopy(h)
  PROVE  UNCHANGED Plane!planeVars
<1>1. /\ call[h].op \in Restoring /\ call'[h].op \in Restoring
      /\ call'[h].label = call[h].label /\ UNCHANGED <<conn, kept>>
  <2>1. CASE RestoreUnlink(h)
    <3>1. /\ call[h].op \in Restoring /\ Begin(h, [call[h] EXCEPT !.op = "copy"])
          /\ UNCHANGED <<conn, kept>>
      BY <2>1 DEF RestoreUnlink, Restoring
    <3> QED
      BY <3>1, NextOfRestore DEF Restoring
  <2>2. CASE RestoreCopy(h)
    BY <2>2, RestoreCopyEffect DEF Restoring
  <2> QED
    BY <2>1, <2>2
<1>2. PlaneData' = PlaneData
  BY <1>1, DataFacts, DataFactsNext DEF DataIs
<1> QED
  BY <1>1, <1>2 DEF Plane!planeVars, PlaneTxn

\* The restored database is opened as any other.
LEMMA RestoreOpenPlane ==
  ASSUME SInv, SInv', NEW h \in Handles, RestoreOpen(h)
  PROVE  Plane!Start(h) \/ Plane!Stop(h)
<1>1. /\ call[h].op \in Restoring /\ call'[h] = Idle /\ conn'[h] = Conn(base)
      /\ Bystanders(h) /\ base # None /\ base' = base
      /\ disk'[base] = kept[call[h].label] /\ UNCHANGED kept
  BY RestoreOpenEffect
<1>2. Settled'
  BY <1>1, BackupInPlace, CallShapes DEF Settled, Bystanders
<1>3. PlaneData' = PlaneData
  BY <1>1, <1>2, DataFacts, DataFactsNext DEF DataIs
<1> QED
  BY <1>1, <1>3, ConnectPlane

----------------------------------------------------------------------------
(* The refinement *)

LEMMA StepPlane ==
  ASSUME Careful, SInv, SInv', Next
  PROVE  [Plane!PlaneNext]_(Plane!planeVars)
<1>1. /\ SoleRestore /\ "disk_full" \notin Faults /\ "crash_in_file_call" \notin Faults
  BY DEF Careful
<1>2. ASSUME NEW h \in Handles, Close(h) \/ Crash(h) PROVE [Plane!PlaneNext]_(Plane!planeVars)
  BY <1>2, StopPlane DEF Plane!PlaneNext
<1>3. ASSUME NEW h \in Handles, NEW n \in ScopeNames,
             Savepoint(h, n) \/ Release(h, n) \/ Rollback(h, n)
      PROVE  [Plane!PlaneNext]_(Plane!planeVars)
  BY <1>3, SavepointPlane, ReleasePlane, RollbackPlane DEF Plane!PlaneNext
<1>4. ASSUME NEW h \in Handles, RowNext(h) PROVE [Plane!PlaneNext]_(Plane!planeVars)
  BY <1>1, <1>4, RowPlane
<1>5. ASSUME NEW h \in Handles, Open(h) \/ RestoreOpen(h)
      PROVE  [Plane!PlaneNext]_(Plane!planeVars)
  BY <1>1, <1>5, OpenPlane, RestoreOpenPlane DEF Plane!PlaneNext
<1>6. ASSUME NEW h \in Handles, NEW l \in Labels, SnapshotRemove(h, l)
      PROVE  [Plane!PlaneNext]_(Plane!planeVars)
  BY <1>6, SnapshotRemovePlane
<1>7. ASSUME NEW h \in Handles, VacuumInto(h) PROVE [Plane!PlaneNext]_(Plane!planeVars)
  BY <1>1, <1>7, VacuumIntoPlane
<1>8. ASSUME NEW h \in Handles, NEW l \in Labels, RestoreBegin(h, l)
      PROVE  [Plane!PlaneNext]_(Plane!planeVars)
  BY <1>1, <1>8, RestoreBeginPlane DEF Plane!PlaneNext
<1>9. ASSUME NEW h \in Handles, RestoreUnlink(h) \/ RestoreCopy(h)
      PROVE  [Plane!PlaneNext]_(Plane!planeVars)
  BY <1>1, <1>9, RestoreFilesPlane
<1>10. ASSUME NEW h \in Handles, CrashInSnapshot(h) \/ CrashInRestore(h)
       PROVE  [Plane!PlaneNext]_(Plane!planeVars)
  BY <1>1, <1>10 DEF CrashInSnapshot, CrashInRestore
<1> QED
  BY <1>2, <1>3, <1>4, <1>5, <1>6, <1>7, <1>8, <1>9, <1>10, StepKinds DEF RowActions

LEMMA InitPlane == Init => Plane!PlaneInit
<1> SUFFICES ASSUME Init PROVE Plane!PlaneInit
  OBVIOUS
<1>1. PlaneData = Blank
  BY CallShapes DEF Init, PlaneData
<1>2. PlaneTxn = [h \in Handles |-> Plane!NoSession]
  <2>1. PlaneTxn = [h \in Handles |-> Sess(conn[h])]
    BY DEF PlaneTxn, Sess
  <2>2. \A h \in Handles : Sess(conn[h]) = Plane!NoSession
    BY SessClosed DEF Init
  <2> QED
    BY <2>1, <2>2
<1> QED
  BY <1>1, <1>2 DEF Init, Plane!PlaneInit, Plane!Blank, Blank

\* What the handles do with their locks, stale snapshots, separate statements and
\* files is, to the callers, one database with optimistic snapshot transactions and
\* exact backups (store.cpp: SQLite's SAVEPOINT, VACUUM INTO, and the restore that
\* unlinks and copies), when nobody restores under another handle or snapshots
\* inside a scope and no file call is cut short.
THEOREM RowsImplementDataPlane ==
  ASSUME SoleRestore, ~ScopedSnapshots, Faults \subseteq {"crash"}
  PROVE  Spec => ImplementsDataPlane
<1>0. Careful
  BY DEF Careful
<1>1. Init => Plane!PlaneInit
  BY InitPlane
<1>2. SInv /\ SInv' /\ [Next]_handleVars => [Plane!PlaneNext]_(Plane!planeVars)
  <2> SUFFICES ASSUME SInv, SInv', [Next]_handleVars
               PROVE  [Plane!PlaneNext]_(Plane!planeVars)
    OBVIOUS
  <2>1. CASE Next
    BY <1>0, <2>1, StepPlane
  <2>2. CASE UNCHANGED handleVars
    BY <2>2 DEF handleVars, Plane!planeVars, PlaneData, PlaneTxn
  <2> QED
    BY <2>1, <2>2
<1>3. Spec => []SInv
  BY <1>0, SInductive
<1> QED
  BY <1>1, <1>2, <1>3, PTL DEF Spec, ImplementsDataPlane, Plane!PlaneSpec
=============================================================================
