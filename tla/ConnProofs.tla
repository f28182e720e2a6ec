----------------------------- MODULE ConnProofs -----------------------------
(***************************************************************************)
(* Every operation on a connection keeps it good: the lemmas about         *)
(* SqliteConnection that the proofs about Rows rest on.                    *)
(***************************************************************************)
EXTENDS RowsInvariant, TLAPS, SequenceTheorems

\* The debris a file can hold is no database, and neither is None.
LEMMA Markers ==
  /\ None \notin Sound /\ Hollow \notin Sound /\ Torn \notin Sound
  /\ Hollow # Torn /\ Hollow # None /\ Torn # None
  /\ None \notin Inodes /\ Sound \subseteq Database
BY MarkerAssumption, NoneAssumption DEF Sound

\* A function on 1 .. n is a sequence.
LEMMA FunctionIsSeq ==
  ASSUME NEW S, NEW n \in Nat, NEW q \in [1 .. n -> S]
  PROVE  q \in Seq(S)
<1>1. Seq(S) = UNION {[1 .. m -> S] : m \in Nat}
  BY SeqDef
<1> QED
  BY <1>1, Zenon

\* A connection just opened, or whose transaction ended, is good.
LEMMA ConnGood ==
  ASSUME NEW i \in Inodes \cup {None}, NEW d, i # None => d # None
  PROVE  GoodConn(Conn(i), d)
<1> DEFINE c == Conn(i)
<1>1. c.scopes \in Seq([name : ScopeNames, saved : Sound \cup {None}])
  BY DEF Conn
<1>2. c \in Conns(Sound, ScopeNames)
  BY <1>1 DEF Conn, Conns
<1>3. Held(c, d)
  BY DEF Held, IsOpen, Conn, Closed
<1>4. Saves(c) = {}
  BY DEF Saves, Conn
<1>5. c.view = None /\ c.writer = FALSE /\ c.dirty = FALSE /\ c.stale = FALSE
  BY DEF Conn
<1> QED
  BY <1>2, <1>3, <1>4, <1>5 DEF GoodConn, Scoped, Current, Clean, Grows

\* What belongs to the fields of a good connection.
LEMMA ConnFields ==
  ASSUME NEW c \in Conns(Sound, ScopeNames)
  PROVE  /\ c.ino \in Inodes \cup {None}
         /\ c.scopes \in Seq([name : ScopeNames, saved : Sound \cup {None}])
         /\ c.view \in Sound \cup {None}
         /\ c.writer \in BOOLEAN /\ c.dirty \in BOOLEAN /\ c.stale \in BOOLEAN
         /\ DOMAIN c.scopes = 1 .. Len(c.scopes) /\ Len(c.scopes) \in Nat
         /\ InScope(c) <=> 1 \in DOMAIN c.scopes
         /\ \A k \in DOMAIN c.scopes :
              /\ c.scopes[k] \in [name : ScopeNames, saved : Sound \cup {None}]
              /\ c.scopes[k].saved \in Saves(c)
         /\ Saves(c) \subseteq Sound \cup {None}
<1>1. c.scopes \in Seq([name : ScopeNames, saved : Sound \cup {None}])
  BY DEF Conns
<1>2. /\ DOMAIN c.scopes = 1 .. Len(c.scopes) /\ Len(c.scopes) \in Nat
      /\ \A k \in DOMAIN c.scopes :
           c.scopes[k] \in [name : ScopeNames, saved : Sound \cup {None}]
  BY <1>1, LenProperties, ElementOfSeq
<1>3. InScope(c) <=> 1 \in DOMAIN c.scopes
  <2>1. c.scopes = <<>> => Len(c.scopes) = 0
    BY EmptySeq
  <2> QED
    BY <1>1, <1>2, <2>1, EmptySeq DEF InScope
<1>4. Saves(c) \subseteq Sound \cup {None}
  BY <1>2 DEF Saves
<1> QED
  BY <1>1, <1>2, <1>3, <1>4 DEF Conns, Saves

\* What GoodConn says of a scope: with a snapshot, every content it saved is a
\* database; without one, none is saved.
LEMMA GoodScopes ==
  ASSUME NEW c, NEW d, GoodConn(c, d)
  PROVE  /\ c \in Conns(Sound, ScopeNames)
         /\ c.view # None => c.view \in Sound /\ InScope(c) /\ Start(c) \in Sound
         /\ c.view # None => \A k \in DOMAIN c.scopes : c.scopes[k].saved \in Sound
         /\ c.view = None => \A k \in DOMAIN c.scopes : c.scopes[k].saved = None
         /\ ~InScope(c) => c.view = None
         /\ c.writer => c.view # None
         /\ c.stale => c.view # None
         /\ c.dirty => c.writer
<1>1. c \in Conns(Sound, ScopeNames) /\ Scoped(c)
  BY DEF GoodConn
<1> QED
  BY <1>1, ConnFields DEF Scoped, Start, Saves

\* Another handle's commit makes a reader's snapshot stale, and no worse.
LEMMA StaledGood ==
  ASSUME NEW c, NEW d, GoodConn(c, d), ~c.writer, c.view # None,
         NEW e \in Sound
  PROVE  GoodConn([c EXCEPT !.stale = TRUE], e)
<1> DEFINE s == [c EXCEPT !.stale = TRUE]
<1>1. c \in Conns(Sound, ScopeNames)
  BY DEF GoodConn
<1>2. /\ s \in Conns(Sound, ScopeNames)
      /\ s.ino = c.ino /\ s.scopes = c.scopes /\ s.view = c.view
      /\ s.writer = c.writer /\ s.dirty = c.dirty /\ s.stale = TRUE
  BY <1>1 DEF Conns
<1>3. IsOpen(c)
  BY DEF GoodConn, Held, IsOpen, Closed, Conn
<1>4. Held(s, e)
  BY <1>2, <1>3, Markers DEF Held, IsOpen
<1>5. Scoped(s) /\ Clean(s) /\ Grows(s)
  BY <1>2 DEF GoodConn, Scoped, Clean, Grows, Saves, Start, InScope
<1>6. Current(s, e)
  BY <1>2, Markers DEF Current, Start
<1> QED
  BY <1>2, <1>4, <1>5, <1>6 DEF GoodConn

\* Without a snapshot, what the file comes to hold does not matter.
LEMMA UnviewedGood ==
  ASSUME NEW c, NEW d, GoodConn(c, d), c.view = None, NEW e, e # None
  PROVE  GoodConn(c, e)
BY DEF GoodConn, Held, Current

\* Nor does a file that is overwritten: nothing is read from it again.
LEMMA TornGood ==
  ASSUME NEW c, NEW d, GoodConn(c, d)
  PROVE  GoodConn(c, Torn)
BY Markers DEF GoodConn, Held, Current

\* The first statement in a scope takes the snapshot of what the file holds.
LEMMA PinnedGood ==
  ASSUME NEW c, NEW d \in Sound, GoodConn(c, d)
  PROVE  /\ GoodConn(Pinned(c, d), d)
         /\ InScope(Pinned(c, d)) <=> InScope(c)
         /\ InScope(c) => Pinned(c, d).view = Sees(c, d) /\ Pinned(c, d).view # None
         /\ Pinned(c, d).ino = c.ino /\ Pinned(c, d).writer = c.writer
         /\ Pinned(c, d).stale = c.stale
         /\ ~InScope(c) => Pinned(c, d) = c
         /\ c.view # None => Pinned(c, d) = c
         /\ Sees(Pinned(c, d), d) = Sees(c, d)
<1> DEFINE p == Pinned(c, d)
           q == [k \in DOMAIN c.scopes |-> [c.scopes[k] EXCEPT !.saved = d]]
<1>0. c \in Conns(Sound, ScopeNames) /\ d # None
  BY Markers DEF GoodConn
<1>1. CASE ~(InScope(c) /\ c.view = None)
  <2>1. p = c
    BY <1>1 DEF Pinned
  <2> QED
    BY <2>1, <1>1, <1>0, GoodScopes DEF Sees
<1>2. CASE InScope(c) /\ c.view = None
  <2>1. p = [c EXCEPT !.view = d, !.scopes = q]
    BY <1>2 DEF Pinned
  <2>2. /\ DOMAIN q = 1 .. Len(c.scopes) /\ Len(c.scopes) \in Nat \ {0}
        /\ \A k \in DOMAIN q : q[k] \in [name : ScopeNames, saved : Sound \cup {None}]
                              /\ q[k].saved = d
    BY <1>0, <1>2, ConnFields, EmptySeq
  <2>3. q \in Seq([name : ScopeNames, saved : Sound \cup {None}])
    <3>1. q \in [1 .. Len(c.scopes) -> [name : ScopeNames, saved : Sound \cup {None}]]
      BY <2>2
    <3> QED
      BY <3>1, <2>2, FunctionIsSeq
  <2>4. q # <<>>
    <3>1. 1 \in DOMAIN q
      BY <2>2
    <3>2. DOMAIN <<>> = {}
      OBVIOUS
    <3> QED
      BY <3>1, <3>2
  <2>5. /\ p \in Conns(Sound, ScopeNames)
        /\ p.ino = c.ino /\ p.scopes = q /\ p.view = d
        /\ p.writer = c.writer /\ p.dirty = c.dirty /\ p.stale = c.stale
    BY <2>1, <2>3, <1>0 DEF Conns
  <2>6. Saves(p) = {d} /\ Start(p) = d /\ InScope(p)
    BY <2>2, <2>4, <2>5 DEF Saves, Start, InScope
  <2>7. Held(p, d)
    <3>1. IsOpen(c)
      BY <1>2 DEF GoodConn, Held, InScope, Closed, Conn
    <3> QED
      BY <3>1, <2>5, <1>0 DEF Held, IsOpen
  <2>8. Scoped(p) /\ Clean(p) /\ Grows(p) /\ Current(p, d)
    BY <2>5, <2>6, <1>0, <1>2, Markers DEF Scoped, Clean, Grows, Current, GoodConn
  <2> QED
    BY <2>5, <2>6, <2>7, <2>8, <1>0, <1>2 DEF GoodConn, Sees
<1> QED
  BY <1>1, <1>2

\* SAVEPOINT opens one more scope over what the connection sees.
LEMMA PushedGood ==
  ASSUME NEW c, NEW d, GoodConn(c, d), IsOpen(c), NEW n \in ScopeNames
  PROVE  /\ GoodConn(Pushed(c, n), d)
         /\ Pushed(c, n).ino = c.ino /\ Pushed(c, n).view = c.view
         /\ Pushed(c, n).writer = c.writer
<1> DEFINE p == Pushed(c, n)
           top == [name |-> n, saved |-> c.view]
<1>0. c \in Conns(Sound, ScopeNames)
  BY DEF GoodConn
<1>1. /\ Append(c.scopes, top) \in Seq([name : ScopeNames, saved : Sound \cup {None}])
      /\ Len(Append(c.scopes, top)) = Len(c.scopes) + 1
      /\ \A k \in 1 .. Len(c.scopes) : Append(c.scopes, top)[k] = c.scopes[k]
      /\ Append(c.scopes, top)[Len(c.scopes) + 1] = top
      /\ Append(c.scopes, top) # <<>>
      /\ Len(c.scopes) \in Nat
  <2>1. top \in [name : ScopeNames, saved : Sound \cup {None}]
    BY <1>0, ConnFields
  <2>2. c.scopes \in Seq([name : ScopeNames, saved : Sound \cup {None}])
    BY <1>0, ConnFields
  <2> QED
    BY <2>1, <2>2, AppendProperties
<1>2. /\ p \in Conns(Sound, ScopeNames)
      /\ p.ino = c.ino /\ p.scopes = Append(c.scopes, top) /\ p.view = c.view
      /\ p.writer = c.writer /\ p.dirty = c.dirty /\ p.stale = c.stale
  BY <1>0, <1>1 DEF Conns, Pushed
<1>3. DOMAIN p.scopes = 1 .. Len(c.scopes) + 1 /\ DOMAIN c.scopes = 1 .. Len(c.scopes)
  BY <1>0, <1>1, <1>2, LenProperties, ConnFields
<1>4. Saves(p) = Saves(c) \cup {c.view}
  <2>1. \A v \in Saves(p) : v \in Saves(c) \cup {c.view}
    BY <1>1, <1>2, <1>3 DEF Saves
  <2>2. \A v \in Saves(c) \cup {c.view} : v \in Saves(p)
    <3>1. \A k \in DOMAIN c.scopes : p.scopes[k] = c.scopes[k] /\ k \in DOMAIN p.scopes
      BY <1>1, <1>2, <1>3
    <3>2. p.scopes[Len(c.scopes) + 1].saved = c.view /\ Len(c.scopes) + 1 \in DOMAIN p.scopes
      BY <1>1, <1>2, <1>3
    <3> QED
      BY <3>1, <3>2 DEF Saves
  <2> QED
    BY <2>1, <2>2
<1>5. InScope(c) => Start(p) = Start(c)
  BY <1>0, <1>1, <1>2, <1>3, ConnFields DEF Start
<1>6. InScope(p)
  BY <1>1, <1>2 DEF InScope
<1>7. c.view # None => InScope(c)
  BY GoodScopes
<1>8. Held(p, d)
  BY <1>2 DEF GoodConn, Held, IsOpen
<1>9. Scoped(p) /\ Current(p, d)
  BY <1>2, <1>4, <1>5, <1>6, <1>7 DEF GoodConn, Scoped, Current
<1>10. Clean(p) /\ Grows(p)
  BY <1>2, <1>4, <1>5, <1>7 DEF GoodConn, Clean, Grows
<1> QED
  BY <1>2, <1>8, <1>9, <1>10 DEF GoodConn

\* A statement may write what adds stores to the view, onto a snapshot that
\* is current, and says whether it changed anything.
LEMMA WroteGood ==
  ASSUME NEW c, NEW d, GoodConn(c, d), c.view # None, c.writer \/ ~c.stale,
         NEW new \in Sound, c.view.stores \subseteq new.stores,
         NEW dirtied \in BOOLEAN, ~dirtied => new = c.view
  PROVE  /\ GoodConn(Wrote(c, new, dirtied), d)
         /\ Wrote(c, new, dirtied).ino = c.ino /\ Wrote(c, new, dirtied).view = new
<1> DEFINE w == Wrote(c, new, dirtied)
<1>1. c \in Conns(Sound, ScopeNames) /\ new # None
  BY Markers DEF GoodConn
<1>2. /\ w \in Conns(Sound, ScopeNames)
      /\ w.ino = c.ino /\ w.scopes = c.scopes /\ w.view = new
      /\ w.writer = TRUE /\ (w.dirty <=> c.dirty \/ dirtied) /\ w.stale = c.stale
  BY <1>1 DEF Conns, Wrote
<1>3. Saves(w) = Saves(c) /\ Start(w) = Start(c) /\ (InScope(w) <=> InScope(c))
  BY <1>2 DEF Saves, Start, InScope
<1>4. IsOpen(c)
  BY DEF GoodConn, Held, Closed, Conn
<1>5. Held(w, d) /\ Scoped(w)
  BY <1>1, <1>2, <1>3, <1>4 DEF GoodConn, Held, Scoped, IsOpen
<1>6. Current(w, d)
  BY <1>1, <1>2, <1>3 DEF GoodConn, Current
<1>7. Clean(w)
  BY <1>1, <1>2, <1>3 DEF GoodConn, Clean
<1>8. Grows(w)
  BY <1>1, <1>2, <1>3 DEF GoodConn, Grows
<1> QED
  BY <1>2, <1>5, <1>6, <1>7, <1>8 DEF GoodConn

\* The scopes that stay open after one is ended.
LEMMA ScopesCut ==
  ASSUME NEW c \in Conns(Sound, ScopeNames), NEW k \in DOMAIN c.scopes,
         NEW m \in {k - 1, k}, m > 0
  PROVE  /\ SubSeq(c.scopes, 1, m) \in Seq([name : ScopeNames, saved : Sound \cup {None}])
         /\ DOMAIN SubSeq(c.scopes, 1, m) = 1 .. m
         /\ \A j \in 1 .. m : SubSeq(c.scopes, 1, m)[j] = c.scopes[j] /\ j \in DOMAIN c.scopes
         /\ SubSeq(c.scopes, 1, m) # <<>>
         /\ m \in Nat \ {0}
<1> DEFINE S == [name : ScopeNames, saved : Sound \cup {None}]
           q == SubSeq(c.scopes, 1, m)
<1>1. /\ c.scopes \in Seq(S) /\ DOMAIN c.scopes = 1 .. Len(c.scopes) /\ Len(c.scopes) \in Nat
      /\ \A j \in DOMAIN c.scopes : c.scopes[j] \in S
  BY ConnFields
<1>2. m \in Nat \ {0} /\ m <= Len(c.scopes)
  BY <1>1
<1>3. \A j \in 1 .. m : j \in DOMAIN c.scopes /\ c.scopes[j] \in S
  BY <1>1, <1>2
<1>4. /\ q \in Seq(S) /\ Len(q) = m
      /\ \A j \in 1 .. m : q[j] = c.scopes[j]
  <2>1. /\ q \in Seq(S)
        /\ Len(q) = IF 1 <= m THEN m - 1 + 1 ELSE 0
        /\ \A j \in 1 .. m - 1 + 1 : q[j] = c.scopes[1 + j - 1]
    <3> HIDE DEF S
    <3> QED
      BY <1>2, <1>3, SubSeqProperties
  <2> HIDE DEF S, q
  <2> QED
    BY <2>1, <1>2
<1>5. DOMAIN q = 1 .. m
  BY <1>4, LenProperties
<1>6. q # <<>>
  BY <1>4, <1>2, EmptySeq
<1> QED
  BY <1>2, <1>3, <1>4, <1>5, <1>6

\* ROLLBACK TO keeps a connection good: the view is what scope k saved.
LEMMA RolledBackGood ==
  ASSUME NEW c, NEW d, GoodConn(c, d), NEW k \in DOMAIN c.scopes
  PROVE  /\ GoodConn(RolledBack(c, k), d) /\ k \in DOMAIN RolledBack(c, k).scopes
         /\ RolledBack(c, k).ino = c.ino /\ RolledBack(c, k).writer = c.writer
         /\ RolledBack(c, k).view = c.scopes[k].saved
<1> DEFINE r == RolledBack(c, k)
           q == SubSeq(c.scopes, 1, k)
<1>1. c \in Conns(Sound, ScopeNames)
  BY DEF GoodConn
<1>2. /\ q \in Seq([name : ScopeNames, saved : Sound \cup {None}])
      /\ DOMAIN q = 1 .. k
      /\ \A j \in 1 .. k : q[j] = c.scopes[j] /\ j \in DOMAIN c.scopes
      /\ q # <<>> /\ k \in Nat \ {0}
  <2>1. k > 0
    BY <1>1, ConnFields
  <2> QED
    BY <2>1, <1>1, ScopesCut
<1>3. /\ r \in Conns(Sound, ScopeNames)
      /\ r.ino = c.ino /\ r.scopes = q /\ r.view = c.scopes[k].saved
      /\ r.writer = c.writer /\ r.dirty = c.dirty /\ r.stale = c.stale
  <2>1. c.scopes[k].saved \in Sound \cup {None}
    BY <1>1, ConnFields
  <2> QED
    BY <2>1, <1>1, <1>2 DEF RolledBack, Conns
<1>4. Saves(r) \subseteq Saves(c) /\ c.scopes[k].saved \in Saves(r)
  BY <1>2, <1>3 DEF Saves
<1>5. Start(r) = Start(c) /\ Start(c) \in Saves(r) /\ InScope(r) /\ InScope(c)
  <2>1. 1 \in DOMAIN q /\ 1 \in DOMAIN c.scopes /\ q[1] = c.scopes[1]
    BY <1>2
  <2>2. InScope(c) /\ InScope(r)
    BY <1>1, <1>2, <1>3, <2>1, ConnFields DEF InScope
  <2> QED
    BY <1>3, <2>1, <2>2 DEF Start, Saves
<1>6. r.view # None <=> c.view # None
  BY <1>1, <1>3, GoodScopes, Markers
<1>7. Held(r, d)
  <2>1. IsOpen(c)
    BY <1>5 DEF GoodConn, Held, InScope, Closed, Conn
  <2> QED
    BY <2>1, <1>3 DEF GoodConn, Held, IsOpen
<1>8. Scoped(r) /\ Current(r, d)
  BY <1>3, <1>4, <1>5, <1>6 DEF GoodConn, Scoped, Current
<1>9. Clean(r) /\ Grows(r)
  BY <1>3, <1>4, <1>5, <1>6 DEF GoodConn, Clean, Grows
<1> QED
  BY <1>2, <1>3, <1>7, <1>8, <1>9 DEF GoodConn

\* RELEASE of an inner scope keeps a connection good.
LEMMA ReleasedGood ==
  ASSUME NEW c, NEW d, GoodConn(c, d), NEW k \in DOMAIN c.scopes, k # 1
  PROVE  /\ GoodConn(Released(c, k), d)
         /\ Released(c, k).ino = c.ino /\ Released(c, k).writer = c.writer
         /\ Released(c, k).view = c.view
<1> DEFINE r == Released(c, k)
           q == SubSeq(c.scopes, 1, k - 1)
<1>1. c \in Conns(Sound, ScopeNames)
  BY DEF GoodConn
<1>2. /\ q \in Seq([name : ScopeNames, saved : Sound \cup {None}])
      /\ DOMAIN q = 1 .. k - 1
      /\ \A j \in 1 .. k - 1 : q[j] = c.scopes[j] /\ j \in DOMAIN c.scopes
      /\ q # <<>> /\ k - 1 \in Nat \ {0}
  <2>1. k - 1 > 0
    BY <1>1, ConnFields
  <2> QED
    BY <2>1, <1>1, ScopesCut
<1>3. /\ r \in Conns(Sound, ScopeNames)
      /\ r.ino = c.ino /\ r.scopes = q /\ r.view = c.view
      /\ r.writer = c.writer /\ r.dirty = c.dirty /\ r.stale = c.stale
  BY <1>1, <1>2 DEF Released, Conns
<1>4. Saves(r) \subseteq Saves(c)
  BY <1>2, <1>3 DEF Saves
<1>5. Start(r) = Start(c) /\ Start(c) \in Saves(r) /\ InScope(r) /\ InScope(c)
  <2>1. 1 \in DOMAIN q /\ 1 \in DOMAIN c.scopes /\ q[1] = c.scopes[1]
    BY <1>2
  <2>2. InScope(c) /\ InScope(r)
    BY <1>1, <1>2, <1>3, <2>1, ConnFields DEF InScope
  <2> QED
    BY <1>3, <2>1, <2>2 DEF Start, Saves
<1>6. Held(r, d)
  <2>1. IsOpen(c)
    BY <1>5 DEF GoodConn, Held, InScope, Closed, Conn
  <2> QED
    BY <2>1, <1>3 DEF GoodConn, Held, IsOpen
<1>7. Scoped(r) /\ Current(r, d)
  BY <1>3, <1>4, <1>5 DEF GoodConn, Scoped, Current
<1>8. Clean(r) /\ Grows(r)
  BY <1>3, <1>4, <1>5 DEF GoodConn, Clean, Grows
<1> QED
  BY <1>3, <1>6, <1>7, <1>8 DEF GoodConn
=============================================================================
