------------------------------ MODULE AbiProofs ------------------------------
(***************************************************************************)
(* A host that gives a store to one thread at a time, and opens one store  *)
(* at a time, is told the reason of each failure and never uses a handle   *)
(* after its close: for every number of threads, stores and reasons.       *)
(***************************************************************************)
EXTENDS Abi, TLAPS

----------------------------------------------------------------------------
(* The inductive invariant *)

Typed ==
  /\ held \in [Stores -> BOOLEAN] /\ alive \in [Stores -> BOOLEAN]
  /\ error \in [Stores -> Reasons \cup {None}]
  /\ globalError \in Reasons \cup {None}
  /\ task \in [Threads -> Idle \cup Tasks]

\* Two threads at work have different stores, and not both open one.
Apart(j, k) == j.store # k.store /\ {j.op, k.op} # {"open"}

Serial == \A t, u \in Threads : t # u /\ Using(t) /\ Using(u) => Apart(task[t], task[u])

\* What a thread is at agrees with the string that it will be told, or was.
Honest(k) ==
  /\ k.at = "idle" => k.told = IF k.reason = Exhausted THEN Unsaid ELSE k.reason
  /\ k.at # "idle" => ~k.torn
  /\ k.at = "ask" => /\ k.reason = Exhausted => Said(k) = None
                     /\ k.reason # Exhausted => k.reason \in Reasons /\ Said(k) = k.reason
  /\ k.at = "copy" => k.reason \in Reasons /\ Said(k) = k.reason

IInv == Typed /\ Serial /\ (\A t \in Threads : Honest(task[t])) /\ HandlesOwned

----------------------------------------------------------------------------
(* Steps of one thread *)

\* Thread t goes on as k, and no other thread moves.
Goes(t, k) == task' = [task EXCEPT ![t] = k]

\* A thread between calls, and one at a step of a call.
LEMMA TaskForms ==
  ASSUME Typed, NEW t \in Threads
  PROVE  /\ Using(t) => task[t] \in Tasks
         /\ ~Using(t) => task[t] \in Idle
  BY DEF Typed, Using, Idle, Tasks

\* Where threads are apart a call touches no string another thread reads.
LEMMA TouchesItself ==
  ASSUME Typed, Serial, NEW t \in Threads, Using(t), NEW k, Touches(t, k)
  PROVE  task' = [task EXCEPT ![t] = k]
<1>1. ASSUME NEW u \in Threads, u # t, task[u].at = "copy"
      PROVE  ~SameString(task[u], task[t])
  BY <1>1 DEF Serial, Apart, Using, SameString
<1>2. \A u \in Threads : task'[u] = IF u = t THEN k ELSE task[u]
  BY <1>1 DEF Touches
<1> QED
  BY <1>2 DEF Touches, Typed

\* A thread that ends its call, or stays at it, is apart from the others.
LEMMA SerialKept ==
  ASSUME Typed, Serial, NEW t \in Threads, Using(t), NEW k,
         Goes(t, k),
         k.at = "idle" \/ (k.op = task[t].op /\ k.store = task[t].store)
  PROVE  Serial'
<1> SUFFICES ASSUME NEW u \in Threads, NEW w \in Threads, u # w, Using(u)', Using(w)'
             PROVE  Apart(task[u], task[w])'
  BY DEF Serial
<1>1. \A v \in Threads : v # t => task'[v] = task[v]
  BY DEF Typed, Goes
<1>2. task'[t] = k
  BY DEF Typed, Goes
<1>3. \A v \in Threads : Using(v)' => /\ Using(v)
                                       /\ task'[v].op = task[v].op
                                       /\ task'[v].store = task[v].store
  BY <1>1, <1>2 DEF Using
<1> QED
  BY <1>3 DEF Serial, Apart

\* A call of one thread leaves what the others will be told: it writes only
\* its own store's string or, when it opens, that of the process.
LEMMA OthersHonest ==
  ASSUME IInv, NEW t \in Threads, Using(t), NEW k,
         Goes(t, k),
         \A o \in Stores : o # Store(t) => error'[o] = error[o],
         task[t].op # "open" => globalError' = globalError
  PROVE  \A u \in Threads : u # t => Honest(task[u])'
<1> SUFFICES ASSUME NEW u \in Threads, u # t
             PROVE  Honest(task[u])'
  OBVIOUS
<1>1. task'[u] = task[u] /\ Honest(task[u])
  BY DEF IInv, Typed, Goes
<1>2. CASE ~Using(u)
  BY <1>1, <1>2 DEF Honest, Using
<1>3. CASE Using(u)
  <2>1. Apart(task[u], task[t]) /\ task[u].store \in Stores
    BY <1>3, TaskForms DEF IInv, Serial, Tasks
  <2>2. Said(task[u])' = Said(task[u])
    BY <1>1, <2>1 DEF Said, Apart, Store
  <2> QED
    BY <1>1, <1>3, <2>2 DEF Honest, Using
<1> QED
  BY <1>2, <1>3

\* The invariant after a step of thread t, from what the step says of t alone.
LEMMA StepOfOne ==
  ASSUME IInv, NEW t \in Threads, Using(t), NEW k \in Idle \cup Tasks,
         Goes(t, k),
         k.at = "idle" \/ (k.op = task[t].op /\ k.store = task[t].store),
         error' \in [Stores -> Reasons \cup {None}],
         globalError' \in Reasons \cup {None},
         \A o \in Stores : o # Store(t) => error'[o] = error[o],
         task[t].op # "open" => globalError' = globalError,
         Honest(task[t])',
         held' \in [Stores -> BOOLEAN], alive' \in [Stores -> BOOLEAN], HandlesOwned'
  PROVE  IInv'
<1>1. Typed'
  BY DEF IInv, Typed, Goes
<1>2. Serial'
  BY SerialKept DEF IInv
<1>3. \A u \in Threads : Honest(task[u])'
  BY OthersHonest
<1> QED
  BY <1>1, <1>2, <1>3 DEF IInv

\* The same of a step that opens and closes nothing.
LEMMA StepOfHolder ==
  ASSUME IInv, NEW t \in Threads, Using(t), NEW k \in Idle \cup Tasks,
         Goes(t, k),
         k.at = "idle" \/ (k.op = task[t].op /\ k.store = task[t].store),
         error' \in [Stores -> Reasons \cup {None}],
         globalError' \in Reasons \cup {None},
         \A o \in Stores : o # Store(t) => error'[o] = error[o],
         task[t].op # "open" => globalError' = globalError,
         Honest(task[t])',
         UNCHANGED <<held, alive>>
  PROVE  IInv'
<1>1. \A u \in Threads : Using(u)' => /\ Using(u)
                                       /\ task'[u].op = task[u].op
                                       /\ task'[u].store = task[u].store
  BY DEF IInv, Typed, Using, Goes
<1>2. HandlesOwned'
  BY <1>1 DEF IInv, HandlesOwned, Store
<1>3. held' \in [Stores -> BOOLEAN] /\ alive' \in [Stores -> BOOLEAN]
  BY DEF IInv, Typed
<1> QED
  BY <1>2, <1>3, StepOfOne

----------------------------------------------------------------------------
(* The steps of Next *)

\* A method that begins has a store of its own, which is open unless it opens it.
LEMMA EnterKeeps ==
  ASSUME SerialHandles, SerialOpens, IInv,
         NEW t \in Threads, NEW op \in Ops, NEW o \in Stores, Enter(t, op, o)
  PROVE  IInv'
<1> DEFINE k == [at |-> "run", op |-> op, store |-> o, reason |-> None, torn |-> FALSE]
<1>1. /\ task' = [task EXCEPT ![t] = k] /\ k \in Tasks
      /\ UNCHANGED <<held, alive, error, globalError>>
  BY DEF Enter, Tasks
<1>2. task'[t] = k /\ \A u \in Threads : u # t => task'[u] = task[u]
  BY <1>1 DEF IInv, Typed
<1>3. Typed'
  BY <1>1 DEF IInv, Typed
<1>4. \A u \in Threads : u # t /\ Using(u) => Apart(task[u], k) /\ Apart(k, task[u])
  BY DEF Enter, MayUse, Apart
<1>5. Serial'
  <2> SUFFICES ASSUME NEW u \in Threads, NEW w \in Threads, u # w, Using(u)', Using(w)'
               PROVE  Apart(task[u], task[w])'
    BY DEF Serial
  <2>1. CASE u = t
    BY <1>2, <1>4, <2>1 DEF Using, Apart
  <2>2. CASE w = t
    BY <1>2, <1>4, <2>2 DEF Using, Apart
  <2>3. CASE u # t /\ w # t
    BY <1>2, <2>3 DEF IInv, Serial, Using, Apart
  <2> QED
    BY <2>1, <2>2, <2>3
<1>6. \A u \in Threads : Honest(task[u])'
  <2>1. Honest(task[t])'
    BY <1>2 DEF Honest
  <2>2. ASSUME NEW u \in Threads, u # t PROVE Honest(task[u])'
    BY <1>1, <1>2, <2>2 DEF IInv, Honest, Said
  <2> QED
    BY <2>1, <2>2
<1>7. HandlesOwned'
  <2>1. ASSUME NEW u \in Threads, Using(u)', task'[u].op # "open"
        PROVE  alive'[task'[u].store]
    <3>1. CASE u = t
      <4>1. task'[u].op = op /\ task'[u].store = o
        BY <1>2, <3>1
      <4>2. held[o] /\ held[o] = alive[o]
        BY <2>1, <4>1 DEF Enter, IInv, HandlesOwned
      <4> QED
        BY <1>1, <4>1, <4>2
    <3>2. CASE u # t
      BY <1>1, <1>2, <2>1, <3>2 DEF IInv, HandlesOwned, Using, Store
    <3> QED
      BY <3>1, <3>2
  <2> QED
    BY <1>1, <2>1 DEF IInv, HandlesOwned, Store
<1> QED
  BY <1>3, <1>5, <1>6, <1>7 DEF IInv

\* Where a thread at a step of a call may go from it.
LEMMA Answers ==
  ASSUME IInv, NEW t \in Threads, Using(t)
  PROVE  /\ task[t] \in Tasks /\ Store(t) \in Stores /\ ~task[t].torn
         /\ Succeeded \in Idle
         /\ [task[t] EXCEPT !.at = "take"] \in Tasks
         /\ \A r \in Reasons \cup {Exhausted} : Failed(t, r) \in Tasks
<1>1. task[t] \in Tasks
  BY TaskForms DEF IInv
<1>2. Store(t) \in Stores /\ ~task[t].torn
  BY <1>1 DEF IInv, Honest, Using, Tasks, Store
<1>3. Succeeded \in Idle
  BY DEF Succeeded, Ended, Idle
<1>4. [task[t] EXCEPT !.at = "take"] \in Tasks
  BY <1>1 DEF Tasks
<1>5. ASSUME NEW r \in Reasons \cup {Exhausted} PROVE Failed(t, r) \in Tasks
  BY <1>1 DEF Tasks, Failed
<1> QED
  BY <1>1, <1>2, <1>3, <1>4, <1>5

\* open: it leaves no handle and the reason, or a handle of a new Store.
LEMMA OpenKeeps ==
  ASSUME IInv, NEW t \in Threads, OpenAnswers(t)
  PROVE  IInv'
<1>1. Using(t) /\ task[t].op = "open"
  BY DEF OpenAnswers, Runs, Using
<1>2. CASE /\ held' = [held EXCEPT ![Store(t)] = TRUE]
           /\ alive' = [alive EXCEPT ![Store(t)] = TRUE]
           /\ error' = [error EXCEPT ![Store(t)] = None]
           /\ task' = [task EXCEPT ![t] = Succeeded]
           /\ UNCHANGED globalError
  <2>1. held' \in [Stores -> BOOLEAN] /\ alive' \in [Stores -> BOOLEAN]
    BY <1>2 DEF IInv, Typed
  <2>2. HandlesOwned'
    <3>1. \A o \in Stores : held'[o] = alive'[o]
      BY <1>2 DEF IInv, Typed, HandlesOwned
    <3>2. \A u \in Threads : Using(u)' => u # t /\ Using(u) /\ task'[u] = task[u]
      BY <1>2 DEF IInv, Typed, Using, Succeeded, Ended
    <3>3. \A u \in Threads : Using(u) => task[u].store \in Stores
      BY TaskForms DEF IInv, Tasks
    <3>4. \A o \in Stores : alive[o] => alive'[o]
      BY <1>2 DEF IInv, Typed
    <3> QED
      BY <3>1, <3>2, <3>3, <3>4 DEF IInv, HandlesOwned, Store
  <2>3. /\ error' \in [Stores -> Reasons \cup {None}]
        /\ \A o \in Stores : o # Store(t) => error'[o] = error[o]
        /\ globalError' \in Reasons \cup {None}
    BY <1>2 DEF IInv, Typed
  <2>4. Succeeded \in Idle /\ Succeeded.at = "idle"
    BY <1>1, Answers DEF Succeeded, Ended
  <2>5. Honest(task[t])'
    BY <1>2, AbiAssumption DEF IInv, Typed, Honest, Succeeded, Ended
  <2>6. Succeeded \in Idle \cup Tasks /\ Goes(t, Succeeded)
    BY <1>2, <2>4 DEF Goes
  <2> QED
    BY <1>1, <2>1, <2>2, <2>3, <2>4, <2>5, <2>6, StepOfOne
<1>3. CASE \E r \in Reasons : /\ globalError' = r
                             /\ Touches(t, Failed(t, r))
                             /\ UNCHANGED <<held, alive, db, error>>
  <2>1. PICK r \in Reasons : /\ globalError' = r
                             /\ Touches(t, Failed(t, r))
                             /\ UNCHANGED <<held, alive, db, error>>
    BY <1>3
  <2>2. Goes(t, Failed(t, r))
    BY <1>1, <2>1, TouchesItself DEF IInv, Goes
  <2>3. /\ task[t] \in Tasks /\ Failed(t, r) \in Tasks /\ ~task[t].torn
    BY <1>1, Answers
  <2>4. /\ task'[t].at = "ask" /\ task'[t].reason = r /\ ~task'[t].torn
        /\ task'[t].op = task[t].op /\ task'[t].store = task[t].store
        /\ task'[t] = Failed(t, r)
    BY <2>2, <2>3 DEF IInv, Typed, Goes, Failed, Tasks
  <2>5. Honest(task[t])'
    BY <1>1, <2>1, <2>4, AbiAssumption DEF Honest, Said
  <2> QED
    BY <1>1, <2>1, <2>2, <2>3, <2>4, <2>5, StepOfHolder DEF IInv, Typed
<1> QED
  BY <1>2, <1>3 DEF OpenAnswers

\* A call or a reopen that fails leaves its reason with its own store.
LEMMA FailureKeeps ==
  ASSUME IInv, NEW t \in Threads, Using(t), task[t].op # "open", NEW r \in Reasons,
         error' = [error EXCEPT ![Store(t)] = r], Touches(t, Failed(t, r)),
         UNCHANGED <<held, alive, globalError>>
  PROVE  IInv'
<1>1. Goes(t, Failed(t, r))
  BY TouchesItself DEF IInv, Goes
<1>2. /\ task[t] \in Tasks /\ Store(t) \in Stores /\ Failed(t, r) \in Tasks /\ ~task[t].torn
  BY Answers
<1>3. /\ task'[t].at = "ask" /\ task'[t].reason = r /\ ~task'[t].torn
      /\ task'[t].op = task[t].op /\ task'[t].store = task[t].store
      /\ task'[t] = Failed(t, r)
  BY <1>1, <1>2 DEF IInv, Typed, Goes, Failed, Tasks
<1>4. /\ error' \in [Stores -> Reasons \cup {None}]
      /\ error'[Store(t)] = r
      /\ \A o \in Stores : o # Store(t) => error'[o] = error[o]
      /\ globalError' \in Reasons \cup {None}
  BY <1>2 DEF IInv, Typed
<1>5. Honest(task[t])'
  BY <1>3, <1>4, AbiAssumption DEF Honest, Said, Store
<1> QED
  BY <1>1, <1>2, <1>3, <1>4, <1>5, StepOfHolder

LEMMA BadRequestKeeps ==
  ASSUME IInv, NEW t \in Threads, BadRequest(t)
  PROVE  IInv'
BY FailureKeeps DEF BadRequest, Runs, Using

LEMMA CallFailsKeeps ==
  ASSUME IInv, NEW t \in Threads, CallFails(t)
  PROVE  IInv'
BY FailureKeeps DEF CallFails, Runs, Using

\* An answer, or none for want of memory: the last error is clear in both.
LEMMA CallDoneKeeps ==
  ASSUME IInv, NEW t \in Threads, CallDone(t)
  PROVE  IInv'
<1>1. /\ Using(t) /\ task[t].op # "open"
      /\ error' = [error EXCEPT ![Store(t)] = None]
      /\ UNCHANGED <<held, alive, globalError>>
  BY DEF CallDone, Runs, Using
<1>2. PICK k \in {[task[t] EXCEPT !.at = "take"], Failed(t, Exhausted)} : Touches(t, k)
  BY DEF CallDone
<1>3. Goes(t, k)
  BY <1>1, <1>2, TouchesItself DEF IInv, Goes
<1>4. task[t] \in Tasks /\ Store(t) \in Stores /\ k \in Tasks /\ ~task[t].torn
  BY <1>1, <1>2, Answers
<1>5. /\ k.at \in {"take", "ask"} /\ (k.at = "ask" => k.reason = Exhausted) /\ ~k.torn
      /\ k.op = task[t].op /\ k.store = task[t].store
  BY <1>2, <1>4 DEF Failed, Tasks
<1>6. task'[t] = k
  BY <1>3 DEF IInv, Typed, Goes
<1>7. /\ error' \in [Stores -> Reasons \cup {None}]
      /\ error'[Store(t)] = None
      /\ \A o \in Stores : o # Store(t) => error'[o] = error[o]
      /\ globalError' \in Reasons \cup {None}
  BY <1>1, <1>4 DEF IInv, Typed
<1>8. Honest(task[t])'
  BY <1>1, <1>5, <1>6, <1>7 DEF Honest, Said, Store
<1> QED
  BY <1>1, <1>3, <1>4, <1>5, <1>7, <1>8, StepOfHolder

\* A step after which its thread is between calls, told what it should be.
LEMMA EndKeeps ==
  ASSUME IInv, NEW t \in Threads, Using(t), NEW k \in Idle, Goes(t, k),
         k.told = IF k.reason = Exhausted THEN Unsaid ELSE k.reason,
         UNCHANGED <<held, alive, error, globalError>>
  PROVE  IInv'
<1>1. task'[t] = k /\ k.at = "idle"
  BY DEF IInv, Typed, Goes, Idle
<1>2. Honest(task[t])'
  BY <1>1 DEF Honest
<1>3. /\ error' \in [Stores -> Reasons \cup {None}]
      /\ globalError' \in Reasons \cup {None}
  BY DEF IInv, Typed
<1> QED
  BY <1>1, <1>2, <1>3, StepOfHolder

LEMMA SucceededTold ==
  /\ Succeeded.at = "idle" /\ Succeeded.reason = None /\ Succeeded.told = None
  /\ Succeeded.told = IF Succeeded.reason = Exhausted THEN Unsaid ELSE Succeeded.reason
BY AbiAssumption DEF Succeeded, Ended

\* reopen, which if it succeeds leaves an older reason where nobody asks for it.
LEMMA ReopenKeeps ==
  ASSUME IInv, NEW t \in Threads, ReopenAnswers(t)
  PROVE  IInv'
<1>1. Using(t) /\ task[t].op # "open" /\ UNCHANGED <<held, alive, globalError>>
  BY DEF ReopenAnswers, Runs, Using
<1>2. CASE task' = [task EXCEPT ![t] = Succeeded] /\ UNCHANGED error
  BY <1>1, <1>2, Answers, SucceededTold, EndKeeps DEF Goes
<1>3. CASE \E r \in Reasons : /\ error' = [error EXCEPT ![Store(t)] = r]
                             /\ Touches(t, Failed(t, r))
  BY <1>1, <1>3, FailureKeeps
<1> QED
  BY <1>2, <1>3 DEF ReopenAnswers

\* close: no thread but this one is at a call of the store that goes.
LEMMA CloseKeeps ==
  ASSUME SerialHandles, IInv, NEW t \in Threads, Close(t)
  PROVE  IInv'
<1>1. /\ Using(t) /\ task[t].op = "close" /\ Touches(t, Succeeded)
      /\ held' = [held EXCEPT ![Store(t)] = FALSE]
      /\ alive' = [alive EXCEPT ![Store(t)] = FALSE]
      /\ error' = [error EXCEPT ![Store(t)] = None]
      /\ UNCHANGED globalError
  BY DEF Close, Runs, Using
<1>2. Goes(t, Succeeded)
  BY <1>1, TouchesItself DEF IInv, Goes
<1>3. task'[t] = Succeeded /\ \A u \in Threads : u # t => task'[u] = task[u]
  BY <1>2 DEF IInv, Typed, Goes
<1>4. held' \in [Stores -> BOOLEAN] /\ alive' \in [Stores -> BOOLEAN]
  BY <1>1 DEF IInv, Typed
<1>5. HandlesOwned'
  <2>1. \A o \in Stores : held'[o] = alive'[o]
    BY <1>1 DEF IInv, Typed, HandlesOwned
  <2>2. ASSUME NEW u \in Threads, Using(u)', task'[u].op # "open"
        PROVE  alive'[task'[u].store]
    <3>1. u # t /\ Using(u) /\ task'[u] = task[u]
      BY <1>3, <2>2, SucceededTold DEF Using
    <3>2. task[u].store # Store(t) /\ task[u].store \in Stores
      BY <1>1, <3>1, TaskForms DEF IInv, Serial, Apart, Store, Tasks
    <3>3. alive[task[u].store]
      BY <2>2, <3>1 DEF IInv, HandlesOwned, Store
    <3> QED
      BY <1>1, <3>1, <3>2, <3>3 DEF IInv, Typed
  <2> QED
    BY <2>1, <2>2 DEF HandlesOwned, Store
<1>6. /\ error' \in [Stores -> Reasons \cup {None}]
      /\ \A o \in Stores : o # Store(t) => error'[o] = error[o]
      /\ globalError' \in Reasons \cup {None}
  BY <1>1 DEF IInv, Typed
<1>7. Honest(task[t])'
  BY <1>3, SucceededTold DEF Honest
<1>8. Succeeded \in Idle \cup Tasks
  BY <1>1, Answers
<1> QED
  BY <1>1, <1>2, <1>4, <1>5, <1>6, <1>7, <1>8, SucceededTold, StepOfOne

LEMMA TakeKeeps ==
  ASSUME IInv, NEW t \in Threads, Take(t)
  PROVE  IInv'
<1>1. Using(t) /\ Goes(t, Succeeded) /\ UNCHANGED <<held, alive, error, globalError>>
  BY DEF Take, Using, Goes
<1> QED
  BY <1>1, Answers, SucceededTold, EndKeeps

\* There is nothing to point at only after an answer for which there was no
\* memory; otherwise the thread points at the reason of its own call.
LEMMA AskKeeps ==
  ASSUME IInv, NEW t \in Threads, Ask(t)
  PROVE  IInv'
<1>1. /\ Using(t) /\ task[t].at = "ask" /\ UNCHANGED <<held, alive, error, globalError>>
      /\ Honest(task[t]) /\ task[t] \in Tasks /\ ~task[t].torn
  BY Answers DEF Ask, Using, IInv
<1>2. CASE Said(task[t]) = None
  <2> DEFINE k == Ended(task[t].reason, Unsaid)
  <2>1. Goes(t, k)
    BY <1>2 DEF Ask, Goes
  <2>2. task[t].reason = Exhausted
    BY <1>1, <1>2, AbiAssumption DEF Honest
  <2>3. k \in Idle /\ k.told = IF k.reason = Exhausted THEN Unsaid ELSE k.reason
    BY <2>2 DEF Ended, Idle
  <2> HIDE DEF k
  <2> QED
    BY <1>1, <2>1, <2>3, EndKeeps
<1>3. CASE Said(task[t]) # None
  <2> DEFINE k == [task[t] EXCEPT !.at = "copy"]
  <2>1. Goes(t, k)
    BY <1>3 DEF Ask, Goes
  <2>2. /\ k \in Tasks /\ k.at = "copy" /\ ~k.torn /\ k.reason = task[t].reason
        /\ k.op = task[t].op /\ k.store = task[t].store
    BY <1>1 DEF Tasks
  <2>3. task[t].reason \in Reasons /\ Said(task[t]) = task[t].reason
    BY <1>1, <1>3 DEF Honest
  <2> HIDE DEF k
  <2>4. task'[t] = k
    BY <2>1 DEF IInv, Typed, Goes
  <2>5. Honest(task[t])'
    BY <1>1, <2>2, <2>3, <2>4 DEF Honest, Said
  <2>6. /\ error' \in [Stores -> Reasons \cup {None}]
        /\ globalError' \in Reasons \cup {None}
    BY <1>1 DEF IInv, Typed
  <2> QED
    BY <1>1, <2>1, <2>2, <2>5, <2>6, StepOfHolder
<1> QED
  BY <1>2, <1>3

LEMMA CopyKeeps ==
  ASSUME IInv, NEW t \in Threads, Copy(t)
  PROVE  IInv'
<1> DEFINE k == Ended(task[t].reason, IF task[t].torn THEN Torn ELSE Said(task[t]))
<1>1. /\ Using(t) /\ Goes(t, k) /\ UNCHANGED <<held, alive, error, globalError>>
  BY DEF Copy, Using, Goes
<1>2. /\ ~task[t].torn
      /\ task[t].reason \in Reasons /\ Said(task[t]) = task[t].reason
  BY DEF Copy, IInv, Honest
<1>3. k \in Idle /\ k.told = IF k.reason = Exhausted THEN Unsaid ELSE k.reason
  BY <1>2, AbiAssumption DEF Ended, Idle
<1> HIDE DEF k
<1> QED
  BY <1>1, <1>3, EndKeeps

----------------------------------------------------------------------------

\* IInv holds in every state of a host that keeps to the contract.
LEMMA Inductive ==
  ASSUME SerialHandles, SerialOpens
  PROVE  Spec => []IInv
<1>1. Init => IInv
  <2> SUFFICES ASSUME Init PROVE IInv
    OBVIOUS
  <2>1. \A t \in Threads : task[t] = Succeeded
    BY DEF Init, Succeeded
  <2>2. Succeeded \in Idle
    BY DEF Succeeded, Ended, Idle
  <2>3. Typed
    BY <2>1, <2>2 DEF Init, Typed
  <2>4. \A t \in Threads : ~Using(t) /\ Honest(task[t])
    BY <2>1, SucceededTold DEF Using, Honest
  <2>5. \A o \in Stores : held[o] = alive[o]
    BY DEF Init
  <2> QED
    BY <2>3, <2>4, <2>5 DEF IInv, Serial, HandlesOwned
<1>2. IInv /\ [Next]_abiVars => IInv'
  <2> SUFFICES ASSUME IInv, [Next]_abiVars PROVE IInv'
    OBVIOUS
  <2>1. CASE Next
    BY <2>1, EnterKeeps, OpenKeeps, BadRequestKeeps, CallDoneKeeps, CallFailsKeeps,
       ReopenKeeps, CloseKeeps, TakeKeeps, AskKeeps, CopyKeeps DEF Next
  <2>2. CASE UNCHANGED abiVars
    BY <2>2 DEF abiVars, IInv, Typed, Serial, Using, Apart, Honest, Said, HandlesOwned, Store
  <2> QED
    BY <2>1, <2>2
<1> QED
  BY <1>1, <1>2, PTL DEF Spec

\* A binding throws the reason of its own failure and of no other call, and is
\* without one only for want of memory for an answer (api.cpp, setGlobalError
\* and despia_local_last_error), for every number of threads and stores.
THEOREM ReasonIsOwn ==
  ASSUME SerialHandles, SerialOpens
  PROVE  Spec => []ToldOwnReason
<1>1. IInv => ToldOwnReason
  BY DEF IInv, Honest, ToldOwnReason, Using
<1> QED
  BY <1>1, Inductive, PTL

\* A Store exists as long as a handle to it, and as long as a call on it
\* (api.cpp, despia_local_open and despia_local_close).
THEOREM NoUseAfterClose ==
  ASSUME SerialHandles, SerialOpens
  PROVE  Spec => []HandlesOwned
<1>1. IInv => HandlesOwned
  BY DEF IInv
<1> QED
  BY <1>1, Inductive, PTL
=============================================================================
