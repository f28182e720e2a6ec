--------------------------------- MODULE Abi ---------------------------------
(***************************************************************************)
(* The C ABI between the engine and the Swift and Kotlin bindings: whose   *)
(* error a binding throws, and who owns a handle.                          *)
(*                                                                         *)
(* An error is not part of an answer.  A failed call answers NULL; the     *)
(* binding then asks for the last error, of the handle or, after an open   *)
(* that left no handle, of the process, is given a pointer into a string   *)
(* the engine owns, and copies it.  Between these steps other threads run. *)
(* An answer is a string of the caller's own, which may not be had.        *)
(***************************************************************************)
EXTENDS Naturals

CONSTANTS
  Threads,         \* threads of the host
  Stores,          \* objects of the binding, each with its own handle
  Reasons,         \* why a call may fail
  SerialHandles,   \* the host's queue gives a store to one thread at a time
  SerialOpens,     \* the host opens one store at a time
  Exhausted,       \* the engine did it, and has no memory for the answer
  Torn,            \* a string read while it was assigned or freed
  Unsaid,          \* the binding's own: the store failed without reporting why
  None

ASSUME AbiAssumption ==
  /\ SerialHandles \in BOOLEAN /\ SerialOpens \in BOOLEAN
  /\ {Exhausted, Torn, Unsaid, None} \cap Reasons = {}
  /\ Exhausted # None /\ Torn # None /\ Unsaid # None /\ Torn # Unsaid

VARIABLES
  held,          \* whether the binding's handle is not null
  alive,         \* whether the engine's Store behind it exists
  db,            \* whether that Store has its database open (db_)
  error,         \* lastError_ of each Store
  globalError,   \* g_globalError
  task           \* what each thread is doing, or what its last call came to

abiVars == <<held, alive, db, error, globalError, task>>

Ops == {"open", "call", "crash", "close"}

\* `reason` is history: why this call has no answer.  `torn` says that the
\* string the thread points into was assigned or freed since it was asked for.
Idle ==
  [at : {"idle"}, reason : Reasons \cup {None, Exhausted},
   told : Reasons \cup {None, Torn, Unsaid}]
Tasks ==
  [at : {"run", "take", "ask", "copy"}, op : Ops, store : Stores,
   reason : Reasons \cup {None, Exhausted}, torn : BOOLEAN]

\* Every thread is between calls or at a step of one, and nothing but a reason
\* of a failure is ever in an error string (api.cpp, store.hpp).
TypeOK ==
  /\ held \in [Stores -> BOOLEAN] /\ alive \in [Stores -> BOOLEAN]
  /\ db \in [Stores -> BOOLEAN]
  /\ error \in [Stores -> Reasons \cup {None}]
  /\ globalError \in Reasons \cup {None}
  /\ task \in [Threads -> Idle \cup Tasks]

Ended(reason, told) == [at |-> "idle", reason |-> reason, told |-> told]

Init ==
  /\ held = [o \in Stores |-> FALSE] /\ alive = held /\ db = held
  /\ error = [o \in Stores |-> None]
  /\ globalError = None
  /\ task = [t \in Threads |-> Ended(None, None)]

----------------------------------------------------------------------------
(* A binding's method begins *)

Using(t) == task[t].at # "idle"

\* The host: a store is used, closed and released by one thread at a time.
MayUse(t, op, o) ==
  \A u \in Threads \ {t} : Using(u) =>
    /\ SerialHandles => task[u].store # o
    /\ SerialOpens => {op, task[u].op} # {"open"}

\* A store opens once; its other methods begin with alive(), which throws for
\* a handle that is null.
Enter(t, op, o) ==
  /\ ~Using(t)
  /\ MayUse(t, op, o)
  /\ held[o] = (op # "open")
  /\ task' = [task EXCEPT ![t] = [at |-> "run", op |-> op, store |-> o,
                                  reason |-> None, torn |-> FALSE]]
  /\ UNCHANGED <<held, alive, db, error, globalError>>

----------------------------------------------------------------------------
(* The engine answers *)

Runs(t, op) == task[t].at = "run" /\ task[t].op = op
Store(t) == task[t].store

\* Whether k, which fails, asks for the same string as j.
SameString(j, k) ==
  IF k.op = "open" THEN j.op = "open" ELSE j.op # "open" /\ j.store = k.store

\* Thread t goes on as k, and its call touched the string it would ask for.
Touches(t, k) ==
  task' = [u \in Threads |->
             IF u = t THEN k
             ELSE IF task[u].at = "copy" /\ SameString(task[u], task[t])
             THEN [task[u] EXCEPT !.torn = TRUE]
             ELSE task[u]]

Succeeded == Ended(None, None)
Failed(t, r) == [task[t] EXCEPT !.at = "ask", !.reason = r]

\* despia_local_open: a new Store, or NULL and the global error.
OpenAnswers(t) ==
  /\ Runs(t, "open")
  /\ \/ /\ held' = [held EXCEPT ![Store(t)] = TRUE]
        /\ alive' = [alive EXCEPT ![Store(t)] = TRUE]
        /\ db' = [db EXCEPT ![Store(t)] = TRUE]
        /\ error' = [error EXCEPT ![Store(t)] = None]
        /\ task' = [task EXCEPT ![t] = Succeeded]
        /\ UNCHANGED globalError
     \/ \E r \in Reasons :
          /\ globalError' = r
          /\ Touches(t, Failed(t, r))
          /\ UNCHANGED <<held, alive, db, error>>

\* Mutant of BadRequest: an error is set only for an action that failed.
BadRequestSilent(t) ==
  /\ Runs(t, "call")
  /\ \E r \in Reasons : task' = [task EXCEPT ![t] = Failed(t, r)]
  /\ UNCHANGED <<held, alive, db, error, globalError>>

\* despia_local_call without an action, or with arguments that do not parse.
BadRequest(t) ==
  /\ Runs(t, "call")
  /\ \E r \in Reasons :
       /\ error' = [error EXCEPT ![Store(t)] = r]
       /\ Touches(t, Failed(t, r))
  /\ UNCHANGED <<held, alive, db, globalError>>

\* The action was done: the last error is cleared, and then the answer copied
\* into a string for the caller, NULL if there is no memory for it.
CallDone(t) ==
  /\ Runs(t, "call")
  /\ db[Store(t)]
  /\ error' = [error EXCEPT ![Store(t)] = None]
  /\ \E k \in {[task[t] EXCEPT !.at = "take"], Failed(t, Exhausted)} : Touches(t, k)
  /\ UNCHANGED <<held, alive, db, globalError>>

\* The action failed: a Store without its database refuses every action, and a
\* failed restore may leave it so.
CallFails(t) ==
  /\ Runs(t, "call")
  /\ \E r \in Reasons :
       /\ error' = [error EXCEPT ![Store(t)] = r]
       /\ Touches(t, Failed(t, r))
       /\ UNCHANGED db \/ db' = [db EXCEPT ![Store(t)] = FALSE]
  /\ UNCHANGED <<held, alive, globalError>>

\* despia_local_reopen, which leaves the last error alone when it succeeds.
ReopenAnswers(t) ==
  /\ Runs(t, "crash")
  /\ \/ /\ db' = [db EXCEPT ![Store(t)] = TRUE]
        /\ task' = [task EXCEPT ![t] = Succeeded]
        /\ UNCHANGED error
     \/ \E r \in Reasons :
          /\ db' = [db EXCEPT ![Store(t)] = FALSE]
          /\ error' = [error EXCEPT ![Store(t)] = r]
          /\ Touches(t, Failed(t, r))
  /\ UNCHANGED <<held, alive, globalError>>

\* Mutant of Close: the binding's handle stays.
CloseKept(t) ==
  /\ Runs(t, "close")
  /\ alive' = [alive EXCEPT ![Store(t)] = FALSE]
  /\ Touches(t, Succeeded)
  /\ UNCHANGED <<held, db, error, globalError>>

\* The binding's handle becomes null and despia_local_close deletes the Store.
Close(t) ==
  /\ Runs(t, "close")
  /\ held' = [held EXCEPT ![Store(t)] = FALSE]
  /\ alive' = [alive EXCEPT ![Store(t)] = FALSE]
  /\ db' = [db EXCEPT ![Store(t)] = FALSE]
  /\ error' = [error EXCEPT ![Store(t)] = None]
  /\ Touches(t, Succeeded)
  /\ UNCHANGED globalError

----------------------------------------------------------------------------
(* The binding takes the answer, or reads why there is none *)

\* The answer is copied and freed; no other thread has a pointer to it.
Take(t) ==
  /\ task[t].at = "take"
  /\ task' = [task EXCEPT ![t] = Succeeded]
  /\ UNCHANGED <<held, alive, db, error, globalError>>

\* The string of a failed call.
Said(k) == IF k.op = "open" THEN globalError ELSE error[k.store]

\* despia_local_last_error: a pointer into the string, or NULL for an empty one,
\* which the binding reports in words of its own.
Ask(t) ==
  /\ task[t].at = "ask"
  /\ task' = [task EXCEPT ![t] = IF Said(@) = None THEN Ended(@.reason, Unsaid)
                                 ELSE [@ EXCEPT !.at = "copy"]]
  /\ UNCHANGED <<held, alive, db, error, globalError>>

\* The binding copies the string, and throws.
Copy(t) ==
  /\ task[t].at = "copy"
  /\ task' = [task EXCEPT ![t] = Ended(@.reason, IF @.torn THEN Torn ELSE Said(@))]
  /\ UNCHANGED <<held, alive, db, error, globalError>>

----------------------------------------------------------------------------

Next ==
  \E t \in Threads :
    \/ \E op \in Ops, o \in Stores : Enter(t, op, o)
    \/ OpenAnswers(t) \/ BadRequest(t) \/ CallDone(t) \/ CallFails(t) \/ ReopenAnswers(t)
    \/ Close(t) \/ Take(t) \/ Ask(t) \/ Copy(t)

Spec == Init /\ [][Next]_abiVars

----------------------------------------------------------------------------
(* Properties *)

\* What a binding throws is why its own call failed: not nothing, not an
\* earlier or another thread's reason, and not a string that was changing
\* (despia_local.h: valid until the next call on that handle).  It has nothing
\* to go by only if the engine had no memory to answer what it did.
ToldOwnReason ==
  \A t \in Threads : ~Using(t) =>
    task[t].told = IF task[t].reason = Exhausted THEN Unsaid ELSE task[t].reason

\* No method of a store that is open runs on, or reads an error of, a Store
\* that was deleted, and a Store exists as long as a handle to it: no use
\* after close, no leak (despia_local_close, and alive() of the bindings).
HandlesOwned ==
  /\ \A o \in Stores : held[o] = alive[o]
  /\ \A t \in Threads : Using(t) /\ task[t].op # "open" => alive[Store(t)]
==============================================================================
