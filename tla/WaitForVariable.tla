--------------------------- MODULE WaitForVariable ---------------------------
(***************************************************************************)
(* WaitForVariableValue (factory/process_variable.cpp) with its            *)
(* VariableCallbackGuard, waiting for a process variable to take a value   *)
(* while other threads write the variable or make it (un)available, and    *)
(* BusyWaitForValue (factory/process_variable_utils.cpp) for variables     *)
(* without callbacks.                                                      *)
(*                                                                         *)
(* ProcessVariable is an interface; the variable here has a lock, and an   *)
(* update is followed by a call of the monitor callback on the thread that *)
(* made it.  What else is to be known of the variable is chosen at first:  *)
(* whether it supports callbacks, whether it makes them with its lock      *)
(* held, and whether it is wrapped in an EncodedProcessVariable            *)
(* (encoded_variable_t.h).                                                 *)
(*                                                                         *)
(* An operator named Bug_X is X with a plausible mistake in it; it is not  *)
(* part of the model and serves to show that the properties notice it.     *)
(***************************************************************************)
EXTENDS Naturals

CONSTANTS
  Writer,      \* threads that update the variable
  Waiter,      \* the thread in WaitForVariableValue
  Nobody,      \* no thread
  Value, Expected,
  Garbage,     \* the value that does not decode, if encoded
  Deadline,    \* finish
  MaxTime,     \* bound: last instant of the clock
  MaxWrites,   \* bound: number of updates, unless Endless
  Endless      \* whether updates never stop

ASSUME ThreadAssumption == Waiter \notin Writer /\ Nobody \notin Writer \union {Waiter}
ASSUME ValueAssumption == Expected \in Value /\ Garbage \in Value /\ Expected # Garbage
ASSUME BoundAssumption == Deadline \in Nat /\ MaxTime \in Nat /\ MaxWrites \in Nat
ASSUME SwitchAssumption == Endless \in BOOLEAN

VARIABLES
  encoded,            \* whether the variable is an EncodedProcessVariable
  underLock,          \* whether the variable calls back with its lock held
  supported,          \* whether it supports callbacks
  now,
  value, available,   \* of the variable
  callback,           \* its monitor callback
  lock,               \* who holds the variable's lock
  writes,             \* number of updates so far
  at,                 \* where each writer is
  connected,          \* the availability a writer reports to the callback
  pc,                 \* where the waiter is
  mtx, result,        \* of WaitForVariableValue
  signalled,          \* cv was notified while the waiter slept
  current,            \* BusyWaitForValue: last value fetched
  returned            \* what WaitForVariableValue returned

kind == <<encoded, underLock, supported>>
variable == <<value, available, callback>>
writer == <<writes, at, connected>>
waiter == <<pc, returned, current>>
vars == <<kind, now, variable, lock, writer, waiter, mtx, result, signalled>>

Unknown == "unknown"   \* an empty AnyValue, before anything was fetched

\* SetMonitorCallback(f) of the variable: an EncodedProcessVariable always installs
\* a wrapper, also around an empty function.
Install(f) == [installed |-> encoded \/ f # "none", target |-> f]

Init ==
  /\ encoded \in BOOLEAN /\ underLock \in BOOLEAN /\ supported \in BOOLEAN
  /\ now = 0
  /\ value \in Value /\ available \in BOOLEAN
  /\ callback = [installed |-> FALSE, target |-> "none"]
  /\ lock = Nobody
  /\ writes = 0
  /\ at = [w \in Writer |-> "idle"]
  /\ connected = [w \in Writer |-> FALSE]
  /\ pc = "construct"
  /\ mtx = Nobody
  /\ result = TRUE
  /\ signalled = FALSE
  /\ current = Unknown
  /\ returned = "nothing"

Decodes(v) == ~encoded \/ v # Garbage

\* What GetValue(0.0) delivers: the value, if the variable is available and decodes.
Readable == available /\ Decodes(value)

-----------------------------------------------------------------------------
(* Updates of the variable, and the callback *)

WriterGoes(w, l) == at' = [at EXCEPT ![w] = l]

\* The variable changes, and the writer goes on to call back.  Updates are in order:
\* a variable that calls back without its lock is updated by one thread at a time.
Update(w) ==
  /\ at[w] = "idle" /\ lock = Nobody
  /\ underLock \/ \A v \in Writer : at[v] \in {"idle", "thrown"}
  /\ Endless \/ writes < MaxWrites
  /\ writes' = IF Endless THEN writes ELSE writes + 1
  /\ value' \in Value /\ available' \in BOOLEAN
  /\ connected' = [connected EXCEPT ![w] = available' /\ Decodes(value')]
  /\ lock' = IF underLock THEN w ELSE Nobody
  /\ WriterGoes(w, "call")
  /\ UNCHANGED <<kind, now, callback, waiter, mtx, result, signalled>>

\* The writer is done; it still holds the lock if it was to call back with it.
Done(w) ==
  /\ WriterGoes(w, "idle")
  /\ lock' = IF underLock THEN Nobody ELSE lock

\* The callback is called, if there is one; an empty function throws.
CallBack(w) ==
  /\ at[w] = "call"
  /\ IF ~callback.installed
       THEN Done(w)
       ELSE IF callback.target = "none"
         THEN WriterGoes(w, "thrown") /\ lock' = IF underLock THEN Nobody ELSE lock
         ELSE WriterGoes(w, "callback") /\ UNCHANGED lock
  /\ UNCHANGED <<kind, now, variable, writes, connected, waiter, mtx, result, signalled>>

\* Never unlocks mtx.
Bug_SetResult(w) ==
  /\ at[w] = "callback" /\ mtx = Nobody
  /\ mtx' = w
  /\ result' = connected[w]
  /\ WriterGoes(w, "notify")
  /\ UNCHANGED <<kind, now, variable, lock, writes, connected, waiter, signalled>>

\* In the callback: result = connected, under mtx.
SetResult(w) ==
  /\ at[w] = "callback" /\ mtx = Nobody
  /\ result' = connected[w]
  /\ WriterGoes(w, "notify")
  /\ UNCHANGED <<kind, now, variable, lock, writes, connected, waiter, mtx, signalled>>

\* cv.notify_one() reaches the waiter only if it sleeps.
Notify(w) ==
  /\ at[w] = "notify"
  /\ signalled' = (signalled \/ pc = "sleep")
  /\ Done(w)
  /\ UNCHANGED <<kind, now, variable, writes, connected, waiter, mtx, result>>

-----------------------------------------------------------------------------
(* WaitForVariableValue *)

WaiterGoes(l) == pc' = l /\ UNCHANGED <<returned, current>>

\* The guard installs the callback.
Construct ==
  /\ pc = "construct" /\ lock = Nobody
  /\ IF supported
       THEN callback' = Install("waiter") /\ WaiterGoes("lock")
       ELSE UNCHANGED callback /\ WaiterGoes("fetch")
  /\ UNCHANGED <<kind, now, value, available, lock, writer, mtx, result, signalled>>

\* Resets the result before the wait and not after it.
Bug_LockMutex ==
  /\ pc = "lock" /\ mtx = Nobody
  /\ mtx' = Waiter
  /\ WaiterGoes("predicate")
  /\ result' = FALSE
  /\ UNCHANGED <<kind, now, variable, lock, writer, signalled>>

LockMutex ==
  /\ pc = "lock" /\ mtx = Nobody
  /\ mtx' = Waiter
  /\ WaiterGoes("predicate")
  /\ UNCHANGED <<kind, now, variable, lock, writer, result, signalled>>

\* Does not reset the result.
Bug_Predicate ==
  /\ pc = "predicate"
  /\ IF result \/ now >= Deadline
       THEN WaiterGoes(IF result THEN "read" ELSE "destruct") /\ UNCHANGED signalled
       ELSE WaiterGoes("sleep") /\ signalled' = FALSE
  /\ mtx' = Nobody
  /\ UNCHANGED <<kind, now, variable, lock, writer, result>>

\* wait_until evaluates the predicate: it holds, or the time is up, or cv sleeps,
\* which gives mtx away.
Predicate ==
  /\ pc = "predicate"
  /\ IF result \/ now >= Deadline
       THEN /\ WaiterGoes(IF result THEN "read" ELSE "destruct")
            /\ result' = FALSE
            /\ UNCHANGED signalled
       ELSE /\ WaiterGoes("sleep")
            /\ signalled' = FALSE
            /\ UNCHANGED result
  /\ mtx' = Nobody
  /\ UNCHANGED <<kind, now, variable, lock, writer>>

\* cv wakes up: notified, timed out, or for no reason.
WakeUp ==
  /\ pc = "sleep"
  /\ WaiterGoes("lock")
  /\ UNCHANGED <<kind, now, variable, lock, writer, mtx, result, signalled>>

\* GetValue and the comparison, with mtx free.
Read ==
  /\ pc = "read" /\ lock = Nobody
  /\ IF Readable /\ value = Expected
       THEN pc' = "destruct" /\ returned' = "match" /\ UNCHANGED current
       ELSE WaiterGoes("lock")
  /\ UNCHANGED <<kind, now, variable, lock, writer, mtx, result, signalled>>

\* The function returns and leaves its callback behind.
Bug_Destruct ==
  /\ pc = "destruct"
  /\ pc' = "end" /\ UNCHANGED current
  /\ returned' = IF returned = "match" THEN "true" ELSE "false"
  /\ UNCHANGED <<kind, now, variable, lock, writer, mtx, result, signalled>>

\* The guard removes the callback, and the function returns.
Destruct ==
  /\ pc = "destruct" /\ lock = Nobody
  /\ callback' = IF supported THEN Install("none") ELSE callback
  /\ pc' = "end" /\ UNCHANGED current
  /\ returned' = IF returned = "match" THEN "true" ELSE "false"
  /\ UNCHANGED <<kind, now, value, available, current, lock, writer, mtx, result, signalled>>

-----------------------------------------------------------------------------
(* BusyWaitForValue *)

\* TryFetchVariable keeps what it had if the variable has no value.
Fetch ==
  /\ pc = "fetch" /\ lock = Nobody
  /\ current' = IF Readable THEN value ELSE current
  /\ pc' = "compare" /\ UNCHANGED returned
  /\ UNCHANGED <<kind, now, variable, lock, writer, mtx, result, signalled>>

\* The loop: a match, the time is up, or 50 ms of sleep.
Compare ==
  /\ pc = "compare"
  /\ IF current = Expected
       THEN pc' = "destruct" /\ returned' = "match" /\ UNCHANGED current
       ELSE WaiterGoes(IF now > Deadline THEN "destruct" ELSE "fetch")
  /\ UNCHANGED <<kind, now, variable, lock, writer, mtx, result, signalled>>

-----------------------------------------------------------------------------

Tick ==
  /\ now < MaxTime
  /\ now' = now + 1
  /\ UNCHANGED <<kind, variable, lock, writer, waiter, mtx, result, signalled>>

WriterStep(w) == CallBack(w) \/ SetResult(w) \/ Notify(w)

\* A sleep ends for certain when cv was notified or at the deadline.
WaiterStep ==
  \/ Construct \/ LockMutex \/ Predicate
  \/ WakeUp /\ (signalled \/ now >= Deadline)
  \/ Read \/ Destruct \/ Fetch \/ Compare

Next ==
  \/ \E w \in Writer : Update(w) \/ WriterStep(w)
  \/ WaiterStep
  \/ WakeUp
  \/ Tick

\* Threads run, no lock is withheld for ever from a thread that wants it, and time
\* passes.  Nobody has to update the variable.
Spec ==
  /\ Init /\ [][Next]_vars
  /\ \A w \in Writer : SF_vars(WriterStep(w))
  /\ SF_vars(WaiterStep)
  /\ WF_vars(Tick)

-----------------------------------------------------------------------------
(* Properties *)

\* The type invariant.
TypeOK ==
  /\ now \in 0 .. MaxTime /\ writes \in 0 .. MaxWrites
  /\ value \in Value /\ current \in Value \union {Unknown}
  /\ {encoded, underLock, supported, available, result, signalled} \subseteq BOOLEAN
  /\ callback \in [installed : BOOLEAN, target : {"none", "waiter"}]
  /\ lock \in Writer \union {Nobody} /\ mtx \in {Waiter, Nobody}
  /\ at \in [Writer -> {"idle", "call", "callback", "notify", "thrown"}]
  /\ connected \in [Writer -> BOOLEAN]
  /\ pc \in {"construct", "lock", "predicate", "sleep", "read", "destruct", "end", "fetch", "compare"}
  /\ returned \in {"nothing", "match", "true", "false"}

\* The waiter never sleeps through the update it waits for: while it sleeps without
\* having been notified, either an update is still on its way to the callback or the
\* variable does not have the expected value (callback and loop of
\* WaitForVariableValue: the result is reset before the value is read).
NoLostUpdate ==
  (pc = "sleep" /\ ~signalled /\ \A w \in Writer : at[w] \in {"idle", "thrown"})
    => ~(Readable /\ value = Expected)

\* The callback refers to local variables of WaitForVariableValue: no thread is inside
\* it any more when the function has returned, provided the variable calls back with
\* the lock that SetMonitorCallback takes.
CallbackNeverOutlivesFrame ==
  pc = "end" /\ underLock => \A w \in Writer : at[w] \notin {"callback", "notify"}

\* When updates cease, the wait comes to an end: nobody waits for a lock that
\* another one holds while waiting, and the deadline is noticed.
WaitTerminates == pc # "end" ~> pc = "end"

\* VariableCallbackGuard, as documented, removes its callback upon destruction.
GuardRemovesCallback == pc = "end" => ~callback.installed

\* WaitForVariableValue, as documented, waits for the timeout and no longer, however
\* often the variable is updated.
WaitEndsAfterTimeout == now > Deadline ~> pc = "end"

=============================================================================
