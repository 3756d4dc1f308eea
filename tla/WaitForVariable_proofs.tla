------------------------ MODULE WaitForVariable_proofs ------------------------
(***************************************************************************)
(* The invariants of WaitForVariable, for any number of threads that       *)
(* update the variable, any values, any number of updates and any          *)
(* deadline.                                                               *)
(***************************************************************************)
EXTENDS WaitForVariable, TLAPS

Busy == {"call", "callback", "notify"}

\* Where WaitForVariableValue uses its callback.
Waiting == {"lock", "predicate", "sleep", "read"}

\* A thread that calls back under the variable's lock holds it.
HoldsLock == underLock => \A w \in Writer : at[w] \in Busy => lock = w

\* Updates are in order, with the variable's lock or without it.
OneUpdate == \A v, w \in Writer : at[v] \in Busy /\ at[w] \in Busy => v = w

\* The callback is there for as long as the function needs it.
CallbackInstalled ==
  /\ pc \in Waiting => supported /\ callback.installed /\ callback.target = "waiter"
  /\ pc \in {"fetch", "compare"} => ~supported
  /\ pc \in {"construct", "end"} \/ ~supported => callback.target = "none"
  /\ pc = "construct" => ~callback.installed

\* What a thread is about to tell the callback is still true of the variable.
ReportIsCurrent == \A w \in Writer : at[w] \in {"call", "callback"} => connected[w] = Readable

\* The result is as constructed until the callback can change it.
ResultAtFirst == pc = "construct" => result /\ \A w \in Writer : at[w] \in {"idle", "call"}

\* When all updates so far have been reported, the result says that the expected value
\* is there to be read, until the function reads it.
ResultIsKept ==
  /\ pc \in {"lock", "predicate", "sleep"}
  /\ \A w \in Writer : at[w] \notin {"call", "callback"}
  /\ Readable /\ value = Expected
  => result

\* Who sets the result while the function sleeps goes on to wake it.
SleeperIsWoken == pc = "sleep" /\ result => signalled \/ \E w \in Writer : at[w] = "notify"

IInv ==
  /\ TypeOK
  /\ HoldsLock
  /\ OneUpdate
  /\ CallbackInstalled
  /\ ReportIsCurrent
  /\ ResultAtFirst
  /\ ResultIsKept
  /\ SleeperIsWoken
  /\ CallbackNeverOutlivesFrame

-----------------------------------------------------------------------------
(* IInv is inductive *)

LEMMA InitIInv == Init => IInv
<1> SUFFICES ASSUME Init PROVE IInv
  OBVIOUS
<1>1. TypeOK
  <2>1. {encoded, underLock, supported, available, result, signalled} \subseteq BOOLEAN
    BY Zenon DEF Init
  <2> QED BY <2>1, BoundAssumption DEF Init, TypeOK
<1>2. HoldsLock /\ OneUpdate /\ ReportIsCurrent
  BY DEF Init, HoldsLock, OneUpdate, ReportIsCurrent, Busy
<1>3. /\ CallbackInstalled /\ ResultAtFirst /\ ResultIsKept
      /\ SleeperIsWoken /\ CallbackNeverOutlivesFrame
  BY DEF Init, CallbackInstalled, ResultAtFirst, ResultIsKept, SleeperIsWoken, Waiting,
         CallbackNeverOutlivesFrame
<1> QED BY <1>1, <1>2, <1>3 DEF IInv

LEMMA TypeIsKept == TypeOK /\ [Next]_vars => TypeOK'
<1> SUFFICES ASSUME TypeOK, [Next]_vars PROVE TypeOK'
  OBVIOUS
<1> USE BoundAssumption, ValueAssumption, SwitchAssumption
    DEF TypeOK, kind, variable, writer, waiter, WriterGoes, WaiterGoes, Done, Install
<1>1. ASSUME NEW w \in Writer, Update(w) PROVE TypeOK'
  <2>1. writes' \in 0 .. MaxWrites
    BY <1>1 DEF Update
  <2>2. connected' \in [Writer -> BOOLEAN]
    BY <1>1 DEF Update, Decodes
  <2> QED BY <1>1, <2>1, <2>2 DEF Update
<1>2. ASSUME NEW w \in Writer, WriterStep(w) PROVE TypeOK'
  <2>1. CASE CallBack(w)
    BY <2>1 DEF CallBack
  <2>2. CASE SetResult(w)
    BY <2>2 DEF SetResult
  <2>3. CASE Notify(w)
    BY <2>3 DEF Notify
  <2> QED BY <1>2, <2>1, <2>2, <2>3 DEF WriterStep
<1>3. CASE Construct
  BY <1>3 DEF Construct
<1>4. CASE LockMutex
  BY <1>4 DEF LockMutex
<1>5. CASE Predicate
  BY <1>5 DEF Predicate
<1>6. CASE WakeUp
  BY <1>6 DEF WakeUp
<1>7. CASE Read
  BY <1>7 DEF Read
<1>8. CASE Destruct
  BY <1>8 DEF Destruct
<1>9. CASE Fetch
  BY <1>9 DEF Fetch
<1>10. CASE Compare
  BY <1>10 DEF Compare
<1>11. CASE Tick
  BY <1>11 DEF Tick
<1>12. CASE UNCHANGED vars
  BY <1>12 DEF vars
<1> QED
  BY <1>1, <1>2, <1>3, <1>4, <1>5, <1>6, <1>7, <1>8, <1>9, <1>10, <1>11, <1>12
     DEF Next, WaiterStep

\* A step of a thread that updates the variable.
LEMMA UpdateKeepsIInv ==
  ASSUME IInv, TypeOK', NEW w \in Writer, Update(w)
  PROVE  IInv'
<1> USE DEF IInv, TypeOK, Update, WriterGoes, kind, waiter
<1>1. underLock \/ ~underLock
  OBVIOUS
<1>2. \A v \in Writer : at[v] \notin Busy
  <2>1. CASE underLock
    BY <2>1, ThreadAssumption DEF HoldsLock
  <2>2. CASE ~underLock
    BY <2>2 DEF Busy
  <2> QED BY <2>1, <2>2
<1>3. at' = [at EXCEPT ![w] = "call"]
  OBVIOUS
<1>4. HoldsLock' /\ OneUpdate'
  BY <1>2, <1>3 DEF HoldsLock, OneUpdate
<1>5. CallbackInstalled'
  BY DEF CallbackInstalled
<1>6. ReportIsCurrent'
  <2>1. connected'[w] = Readable'
    BY DEF Readable, Decodes
  <2> QED BY <2>1, <1>2, <1>3 DEF ReportIsCurrent, Busy
<1>7. ResultAtFirst' /\ ResultIsKept' /\ SleeperIsWoken' /\ CallbackNeverOutlivesFrame'
  BY <1>2, <1>3
     DEF ResultAtFirst, ResultIsKept, SleeperIsWoken, CallbackNeverOutlivesFrame, Busy
<1> QED BY <1>1, <1>4, <1>5, <1>6, <1>7

LEMMA WriterStepKeepsIInv ==
  ASSUME IInv, TypeOK', NEW w \in Writer, WriterStep(w)
  PROVE  IInv'
<1> USE DEF IInv, TypeOK, WriterGoes, Done, kind, variable, waiter, Readable, Decodes, Busy
<1>1. ASSUME CallBack(w) PROVE IInv'
  <2> USE <1>1 DEF CallBack
  <2>1. HoldsLock' /\ OneUpdate'
    BY DEF HoldsLock, OneUpdate
  <2>2. CallbackInstalled' /\ ReportIsCurrent'
    BY DEF CallbackInstalled, ReportIsCurrent
  <2>3. ResultAtFirst'
    BY DEF ResultAtFirst, CallbackInstalled
  <2>4. ResultIsKept'
    BY DEF ResultIsKept, CallbackInstalled, Waiting
  <2>5. SleeperIsWoken' /\ CallbackNeverOutlivesFrame'
    BY DEF SleeperIsWoken, CallbackNeverOutlivesFrame, CallbackInstalled
  <2> QED BY <2>1, <2>2, <2>3, <2>4, <2>5
<1>2. ASSUME SetResult(w) PROVE IInv'
  <2> USE <1>2 DEF SetResult
  <2>1. HoldsLock' /\ OneUpdate'
    BY DEF HoldsLock, OneUpdate
  <2>2. CallbackInstalled' /\ ReportIsCurrent'
    BY DEF CallbackInstalled, ReportIsCurrent
  <2>3. ResultAtFirst'
    BY DEF ResultAtFirst
  <2>4. ResultIsKept'
    BY DEF ResultIsKept, ReportIsCurrent
  <2>5. SleeperIsWoken' /\ CallbackNeverOutlivesFrame'
    BY DEF SleeperIsWoken, CallbackNeverOutlivesFrame, CallbackInstalled
  <2> QED BY <2>1, <2>2, <2>3, <2>4, <2>5
<1>3. ASSUME Notify(w) PROVE IInv'
  <2> USE <1>3 DEF Notify
  <2>1. HoldsLock' /\ OneUpdate'
    BY DEF HoldsLock, OneUpdate
  <2>2. CallbackInstalled' /\ ReportIsCurrent'
    BY DEF CallbackInstalled, ReportIsCurrent
  <2>3. ResultAtFirst' /\ ResultIsKept'
    BY DEF ResultAtFirst, ResultIsKept
  <2>4. SleeperIsWoken' /\ CallbackNeverOutlivesFrame'
    BY DEF SleeperIsWoken, CallbackNeverOutlivesFrame, CallbackInstalled
  <2> QED BY <2>1, <2>2, <2>3, <2>4
<1> QED BY <1>1, <1>2, <1>3 DEF WriterStep

\* A step of the thread that waits.
LEMMA WaiterStepKeepsIInv ==
  ASSUME IInv, TypeOK', WaiterStep \/ WakeUp
  PROVE  IInv'
<1> USE ThreadAssumption
    DEF IInv, TypeOK, WaiterGoes, kind, variable, writer, Readable, Decodes, Busy, Waiting,
        HoldsLock, OneUpdate, ReportIsCurrent, Install
<1>1. CASE Construct
  BY <1>1 DEF Construct, CallbackInstalled, ResultAtFirst, ResultIsKept, SleeperIsWoken,
     CallbackNeverOutlivesFrame
<1>2. CASE LockMutex
  BY <1>2 DEF LockMutex, CallbackInstalled, ResultAtFirst, ResultIsKept, SleeperIsWoken,
     CallbackNeverOutlivesFrame
<1>3. CASE Predicate
  BY <1>3 DEF Predicate, CallbackInstalled, ResultAtFirst, ResultIsKept, SleeperIsWoken,
     CallbackNeverOutlivesFrame
<1>4. CASE WakeUp
  BY <1>4 DEF WakeUp, CallbackInstalled, ResultAtFirst, ResultIsKept, SleeperIsWoken,
     CallbackNeverOutlivesFrame
<1>5. CASE Read
  BY <1>5 DEF Read, CallbackInstalled, ResultAtFirst, ResultIsKept, SleeperIsWoken,
     CallbackNeverOutlivesFrame
<1>6. CASE Destruct
  BY <1>6 DEF Destruct, CallbackInstalled, ResultAtFirst, ResultIsKept, SleeperIsWoken,
     CallbackNeverOutlivesFrame
<1>7. CASE Fetch
  BY <1>7 DEF Fetch, CallbackInstalled, ResultAtFirst, ResultIsKept, SleeperIsWoken,
     CallbackNeverOutlivesFrame
<1>8. CASE Compare
  BY <1>8 DEF Compare, CallbackInstalled, ResultAtFirst, ResultIsKept, SleeperIsWoken,
     CallbackNeverOutlivesFrame
<1> QED BY <1>1, <1>2, <1>3, <1>4, <1>5, <1>6, <1>7, <1>8 DEF WaiterStep

LEMMA StutterKeepsIInv ==
  ASSUME IInv, Tick \/ UNCHANGED vars
  PROVE  IInv'
<1>1. TypeOK'
  BY TypeIsKept DEF IInv, Next
<1>2. UNCHANGED <<kind, variable, lock, writer, waiter, mtx, result, signalled>>
  BY DEF Tick, vars
<1> QED
  BY <1>1, <1>2
     DEF IInv, kind, variable, writer, waiter, Readable, Decodes, HoldsLock, OneUpdate,
         CallbackInstalled, ReportIsCurrent, ResultAtFirst, ResultIsKept, SleeperIsWoken,
         CallbackNeverOutlivesFrame

LEMMA NextKeepsIInv == IInv /\ [Next]_vars => IInv'
<1> SUFFICES ASSUME IInv, [Next]_vars PROVE IInv'
  OBVIOUS
<1>1. TypeOK'
  BY TypeIsKept DEF IInv
<1> QED
  BY <1>1, UpdateKeepsIInv, WriterStepKeepsIInv, WaiterStepKeepsIInv, StutterKeepsIInv DEF Next

-----------------------------------------------------------------------------
(* Theorems *)

LEMMA SpecIInv == Spec => []IInv
<1> QED BY InitIInv, NextKeepsIInv, PTL DEF Spec

\* The variables have their types.
THEOREM WaitTypeCorrect == Spec => []TypeOK
<1>1. IInv => TypeOK
  BY DEF IInv
<1> QED BY <1>1, SpecIInv, PTL

\* WaitForVariableValue does not sleep through the update that it waits for, with any
\* number of threads updating the variable (the callback sets the result under the
\* mutex, and the result is reset before the variable is read).
THEOREM WaitLosesNoUpdate == Spec => []NoLostUpdate
<1>1. IInv => NoLostUpdate
  BY DEF IInv, TypeOK, NoLostUpdate, ResultIsKept, SleeperIsWoken,
     CallbackNeverOutlivesFrame
<1> QED BY <1>1, SpecIInv, PTL

\* No thread is inside the callback of WaitForVariableValue after it has returned, if
\* the variable calls back with the lock that SetMonitorCallback takes.
THEOREM CallbackIsContained == Spec => []CallbackNeverOutlivesFrame
<1>1. IInv => CallbackNeverOutlivesFrame
  BY DEF IInv
<1> QED BY <1>1, SpecIInv, PTL

=============================================================================
