----------------------- MODULE AsyncInvokeServer_proofs -----------------------
(***************************************************************************)
(* Proofs about AsyncInvokeServer, for any set of threads, any number of   *)
(* requests, any expiration time and, unless a theorem says otherwise, a   *)
(* clock that may be set back.                                             *)
(***************************************************************************)
EXTENDS AsyncInvokeServer, TLAPS

\* Identifiers in the table are those already drawn.
IdsWereDrawn == Live \subseteq 1 .. last_id

\* Exactly the thread that holds m_mtx is inside an operation.
OnlyHolderInside == \A t \in Thread : pc[t] # "idle" <=> mtx = t

\* The entry that an operation works on stays in the table until its Reap.
TargetIsLive ==
  \A t \in Thread : pc[t] \in {"touch", "check", "reap"} => reply[t].id \in Live

\* A consumed future is the target of the GetReply that is about to erase it.
EmptyIsBeingReaped ==
  \A id \in Live : invokes[id].future = "empty" =>
    \E t \in Thread : mtx = t /\ pc[t] = "reap" /\ reply[t].id = id

IInv ==
  /\ TypeOK
  /\ IdsWereDrawn
  /\ OnlyHolderInside
  /\ TargetIsLive
  /\ EmptyIsBeingReaped

USE DEF Id, Time, Finished, Future, AsyncInvoke, Command, Result, Reply, Live

-----------------------------------------------------------------------------
(* IInv is inductive *)

LEMMA InitIInv == Init => IInv
  BY ThreadAssumption, TimeAssumption, IdAssumption
     DEF Init, IInv, TypeOK, IdsWereDrawn, OnlyHolderInside, TargetIsLive, EmptyIsBeingReaped,
         NewInvoke, NoReply

LEMMA NewRequestKeepsIInv ==
  ASSUME IInv, NEW t \in Thread, NewRequest(t)
  PROVE  IInv'
  BY ThreadAssumption, TimeAssumption, IdAssumption
     DEF IInv, TypeOK, IdsWereDrawn, OnlyHolderInside, TargetIsLive, EmptyIsBeingReaped,
         NewRequest, CanLock, GetRequestId, Emplace, NewInvoke, Return, Answer

LEMMA CallWithoutEffectKeepsIInv ==
  ASSUME IInv, NEW t \in Thread,
         \/ NewRequestThrows(t)
         \/ RejectInvoke(t)
         \/ Collect(t)
         \/ \E id \in Id, c \in {"poll", "get", "invalidate", "wait"} : UnknownId(t, c, id)
  PROVE  IInv'
<1>1. TypeOK'
  <2>1. CASE NewRequestThrows(t)
    BY <2>1, IdAssumption DEF IInv, TypeOK, NewRequestThrows, GetRequestId, Return, Answer
  <2>2. CASE RejectInvoke(t)
    BY <2>2, IdAssumption DEF IInv, TypeOK, RejectInvoke, Return, Answer
  <2>3. ASSUME NEW id \in Id, NEW c \in {"poll", "get", "invalidate", "wait"}, UnknownId(t, c, id)
        PROVE  TypeOK'
    BY <2>3, IdAssumption DEF IInv, TypeOK, UnknownId, Return, Answer
  <2>4. CASE Collect(t)
    BY <2>4, IdAssumption DEF IInv, TypeOK, Collect, Return, NoReply
  <2> QED BY <2>1, <2>2, <2>3, <2>4
<1>2. IdsWereDrawn'
  BY ThreadAssumption, TimeAssumption, IdAssumption
     DEF IInv, TypeOK, IdsWereDrawn,
         NewRequestThrows, RejectInvoke, UnknownId, Collect, NoReply, CanLock, GetRequestId,
         Return, Answer
<1>3. OnlyHolderInside'
  BY ThreadAssumption, TimeAssumption, IdAssumption
     DEF IInv, TypeOK, OnlyHolderInside,
         NewRequestThrows, RejectInvoke, UnknownId, Collect, NoReply, CanLock, GetRequestId,
         Return, Answer
<1>4. TargetIsLive'
  BY ThreadAssumption, TimeAssumption, IdAssumption
     DEF IInv, TypeOK, OnlyHolderInside, TargetIsLive,
         NewRequestThrows, RejectInvoke, UnknownId, Collect, NoReply, CanLock, GetRequestId,
         Return, Answer
<1>5. EmptyIsBeingReaped'
  BY ThreadAssumption, TimeAssumption, IdAssumption
     DEF IInv, TypeOK, OnlyHolderInside, TargetIsLive, EmptyIsBeingReaped,
         NewRequestThrows, RejectInvoke, UnknownId, Collect, NoReply, CanLock, GetRequestId,
         Return, Answer
<1> QED BY <1>1, <1>2, <1>3, <1>4, <1>5 DEF IInv

LEMMA EnterKeepsIInv ==
  ASSUME IInv, NEW t \in Thread,
         \/ CleanUp(t)
         \/ \E id \in Id : Poll(t, id) \/ WaitForReady(t, id)
  PROVE  IInv'
<1>1. TypeOK'
  <2>1. CASE CleanUp(t)
    BY <2>1, IdAssumption DEF IInv, TypeOK, CleanUp, Enter, Answer
  <2>2. ASSUME NEW id \in Id, Poll(t, id)
        PROVE  TypeOK'
    <3>1. /\ Answer("poll", id, "Success", FALSE) \in Reply
          /\ Answer("poll", id, "InvalidAsynchronousOperationError", FALSE) \in Reply
      BY IdAssumption DEF Answer
    <3>2. CASE IsReadyForRemoval(id)
      BY <2>2, <3>1, <3>2 DEF IInv, TypeOK, Poll, Return
    <3>3. CASE ~IsReadyForRemoval(id)
      BY <2>2, <3>1, <3>3 DEF IInv, TypeOK, Poll, Enter
    <3> QED BY <3>2, <3>3
  <2>3. ASSUME NEW id \in Id, WaitForReady(t, id)
        PROVE  TypeOK'
    BY <2>3, IdAssumption DEF IInv, TypeOK, WaitForReady, Enter, Answer
  <2> QED BY <2>1, <2>2, <2>3
<1>2. IdsWereDrawn'
  BY ThreadAssumption, TimeAssumption, IdAssumption
     DEF IInv, TypeOK, IdsWereDrawn,
         CleanUp, Poll, WaitForReady, CanLock, Enter, Return, Answer
<1>3. OnlyHolderInside'
  BY ThreadAssumption, TimeAssumption, IdAssumption
     DEF IInv, TypeOK, OnlyHolderInside,
         CleanUp, Poll, WaitForReady, CanLock, Enter, Return, Answer
<1>4. TargetIsLive'
  BY ThreadAssumption, TimeAssumption, IdAssumption
     DEF IInv, TypeOK, OnlyHolderInside, TargetIsLive,
         CleanUp, Poll, WaitForReady, CanLock, Enter, Return, Answer
<1>5. EmptyIsBeingReaped'
  BY ThreadAssumption, TimeAssumption, IdAssumption
     DEF IInv, TypeOK, OnlyHolderInside, TargetIsLive, EmptyIsBeingReaped,
         CleanUp, Poll, WaitForReady, CanLock, Enter, Return, Answer
<1> QED BY <1>1, <1>2, <1>3, <1>4, <1>5 DEF IInv

LEMMA GetReplyKeepsIInv ==
  ASSUME IInv, NEW t \in Thread, NEW id \in Id, GetReply(t, id)
  PROVE  IInv'
<1>1. TypeOK'
  <2>1. invokes' \in [Live -> AsyncInvoke]
    <3>1. CASE CanTakeReply(id)
      BY <3>1 DEF IInv, TypeOK, GetReply
    <3>2. CASE ~CanTakeReply(id)
      BY <3>2 DEF IInv, TypeOK, GetReply
    <3> QED BY <3>1, <3>2
  <2>2. reply' \in [Thread -> Reply]
    <3>1. /\ Answer("get", id, TakenResult(id), FALSE) \in Reply
          /\ Answer("get", id, "InvalidAsynchronousOperationError", FALSE) \in Reply
      BY IdAssumption DEF Answer, TakenResult
    <3> QED BY <3>1 DEF IInv, TypeOK, GetReply, Enter
  <2> QED
    BY <2>1, <2>2 DEF IInv, TypeOK, GetReply, Enter
<1>2. IdsWereDrawn'
  BY ThreadAssumption, TimeAssumption, IdAssumption
     DEF IInv, TypeOK, IdsWereDrawn,
         GetReply, CanLock, CanTakeReply, IsFinished, TakenResult, Enter, Answer
<1>3. OnlyHolderInside'
  BY ThreadAssumption, TimeAssumption, IdAssumption
     DEF IInv, TypeOK, OnlyHolderInside,
         GetReply, CanLock, CanTakeReply, IsFinished, TakenResult, Enter, Answer
<1>4. TargetIsLive'
  BY ThreadAssumption, TimeAssumption, IdAssumption
     DEF IInv, TypeOK, OnlyHolderInside, TargetIsLive,
         GetReply, CanLock, CanTakeReply, IsFinished, TakenResult, Enter, Answer
<1>5. EmptyIsBeingReaped'
  BY ThreadAssumption, TimeAssumption, IdAssumption
     DEF IInv, TypeOK, OnlyHolderInside, TargetIsLive, EmptyIsBeingReaped,
         GetReply, CanLock, CanTakeReply, IsFinished, TakenResult, Enter, Answer
<1> QED BY <1>1, <1>2, <1>3, <1>4, <1>5 DEF IInv

LEMMA InvalidateKeepsIInv ==
  ASSUME IInv, NEW t \in Thread, NEW id \in Id, Invalidate(t, id)
  PROVE  IInv'
<1>1. TypeOK'
  <2>1. invokes' \in [Live -> AsyncInvoke]
    BY DEF IInv, TypeOK, Invalidate
  <2>2. reply' \in [Thread -> Reply]
    BY IdAssumption DEF IInv, TypeOK, Invalidate, Enter, Answer
  <2> QED
    BY <2>1, <2>2 DEF IInv, TypeOK, Invalidate, Enter
<1>2. IdsWereDrawn'
  BY ThreadAssumption, TimeAssumption, IdAssumption
     DEF IInv, TypeOK, IdsWereDrawn,
         Invalidate, CanLock, Enter, Answer
<1>3. OnlyHolderInside'
  BY ThreadAssumption, TimeAssumption, IdAssumption
     DEF IInv, TypeOK, OnlyHolderInside,
         Invalidate, CanLock, Enter, Answer
<1>4. TargetIsLive'
  BY ThreadAssumption, TimeAssumption, IdAssumption
     DEF IInv, TypeOK, OnlyHolderInside, TargetIsLive,
         Invalidate, CanLock, Enter, Answer
<1>5. EmptyIsBeingReaped'
  BY ThreadAssumption, TimeAssumption, IdAssumption
     DEF IInv, TypeOK, OnlyHolderInside, TargetIsLive, EmptyIsBeingReaped,
         Invalidate, CanLock, Enter, Answer
<1> QED BY <1>1, <1>2, <1>3, <1>4, <1>5 DEF IInv

LEMMA TouchKeepsIInv ==
  ASSUME IInv, NEW t \in Thread, Touch(t)
  PROVE  IInv'
<1> DEFINE given_up == invokes[reply[t].id].future = "empty" \/ invokes[reply[t].id].invalidated
<1>1. reply[t].id \in Live /\ mtx = t /\ pc[t] = "touch" /\ UNCHANGED <<now, last_id, issued>>
  BY DEF IInv, TargetIsLive, OnlyHolderInside, Touch, At
<1>2. CASE given_up
  <2>1. Leave(t, reply[t]) /\ UNCHANGED invokes
    BY <1>2 DEF Touch
  <2> QED
    BY <2>1, <1>1, ThreadAssumption
       DEF IInv, TypeOK, IdsWereDrawn, OnlyHolderInside, TargetIsLive, EmptyIsBeingReaped, Leave
<1>3. CASE ~given_up
  <2>1. /\ invokes' = [invokes EXCEPT ![reply[t].id].last_access = now]
        /\ pc' = [pc EXCEPT ![t] = "check"]
        /\ UNCHANGED <<mtx, reply>>
    BY <1>3 DEF Touch
  <2>2. TypeOK'
    BY <2>1, <1>1 DEF IInv, TypeOK
  <2>3. IdsWereDrawn' /\ OnlyHolderInside' /\ TargetIsLive'
    BY <2>1, <1>1 DEF IInv, TypeOK, IdsWereDrawn, OnlyHolderInside, TargetIsLive
  <2>4. EmptyIsBeingReaped'
    BY <2>1, <1>1 DEF IInv, TypeOK, EmptyIsBeingReaped
  <2> QED BY <2>2, <2>3, <2>4 DEF IInv
<1> QED BY <1>2, <1>3

LEMMA CheckKeepsIInv ==
  ASSUME IInv, NEW t \in Thread, Check(t)
  PROVE  IInv'
<1>1. TypeOK'
  <2> DEFINE finished == IsFinished(reply[t].id)
  <2>1. finished \in BOOLEAN
    BY DEF IsFinished
  <2>2. [reply[t] EXCEPT !.ready = finished] \in Reply
    <3> HIDE DEF finished
    <3> QED BY <2>1 DEF IInv, TypeOK
  <2> QED
    BY <2>2 DEF IInv, TypeOK, Check, Leave
<1>2. IdsWereDrawn'
  BY ThreadAssumption, TimeAssumption, IdAssumption
     DEF IInv, TypeOK, IdsWereDrawn,
         Check, At, Leave, IsFinished
<1>3. OnlyHolderInside'
  BY ThreadAssumption, TimeAssumption, IdAssumption
     DEF IInv, TypeOK, OnlyHolderInside,
         Check, At, Leave, IsFinished
<1>4. TargetIsLive'
  BY ThreadAssumption, TimeAssumption, IdAssumption
     DEF IInv, TypeOK, OnlyHolderInside, TargetIsLive,
         Check, At, Leave, IsFinished
<1>5. EmptyIsBeingReaped'
  BY ThreadAssumption, TimeAssumption, IdAssumption
     DEF IInv, TypeOK, OnlyHolderInside, TargetIsLive, EmptyIsBeingReaped,
         Check, At, Leave, IsFinished
<1> QED BY <1>1, <1>2, <1>3, <1>4, <1>5 DEF IInv

LEMMA ReapKeepsIInv ==
  ASSUME IInv, NEW t \in Thread, Reap(t)
  PROVE  IInv'
  BY ThreadAssumption, TimeAssumption, IdAssumption
     DEF IInv, TypeOK, IdsWereDrawn, OnlyHolderInside, TargetIsLive, EmptyIsBeingReaped,
         Reap, At, Leave, Erase, IsReadyForRemoval

LEMMA SweepKeepsIInv ==
  ASSUME IInv, NEW t \in Thread, SweepOne(t) \/ SweepEnd(t)
  PROVE  IInv'
<1>1. CASE SweepEnd(t)
  BY <1>1, IdAssumption, ThreadAssumption
     DEF IInv, TypeOK, IdsWereDrawn, OnlyHolderInside, TargetIsLive, EmptyIsBeingReaped,
         SweepEnd, At, Leave
<1>2. CASE SweepOne(t)
  <2>1. PICK id \in Live :
          /\ invokes' = IF IsReadyForRemoval(id) THEN Erase(id) ELSE invokes
          /\ reply' = [reply EXCEPT ![t].id = id]
    BY <1>2 DEF SweepOne
  <2>2. /\ mtx = t /\ pc[t] = "sweep"
        /\ UNCHANGED <<now, last_id, mtx, pc, issued>>
    BY <1>2 DEF SweepOne, At
  <2>3. /\ Live' \subseteq Live
        /\ \A i \in Live' : invokes'[i] = invokes[i]
        /\ invokes' \in [Live' -> AsyncInvoke]
    BY <2>1 DEF IInv, TypeOK, Erase
  <2>4. /\ reply' \in [Thread -> Reply]
        /\ \A u \in Thread \ {t} : reply'[u] = reply[u]
    <3>1. id \in 0 .. MaxId
      BY IdAssumption DEF IInv, TypeOK
    <3>2. [reply[t] EXCEPT !.id = id] \in Reply
      BY <3>1 DEF IInv, TypeOK
    <3> QED BY <2>1, <3>2 DEF IInv, TypeOK
  <2>5. \A u \in Thread \ {t} : pc[u] = "idle"
    BY <2>2, ThreadAssumption DEF IInv, OnlyHolderInside
  <2> QED
    BY <2>2, <2>3, <2>4, <2>5
       DEF IInv, TypeOK, IdsWereDrawn, OnlyHolderInside, TargetIsLive, EmptyIsBeingReaped
<1> QED BY <1>1, <1>2

LEMMA FinishKeepsIInv ==
  ASSUME IInv, NEW id \in Live, Finish(id)
  PROVE  IInv'
  BY ThreadAssumption, TimeAssumption, IdAssumption
     DEF IInv, TypeOK, IdsWereDrawn, OnlyHolderInside, TargetIsLive, EmptyIsBeingReaped, Finish

LEMMA ClockKeepsIInv ==
  ASSUME IInv, Tick \/ UNCHANGED vars
  PROVE  IInv'
  BY ThreadAssumption, TimeAssumption, IdAssumption
     DEF IInv, TypeOK, IdsWereDrawn, OnlyHolderInside, TargetIsLive, EmptyIsBeingReaped,
         Tick, NextInstant, vars

LEMMA NextKeepsIInv == IInv /\ [Next]_vars => IInv'
  BY NewRequestKeepsIInv, CallWithoutEffectKeepsIInv, EnterKeepsIInv, GetReplyKeepsIInv,
     InvalidateKeepsIInv, TouchKeepsIInv, CheckKeepsIInv, ReapKeepsIInv, SweepKeepsIInv,
     FinishKeepsIInv, ClockKeepsIInv
     DEF Next, Call, Step, Environment

THEOREM Inductive == Spec => []IInv
<1>1. Init => IInv
  BY InitIInv
<1>2. IInv /\ [Next]_vars => IInv'
  BY NextKeepsIInv
<1> QED BY <1>1, <1>2, PTL DEF Spec

-----------------------------------------------------------------------------
(* What follows from it *)

\* The state of the server is always well typed, for any number of threads.
THEOREM TypeCorrect == Spec => []TypeOK
<1>1. IInv => TypeOK
  BY DEF IInv
<1> QED BY <1>1, Inductive, PTL

\* No reply is ever handed out twice: as soon as m_mtx is free, the request whose
\* reply GetReply consumed is no longer in the table.
THEOREM RepliesAreErased == Spec => []RetrievedIsErased
<1>1. IInv => RetrievedIsErased
  BY ThreadAssumption DEF IInv, EmptyIsBeingReaped, RetrievedIsErased
<1> QED BY <1>1, Inductive, PTL

\* An entry disappears only in a Reap or a step of the sweep that found it ready
\* for removal.
LEMMA ErasedOnlyIfReady ==
  ASSUME IInv, [Next]_vars, NEW id \in Live, id \notin Live'
  PROVE  IsReadyForRemoval(id)
<1>1. PICK t \in Thread : Reap(t) \/ SweepOne(t)
  BY DEF IInv, TypeOK, Next, Call, Step, vars, NewRequest, Emplace, NewRequestThrows, RejectInvoke,
         CleanUp, UnknownId, Poll, WaitForReady, GetReply, Invalidate, Touch, Check, SweepEnd,
         Environment, Finish, Tick, Collect
<1>2. PICK i \in Live : invokes' = IF IsReadyForRemoval(i) THEN Erase(i) ELSE invokes
  BY <1>1 DEF Reap, At, SweepOne, IInv, TargetIsLive
<1> QED BY <1>2 DEF Erase

\* No thread destroys the future of a running worker while it holds m_mtx, where
\* the destructor would block the whole server.
THEOREM NeverBlocksInErase == Spec => NoBlockingErase
<1>1. IInv /\ [Next]_vars =>
        [\A id \in Live \ DOMAIN invokes' : invokes[id].future # "running"]_vars
  BY ErasedOnlyIfReady DEF IsReadyForRemoval, IsFinished
<1> QED BY <1>1, Inductive, PTL DEF Spec, NoBlockingErase

\* So are those in the clients' hands.
IssuedWereDrawn == issued \subseteq 1 .. last_id

LEMMA InvariantIssuedWereDrawn == Spec => []IssuedWereDrawn
<1>1. Init => IssuedWereDrawn
  BY DEF Init, IssuedWereDrawn
<1>2. IInv /\ IssuedWereDrawn /\ [Next]_vars => IssuedWereDrawn'
  <2> SUFFICES ASSUME IInv, IssuedWereDrawn, [Next]_vars PROVE IssuedWereDrawn'
    OBVIOUS
  <2>1. last_id \in Nat
    BY IdAssumption DEF IInv, TypeOK
  <2>2. CASE \E t \in Thread : NewRequest(t) \/ NewRequestThrows(t)
    <3>1. last_id' = last_id + 1 /\ issued' \subseteq issued \union {last_id + 1}
      BY <2>2 DEF NewRequest, NewRequestThrows, GetRequestId
    <3> QED BY <2>1, <3>1 DEF IssuedWereDrawn
  <2>3. CASE UNCHANGED <<last_id, issued>>
    BY <2>3 DEF IssuedWereDrawn
  <2> QED
    BY <2>2, <2>3
       DEF Next, Call, Step, vars, RejectInvoke, CleanUp, UnknownId, Poll, WaitForReady, GetReply,
           Invalidate, Touch, Check, Reap, SweepOne, SweepEnd, Environment, Finish, Tick, Collect
<1> QED BY <1>1, <1>2, Inductive, PTL DEF Spec

\* A new request gets an identifier that no client ever got before.
THEOREM IdsAreFresh == Spec => FreshIds
<1>1. IInv /\ IssuedWereDrawn /\ [Next]_vars =>
        [\A t \in Thread : NewRequest(t) => reply'[t].id \notin issued]_vars
  BY IdAssumption DEF IInv, TypeOK, IssuedWereDrawn, NewRequest, GetRequestId, Return, Answer
<1> QED BY <1>1, Inductive, InvariantIssuedWereDrawn, PTL DEF Spec, FreshIds

-----------------------------------------------------------------------------
(* What a thread inside an operation is about to answer *)

\* An operation that locks the free mutex finds no thread inside.
LEMMA NobodyInside ==
  ASSUME IInv, NEW t \in Thread, CanLock(t)
  PROVE  \A u \in Thread : pc[u] = "idle"
  BY ThreadAssumption DEF IInv, OnlyHolderInside, CanLock

\* Thread t is about to give this answer, about the entry it works on.
Tells(t, c, res) == reply[t].command = c /\ reply[t].result = res /\ ~reply[t].ready

\* What a thread is about to answer fits the entry it works on.
AnswerFits(t) ==
  LET entry == invokes[reply[t].id] IN
  /\ pc[t] \in {"touch", "check"} => Tells(t, "poll", "Success") \/ Tells(t, "wait", "none")
  /\ pc[t] = "check" => ~entry.invalidated
  /\ pc[t] = "reap" =>
       \/ /\ Tells(t, "get", "Invoked") \/ Tells(t, "get", "ServerProtocolException")
          /\ entry.future = "empty" /\ ~entry.invalidated
       \/ Tells(t, "get", "InvalidAsynchronousOperationError") /\ entry.future # "empty"
       \/ Tells(t, "invalidate", "Success") /\ entry.future # "empty" /\ entry.invalidated
  /\ pc[t] = "sweep" => Tells(t, "cleanup", "none")

HolderAnswers == \A t \in Thread : AnswerFits(t)

\* To a thread that is idle, or that nothing happens to, it goes on to apply.
LEMMA OthersFit ==
  ASSUME HolderAnswers, NEW t \in Thread,
         \A u \in Thread \ {t} : pc'[u] = "idle",
         AnswerFits(t)'
  PROVE  HolderAnswers'
  BY DEF HolderAnswers, AnswerFits

LEMMA CallKeepsAnswers ==
  ASSUME IInv, HolderAnswers, NEW t \in Thread, Call(t)
  PROVE  HolderAnswers'
<1> USE DEF IInv, TypeOK
<1>1. CASE NewRequest(t) \/ NewRequestThrows(t)
  BY <1>1, NobodyInside DEF NewRequest, NewRequestThrows, Return, HolderAnswers, AnswerFits
<1>2. CASE RejectInvoke(t)
  <2>1. pc[t] = "idle" /\ UNCHANGED <<pc, invokes>> /\ \A u \in Thread \ {t} : reply'[u] = reply[u]
    BY <1>2 DEF RejectInvoke, Return
  <2> QED BY <2>1 DEF HolderAnswers, AnswerFits, Tells
<1>3. CASE CleanUp(t)
  BY <1>3, NobodyInside DEF CleanUp, Enter, Answer, HolderAnswers, AnswerFits, Tells
<1>4. ASSUME NEW id \in Id, NEW c \in {"poll", "get", "invalidate", "wait"}, UnknownId(t, c, id)
      PROVE  HolderAnswers'
  BY <1>4, NobodyInside DEF UnknownId, Return, HolderAnswers, AnswerFits
<1>5. ASSUME NEW id \in Id, Poll(t, id) \/ WaitForReady(t, id)
      PROVE  HolderAnswers'
  BY <1>5, NobodyInside DEF Poll, WaitForReady, Return, Enter, Answer, HolderAnswers, AnswerFits, Tells
<1>6. ASSUME NEW id \in Id, GetReply(t, id)
      PROVE  HolderAnswers'
  <2>1. /\ \A u \in Thread \ {t} : pc'[u] = "idle"
        /\ pc'[t] = "reap"
    BY <1>6, NobodyInside DEF GetReply, Enter
  <2>2. id \in Live /\ invokes[id].future # "empty"
    BY <1>6, ThreadAssumption DEF GetReply, CanLock, EmptyIsBeingReaped
  <2>3. CASE CanTakeReply(id)
    <3>1. /\ reply'[t] = Answer("get", id, TakenResult(id), FALSE)
          /\ invokes' = [invokes EXCEPT ![id].future = "empty"]
      BY <1>6, <2>3 DEF GetReply, Enter
    <3>2. TakenResult(id) \in {"Invoked", "ServerProtocolException"} /\ ~invokes[id].invalidated
      BY <2>3 DEF TakenResult, CanTakeReply
    <3> QED BY <2>1, <2>2, <3>1, <3>2, OthersFit DEF AnswerFits, Tells, Answer
  <2>4. CASE ~CanTakeReply(id)
    <3>1. /\ reply'[t] = Answer("get", id, "InvalidAsynchronousOperationError", FALSE)
          /\ invokes' = invokes
      BY <1>6, <2>4 DEF GetReply, Enter
    <3> QED BY <2>1, <2>2, <3>1, OthersFit DEF AnswerFits, Tells, Answer
  <2> QED BY <2>3, <2>4
<1>7. ASSUME NEW id \in Id, Invalidate(t, id)
      PROVE  HolderAnswers'
  <2>1. /\ \A u \in Thread \ {t} : pc'[u] = "idle"
        /\ pc'[t] = "reap"
    BY <1>7, NobodyInside DEF Invalidate, Enter
  <2>2. id \in Live /\ invokes[id].future # "empty"
    BY <1>7, ThreadAssumption DEF Invalidate, CanLock, EmptyIsBeingReaped
  <2> QED BY <1>7, <2>1, <2>2, OthersFit DEF Invalidate, Enter, AnswerFits, Tells, Answer
<1> QED BY <1>1, <1>2, <1>3, <1>4, <1>5, <1>6, <1>7 DEF Call

LEMMA StepKeepsAnswers ==
  ASSUME IInv, HolderAnswers, NEW t \in Thread, Step(t)
  PROVE  HolderAnswers'
<1> USE DEF IInv, TypeOK
<1>1. mtx = t /\ \A u \in Thread \ {t} : pc[u] = "idle" /\ pc'[u] = "idle"
  BY DEF OnlyHolderInside, Step, Touch, Check, Reap, SweepOne, SweepEnd, At, Leave
<1>2. CASE Touch(t)
  <2> DEFINE i == invokes[reply[t].id]
  <2>1. CASE i.future = "empty" \/ i.invalidated
    <3>1. pc'[t] = "idle"
      BY <1>2, <2>1 DEF Touch, Leave
    <3> QED BY <1>1, <3>1, OthersFit DEF AnswerFits
  <2>2. CASE ~(i.future = "empty" \/ i.invalidated)
    <3>1. /\ invokes' = [invokes EXCEPT ![reply[t].id].last_access = now]
          /\ pc'[t] = "check" /\ UNCHANGED reply
      BY <1>2, <2>2 DEF Touch
    <3>2. ~invokes'[reply[t].id].invalidated
      BY <1>2, <2>2, <3>1 DEF TargetIsLive, Touch, At
    <3>3. Tells(t, "poll", "Success") \/ Tells(t, "wait", "none")
      BY <1>2 DEF Touch, At, HolderAnswers, AnswerFits
    <3> QED BY <1>1, <3>1, <3>2, <3>3, OthersFit DEF AnswerFits, Tells
  <2> QED BY <2>1, <2>2
<1>3. CASE Check(t) \/ Reap(t) \/ SweepEnd(t)
  BY <1>1, <1>3, OthersFit DEF AnswerFits, Check, Reap, SweepEnd, Leave
<1>4. CASE SweepOne(t)
  <2>1. PICK id \in Live : reply' = [reply EXCEPT ![t].id = id]
    BY <1>4 DEF SweepOne
  <2>2. Tells(t, "cleanup", "none") /\ pc'[t] = "sweep"
    BY <1>4 DEF SweepOne, At, HolderAnswers, AnswerFits
  <2>3. Tells(t, "cleanup", "none")'
    BY <2>1, <2>2 DEF Tells
  <2> QED BY <1>1, <2>2, <2>3, OthersFit DEF AnswerFits
<1> QED BY <1>2, <1>3, <1>4 DEF Step

LEMMA OthersKeepAnswers ==
  ASSUME IInv, HolderAnswers, (\E t \in Thread : Collect(t)) \/ Environment \/ UNCHANGED vars
  PROVE  HolderAnswers'
<1> USE DEF IInv, TypeOK
<1>1. ASSUME NEW t \in Thread, Collect(t) PROVE HolderAnswers'
  <2>1. pc[t] = "idle" /\ UNCHANGED <<pc, invokes>> /\ \A u \in Thread \ {t} : reply'[u] = reply[u]
    BY <1>1 DEF Collect, Return
  <2> QED BY <2>1 DEF HolderAnswers, AnswerFits, Tells
<1>2. ASSUME NEW id \in Live, Finish(id) PROVE HolderAnswers'
  <2>1. UNCHANGED <<pc, reply>>
    BY <1>2 DEF Finish
  <2>2. ASSUME NEW i \in Live
        PROVE  /\ invokes'[i].invalidated = invokes[i].invalidated
               /\ invokes'[i].future = "empty" <=> invokes[i].future = "empty"
    <3>1. PICK f \in Finished : invokes' = [invokes EXCEPT ![id].future = f]
      BY <1>2 DEF Finish
    <3>2. invokes[id].future = "running"
      BY <1>2 DEF Finish
    <3>3. invokes'[i] = IF i = id THEN [invokes[i] EXCEPT !.future = f] ELSE invokes[i]
      BY <3>1
    <3> QED BY <3>1, <3>2, <3>3
  <2> SUFFICES ASSUME NEW u \in Thread PROVE AnswerFits(u)'
    BY DEF HolderAnswers
  <2>3. AnswerFits(u)
    BY DEF HolderAnswers
  <2>4. pc[u] \in {"check", "reap"} => reply[u].id \in Live
    BY DEF TargetIsLive
  <2> QED BY <2>1, <2>2, <2>3, <2>4 DEF AnswerFits, Tells
<1>3. CASE Tick \/ UNCHANGED vars
  BY <1>3 DEF HolderAnswers, AnswerFits, Tells, Tick, vars
<1> QED BY <1>1, <1>2, <1>3 DEF Environment

LEMMA NextKeepsAnswers == IInv /\ HolderAnswers /\ [Next]_vars => HolderAnswers'
  BY CallKeepsAnswers, StepKeepsAnswers, OthersKeepAnswers DEF Next

LEMMA InvariantAnswers == Spec => []HolderAnswers
<1>1. Init => HolderAnswers
  BY DEF Init, HolderAnswers, AnswerFits
<1> QED BY <1>1, NextKeepsAnswers, Inductive, PTL DEF Spec

\* A reply that hands something out is new only from Check or GetReply, which have
\* seen that the request is not invalidated.
LEMMA NothingFromInvalidated ==
  ASSUME IInv, HolderAnswers, [Next]_vars, NEW u \in Thread, NEW id \in Live,
         invokes[id].invalidated, reply'[u].id = id, HandsOut(reply'[u])
  PROVE  reply'[u] = reply[u]
<1> USE DEF IInv, TypeOK
<1>1. ASSUME NEW t \in Thread, Call(t) \/ Collect(t) PROVE reply'[u] = reply[u]
  <2>1. CASE NewRequest(t) \/ NewRequestThrows(t) \/ RejectInvoke(t) \/ CleanUp(t) \/ Collect(t)
    BY <2>1 DEF NewRequest, NewRequestThrows, RejectInvoke, CleanUp, Collect, Return, Enter, Answer,
                NoReply, HandsOut
  <2>2. ASSUME NEW i \in Id,
               \/ \E c \in {"poll", "get", "invalidate", "wait"} : UnknownId(t, c, i)
               \/ Poll(t, i) \/ WaitForReady(t, i) \/ Invalidate(t, i)
        PROVE  reply'[u] = reply[u]
    BY <2>2 DEF UnknownId, Poll, WaitForReady, Invalidate, Return, Enter, Answer, HandsOut
  <2>3. ASSUME NEW i \in Id, GetReply(t, i) PROVE reply'[u] = reply[u]
    BY <2>3 DEF GetReply, CanTakeReply, Enter, Answer, HandsOut
  <2> QED BY <1>1, <2>1, <2>2, <2>3 DEF Call
<1>2. ASSUME NEW t \in Thread, Step(t) PROVE reply'[u] = reply[u]
  <2>1. CASE Touch(t) \/ Reap(t)
    BY <2>1 DEF Touch, Reap, Leave
  <2>2. CASE Check(t)
    BY <2>2 DEF HolderAnswers, AnswerFits, Check, At, Leave
  <2>3. CASE SweepOne(t)
    BY <2>3 DEF HolderAnswers, AnswerFits, Tells, SweepOne, At, HandsOut
  <2>4. CASE SweepEnd(t)
    BY <2>4, IdAssumption DEF SweepEnd, Leave
  <2> QED BY <1>2, <2>1, <2>2, <2>3, <2>4 DEF Step
<1>3. CASE Environment \/ UNCHANGED vars
  BY <1>3 DEF Environment, Finish, Tick, vars
<1> QED BY <1>1, <1>2, <1>3 DEF Next

\* A client that invalidated its request gets neither its reply nor the news that it
\* is ready, also with a clock that is set back.
THEOREM InvalidatedIsWithheld == Spec => InvalidatedNeverDelivered
<1>1. IInv /\ HolderAnswers /\ [Next]_vars =>
        [\A t \in Thread, id \in Live :
           invokes[id].invalidated /\ reply'[t].id = id /\ HandsOut(reply'[t]) => reply'[t] = reply[t]]_vars
  BY NothingFromInvalidated
<1> QED BY <1>1, Inductive, InvariantAnswers, PTL DEF Spec, InvalidatedNeverDelivered

-----------------------------------------------------------------------------
(* With a clock that is never set back *)

\* Every request was last asked for in the past.
AccessInThePast == \A id \in Live : invokes[id].last_access <= now

LEMMA TimeMovesOn ==
  ASSUME ClockMayStepBack = FALSE, IInv, [Next]_vars
  PROVE  now' \in Nat /\ now <= now'
<1>1. Tick \/ now' = now
  BY DEF Next, Call, Step, vars, NewRequest, NewRequestThrows, RejectInvoke, CleanUp, UnknownId,
         Poll, WaitForReady, GetReply, Invalidate, Touch, Check, Reap, SweepOne, SweepEnd,
         Environment, Finish, Collect
<1> QED BY <1>1, TimeAssumption DEF IInv, TypeOK, Tick, NextInstant, Time

LEMMA IdsOnlyGrow ==
  ASSUME IInv, [Next]_vars
  PROVE  last_id \in Nat /\ last_id' \in {last_id, last_id + 1}
<1>1. last_id \in Nat
  BY IdAssumption DEF IInv, TypeOK
<1>2. CASE \E t \in Thread : NewRequest(t) \/ NewRequestThrows(t)
  BY <1>1, <1>2 DEF NewRequest, NewRequestThrows, GetRequestId
<1>3. CASE UNCHANGED last_id
  BY <1>1, <1>3
<1> QED
  BY <1>2, <1>3
     DEF Next, Call, Step, vars, RejectInvoke, CleanUp, UnknownId, Poll, WaitForReady, GetReply,
         Invalidate, Touch, Check, Reap, SweepOne, SweepEnd, Environment, Finish, Tick, Collect

\* What a step does to an entry that stays in the table: a worker's result does not
\* change until it is taken, an invalidation is never undone, and only Touch renews it.
Evolves(id) ==
  /\ invokes'[id].last_access = invokes[id].last_access
  /\ invokes[id].invalidated => invokes'[id].invalidated
  /\ invokes[id].future # "running" => invokes'[id].future \in {invokes[id].future, "empty"}

LEMMA EntryEvolves ==
  ASSUME IInv, [Next]_vars, NEW id \in Live, id \in Live'
  PROVE  \/ Evolves(id)
         \/ /\ invokes'[id].last_access = now
            /\ \E t \in Thread : pc[t] = "touch" /\ pc'[t] = "check" /\ reply[t].id = id
<1> USE DEF IInv, TypeOK
<1>1. CASE \E t \in Thread : NewRequest(t)
  BY <1>1 DEF NewRequest, Emplace, Evolves
<1>2. CASE \E t \in Thread : Reap(t) \/ SweepOne(t)
  <2>1. PICK i : invokes' = IF IsReadyForRemoval(i) THEN Erase(i) ELSE invokes
    BY <1>2 DEF Reap, SweepOne
  <2> QED BY <2>1 DEF Erase, Evolves
<1>3. ASSUME NEW t \in Thread, Touch(t), ~Evolves(id)
      PROVE  invokes'[id].last_access = now /\ pc[t] = "touch" /\ pc'[t] = "check" /\ reply[t].id = id
  <2>1. CASE UNCHANGED invokes
    BY <1>3, <2>1 DEF Evolves
  <2>2. CASE /\ invokes' = [invokes EXCEPT ![reply[t].id].last_access = now]
             /\ pc' = [pc EXCEPT ![t] = "check"]
    BY <1>3, <2>2 DEF Evolves, Touch, At
  <2> QED BY <1>3, <2>1, <2>2 DEF Touch
<1>4. ASSUME NEW t \in Thread, NEW i \in Id, GetReply(t, i)
      PROVE  Evolves(id)
  <2>1. CASE invokes' = invokes
    BY <2>1 DEF Evolves
  <2>2. CASE invokes' = [invokes EXCEPT ![i].future = "empty"]
    BY <2>2 DEF Evolves
  <2> QED BY <1>4, <2>1, <2>2 DEF GetReply
<1>5. ASSUME NEW t \in Thread, NEW i \in Id, Invalidate(t, i)
      PROVE  Evolves(id)
  BY <1>5 DEF Invalidate, Evolves
<1>6. ASSUME NEW i \in Live, Finish(i)
      PROVE  Evolves(id)
  BY <1>6 DEF Finish, Evolves
<1>7. CASE UNCHANGED invokes
  BY <1>7 DEF Evolves
<1> QED
  BY <1>1, <1>2, <1>3, <1>4, <1>5, <1>6, <1>7
     DEF Next, Call, Step, vars, NewRequestThrows, RejectInvoke, CleanUp, UnknownId, Poll,
         WaitForReady, Check, SweepEnd, Environment, Tick, Collect

\* An entry that was not there before is a new request's, created now.
LEMMA EntryIsNew ==
  ASSUME IInv, [Next]_vars, NEW id, id \notin Live, id \in Live'
  PROVE  invokes'[id].last_access = now /\ id = last_id' /\ last_id' = last_id + 1
<1>1. ~\E t \in Thread : Reap(t) \/ SweepOne(t)
  BY DEF Reap, SweepOne, Erase
<1>2. PICK t \in Thread : NewRequest(t)
  BY <1>1
     DEF IInv, TypeOK, Next, Call, Step, vars, NewRequestThrows, RejectInvoke, CleanUp, UnknownId,
         Poll, WaitForReady, GetReply, Invalidate, Touch, Check, SweepEnd, Environment, Finish,
         Tick, Collect
<1> QED BY <1>2 DEF NewRequest, Emplace, NewInvoke, GetRequestId

\* An identifier is given out with the entry that it names.
LEMMA IssuedWithEntry ==
  ASSUME IInv, [Next]_vars
  PROVE  issued \subseteq issued' /\ issued' \ issued \subseteq Live' \ Live
<1>1. CASE \E t \in Thread : NewRequest(t)
  <2>1. last_id + 1 \notin Live
    BY IdAssumption DEF IInv, TypeOK, IdsWereDrawn
  <2> QED BY <1>1, <2>1 DEF NewRequest, GetRequestId, Emplace
<1>2. CASE UNCHANGED issued
  BY <1>2
<1> QED
  BY <1>1, <1>2
     DEF Next, Call, Step, vars, NewRequestThrows, RejectInvoke, CleanUp, UnknownId, Poll,
         WaitForReady, GetReply, Invalidate, Touch, Check, Reap, SweepOne, SweepEnd, Environment,
         Finish, Tick, Collect

LEMMA NextKeepsAccessInThePast ==
  ASSUME ClockMayStepBack = FALSE, IInv, AccessInThePast, [Next]_vars
  PROVE  AccessInThePast'
<1>1. \A id \in Live : invokes[id].last_access \in Nat /\ now \in Nat
  BY TimeAssumption DEF IInv, TypeOK
<1>2. \A id \in Live' :
        \/ id \in Live /\ invokes'[id].last_access = invokes[id].last_access
        \/ invokes'[id].last_access = now
  BY EntryEvolves, EntryIsNew DEF Evolves
<1>3. now' \in Nat /\ now <= now'
  BY TimeMovesOn
<1>4. now \in Nat
  BY TimeAssumption DEF IInv, TypeOK
<1> QED BY <1>1, <1>2, <1>3, <1>4 DEF AccessInThePast

LEMMA InvariantAccessInThePast ==
  ASSUME ClockMayStepBack = FALSE
  PROVE  Spec => []AccessInThePast
<1>1. Init => AccessInThePast
  BY DEF Init, AccessInThePast
<1>2. IInv /\ AccessInThePast /\ [Next]_vars => AccessInThePast'
  BY NextKeepsAccessInThePast
<1> QED BY <1>1, <1>2, Inductive, PTL DEF Spec

\* An entry is expired when more than the expiration time has passed, in real time.
LEMMA ExpiredInRealTime ==
  ASSUME IInv, AccessInThePast, NEW id \in Live
  PROVE  IsExpired(id) <=> now > invokes[id].last_access + Expiration
<1>1. invokes[id].last_access \in Nat /\ now \in Nat /\ invokes[id].last_access <= now
  BY TimeAssumption DEF IInv, TypeOK, AccessInThePast
<1> QED BY <1>1, TimeAssumption DEF IsExpired, Elapsed

\* Once an entry is of no use, it stays so until it is erased or a client asks for it.
LEMMA RemovableStays ==
  ASSUME ClockMayStepBack = FALSE, IInv, AccessInThePast, [Next]_vars,
         NEW id \in Live, id \in Live', IsReadyForRemoval(id),
         ~\E t \in Thread : pc[t] = "touch" /\ pc'[t] = "check" /\ reply[t].id = id
  PROVE  IsReadyForRemoval(id)'
<1>1. Evolves(id)
  BY EntryEvolves
<1>2. IInv' /\ AccessInThePast'
  BY NextKeepsIInv, NextKeepsAccessInThePast
<1>3. IsExpired(id)' <=> now' > invokes'[id].last_access + Expiration
  <2>1. invokes'[id].last_access \in Nat /\ now' \in Nat /\ invokes'[id].last_access <= now'
    BY <1>2, TimeAssumption DEF IInv, TypeOK, AccessInThePast
  <2> QED BY <2>1, TimeAssumption DEF IsExpired, Elapsed
<1>4. IsExpired(id) => IsExpired(id)'
  <2>1. now \in Nat /\ invokes[id].last_access \in Nat
    BY TimeAssumption DEF IInv, TypeOK
  <2>2. now' \in Nat /\ now <= now'
    BY TimeMovesOn
  <2> QED BY <1>1, <1>3, <2>1, <2>2, ExpiredInRealTime, TimeAssumption DEF Evolves
<1> QED BY <1>1, <1>4 DEF Evolves, IsReadyForRemoval, IsFinished

\* An entry is erased only when its reply was handed out, it was invalidated, or
\* nobody asked for it for longer than the expiration time, provided that the
\* system clock is not set back.
THEOREM DiscardsOnlyUnneeded ==
  ASSUME ClockMayStepBack = FALSE
  PROVE  Spec => DiscardedOnlyWhenUnneeded
<1>1. IInv /\ AccessInThePast /\ [Next]_vars =>
        [\A id \in Live \ DOMAIN invokes' :
            \/ invokes[id].future = "empty"
            \/ invokes[id].invalidated
            \/ now > invokes[id].last_access + Expiration]_vars
  <2> SUFFICES ASSUME IInv, AccessInThePast, [Next]_vars, NEW id \in Live, id \notin Live',
                      invokes[id].future # "empty", ~invokes[id].invalidated
               PROVE  now > invokes[id].last_access + Expiration
    OBVIOUS
  <2>1. IsExpired(id)
    BY ErasedOnlyIfReady DEF IsReadyForRemoval
  <2>2. invokes[id].last_access \in Nat /\ now \in Nat /\ invokes[id].last_access <= now
    BY TimeAssumption DEF IInv, TypeOK, AccessInThePast
  <2> QED BY <2>1, <2>2, TimeAssumption DEF IsExpired, Elapsed
<1> QED BY <1>1, Inductive, InvariantAccessInThePast, PTL DEF Spec, DiscardedOnlyWhenUnneeded

-----------------------------------------------------------------------------
(* The refinement of AsyncRequests *)

\* The status of each identifier, and which of them are withdrawn or stale, as before.
TableKept ==
  /\ \A id \in Id : AbstractStatus(id)' = AbstractStatus(id)
  /\ {id \in Live : invokes[id].invalidated}' = {id \in Live : invokes[id].invalidated}
  /\ {id \in Live : now > invokes[id].last_access + Expiration}'
       = {id \in Live : now > invokes[id].last_access + Expiration}

StatusOf(id) ==
  IF id \in Live THEN IF invokes[id].future = "running" THEN "running" ELSE "ready"
  ELSE IF id <= last_id THEN "gone" ELSE "unused"

LEMMA StatusCases ==
  ASSUME NEW id
  PROVE  AbstractStatus(id) = StatusOf(id) /\ AbstractStatus(id)' = StatusOf(id)'
  BY DEF AbstractStatus, StatusOf

LEMMA SameTable ==
  ASSUME UNCHANGED <<now, invokes, last_id>>
  PROVE  TableKept
  BY DEF TableKept, AbstractStatus

LEMMA TellsOnlyOne ==
  ASSUME NEW t \in Thread, NEW r,
         \A u \in Thread \ {t} : pc'[u] = pc[u] /\ reply'[u] = reply[u],
         AbstractAnswer(t)' = r
  PROVE  Requests!Tell(t, r)
  BY DEF Requests!Tell, AbstractAnswer

LEMMA AnswersKept ==
  ASSUME \A u \in Thread : AbstractAnswer(u)' = AbstractAnswer(u)
  PROVE  [t \in Thread |-> AbstractAnswer(t)]' = [t \in Thread |-> AbstractAnswer(t)]
  OBVIOUS

LEMMA NewRequestIssues ==
  ASSUME IInv, NEW t \in Thread, NewRequest(t), NEW id, id = GetRequestId
  PROVE  Requests!Issue(t, id)
<1> USE DEF IInv, TypeOK
<1>1. id \in Id /\ id \notin Live /\ ~(id <= last_id)
  BY IdAssumption DEF NewRequest, IdsWereDrawn, GetRequestId
<1>2. Requests!Tell(t, Requests!Says("new", id, "Success", FALSE))
  BY TellsOnlyOne DEF NewRequest, Return, CanLock, Answer, AbstractAnswer, Requests!Says
<1>3. Live' = Live \union {id} /\ invokes'[id] = NewInvoke /\ last_id' = id /\ now' = now
      /\ \A i \in Live : invokes'[i] = invokes[i]
  BY <1>1 DEF NewRequest, Emplace
<1>4. ASSUME NEW i \in Id \ {id} PROVE AbstractStatus(i)' = AbstractStatus(i)
  <2>1. last_id \in Nat /\ last_id' = last_id + 1 /\ i \in Nat /\ i # last_id + 1
    BY <1>3, IdAssumption DEF GetRequestId
  <2>2. i <= last_id' <=> i <= last_id
    BY <2>1
  <2> QED BY <1>1, <1>3, <2>2, StatusCases DEF StatusOf
<1>5. AbstractStatus(id) = "unused" /\ AbstractStatus(id)' = "running"
  BY <1>1, <1>3, StatusCases DEF StatusOf, NewInvoke
<1>6. /\ {i \in Live : invokes[i].invalidated}' = {i \in Live : invokes[i].invalidated}
      /\ {i \in Live : now > invokes[i].last_access + Expiration}'
           = {i \in Live : now > invokes[i].last_access + Expiration}
  BY <1>1, <1>3, TimeAssumption DEF NewInvoke
<1> QED BY <1>1, <1>2, <1>4, <1>5, <1>6 DEF Requests!Issue

LEMMA NewRequestThrowsFails ==
  ASSUME IInv, NEW t \in Thread, NewRequestThrows(t), NEW id, id = GetRequestId
  PROVE  Requests!FailIssue(t, id)
<1> USE DEF IInv, TypeOK
<1>1. id \in Id /\ id \notin Live /\ ~(id <= last_id)
  BY IdAssumption DEF NewRequestThrows, IdsWereDrawn, GetRequestId
<1>2. Requests!Tell(t, Requests!Says("new", 0, "thrown", FALSE))
  BY TellsOnlyOne DEF NewRequestThrows, Return, CanLock, Answer, AbstractAnswer, Requests!Says
<1>3. invokes' = invokes /\ last_id' = id /\ now' = now
  BY DEF NewRequestThrows
<1>4. ASSUME NEW i \in Id \ {id} PROVE AbstractStatus(i)' = AbstractStatus(i)
  <2>1. last_id \in Nat /\ last_id' = last_id + 1 /\ i \in Nat /\ i # last_id + 1
    BY <1>3, IdAssumption DEF GetRequestId
  <2>2. i <= last_id' <=> i <= last_id
    BY <2>1
  <2> QED BY <1>1, <1>3, <2>2, StatusCases DEF StatusOf
<1>5. AbstractStatus(id) = "unused" /\ AbstractStatus(id)' = "gone"
  BY <1>1, <1>3, IdAssumption, StatusCases DEF StatusOf, GetRequestId
<1>6. /\ {i \in Live : invokes[i].invalidated}' = {i \in Live : invokes[i].invalidated}
      /\ {i \in Live : now > invokes[i].last_access + Expiration}'
           = {i \in Live : now > invokes[i].last_access + Expiration}
  BY <1>3
<1> QED BY <1>1, <1>2, <1>4, <1>5, <1>6 DEF Requests!FailIssue

LEMMA RejectInvokeRejects ==
  ASSUME IInv, NEW t \in Thread, RejectInvoke(t)
  PROVE  Requests!Reject(t)
<1>1. PICK res \in {"ServerTransportDecodingError", "InvalidAsynchronousOperationError"} :
         Return(t, Answer("unknown", 0, res, FALSE))
  BY DEF RejectInvoke
<1>2. Requests!Tell(t, Requests!Says("unknown", 0, res, FALSE))
  BY <1>1, TellsOnlyOne DEF IInv, TypeOK, RejectInvoke, Return, Answer, AbstractAnswer, Requests!Says
<1> QED BY <1>2, SameTable DEF RejectInvoke, TableKept, Requests!Reject

LEMMA UnknownIdIsNotPending ==
  ASSUME IInv, NEW t \in Thread, NEW c \in {"poll", "get", "invalidate", "wait"}, NEW id \in Id,
         UnknownId(t, c, id)
  PROVE  Requests!NotPending(t, id)
<1> DEFINE res == IF c = "wait" THEN "none" ELSE "InvalidRequestIdentifierError"
<1>1. Return(t, Answer(c, id, res, FALSE)) /\ pc[t] = "idle"
  BY DEF UnknownId, CanLock
<1>2. Requests!Tell(t, Requests!Says(c, id, res, FALSE))
  BY <1>1, TellsOnlyOne DEF IInv, TypeOK, Return, Answer, AbstractAnswer, Requests!Says
<1>3. ~Requests!Pending(id)
  BY DEF UnknownId, AbstractStatus, Requests!Pending
<1> QED BY <1>2, <1>3, SameTable DEF UnknownId, TableKept, Requests!NotPending

\* An entry of the table, as Requests sees it.
LEMMA EntryIsPending ==
  ASSUME IInv, NEW id \in Live
  PROVE  /\ id \in Id
         /\ Requests!Pending(id)
         /\ AbstractStatus(id) = IF invokes[id].future = "running" THEN "running" ELSE "ready"
  BY DEF IInv, TypeOK, AbstractStatus, Requests!Pending

\* When the clock was not set back, an entry is removable as soon as it is disposable.
LEMMA RemovableIsDisposable ==
  ASSUME IInv, \A id \in Live : invokes[id].last_access <= now, NEW id \in Live,
         invokes[id].future # "empty"
  PROVE  IsReadyForRemoval(id) <=> Requests!Disposable(id)
<1>1. invokes[id].last_access \in Nat /\ now \in Nat /\ invokes[id].last_access <= now
  BY TimeAssumption DEF IInv, TypeOK
<1>2. IsExpired(id) <=> now > invokes[id].last_access + Expiration
  BY <1>1, TimeAssumption DEF IsExpired, Elapsed
<1>3. IsFinished(id) <=> AbstractStatus(id) = "ready"
  BY EntryIsPending DEF IsFinished, IInv, TypeOK
<1> QED BY <1>2, <1>3, EntryIsPending DEF IsReadyForRemoval, Requests!Disposable

LEMMA EnterBegins ==
  ASSUME IInv, NEW t \in Thread,
         \/ CleanUp(t)
         \/ \E id \in Id : WaitForReady(t, id) \/ (Poll(t, id) /\ ~IsReadyForRemoval(id))
  PROVE  Requests!Begin(t)
<1>1. PICK l \in {"touch", "sweep"} : \E r : Enter(t, l, r)
  BY DEF CleanUp, WaitForReady, Poll
<1>2. Requests!Tell(t, Requests!None)
  BY <1>1, TellsOnlyOne DEF IInv, TypeOK, Enter, AbstractAnswer, Requests!None
<1> QED BY <1>2, SameTable DEF CleanUp, WaitForReady, Poll, TableKept, Requests!Begin

LEMMA PollRefusedAnswers ==
  ASSUME IInv, \A id \in Live : invokes[id].last_access <= now,
         NEW t \in Thread, NEW id \in Id, Poll(t, id), IsReadyForRemoval(id)
  PROVE  Requests!AnswerPoll(t, id)
<1>1. Return(t, Answer("poll", id, "InvalidAsynchronousOperationError", FALSE)) /\ pc[t] = "idle"
      /\ id \in Live
  BY DEF Poll, CanLock
<1>2. Requests!Tell(t, Requests!Says("poll", id, "InvalidAsynchronousOperationError", FALSE))
  BY <1>1, TellsOnlyOne DEF IInv, TypeOK, Return, Answer, AbstractAnswer, Requests!Says
<1>3. invokes[id].future # "empty"
  BY <1>1, ThreadAssumption DEF Poll, CanLock, IInv, EmptyIsBeingReaped
<1>4. Requests!Disposable(id)
  BY <1>1, <1>3, RemovableIsDisposable
<1> QED BY <1>1, <1>2, <1>4, SameTable, EntryIsPending DEF Poll, TableKept, Requests!AnswerPoll

\* What is handed out while a thread holds the mutex at label l: a record of this form.
LEMMA AnswerOfHolder ==
  ASSUME IInv, HolderAnswers, NEW t \in Thread, NEW c, NEW res, Tells(t, c, res)
  PROVE  reply[t] = Requests!Says(c, reply[t].id, res, FALSE)
  BY DEF IInv, TypeOK, Tells, Requests!Says

LEMMA TouchContacts ==
  ASSUME IInv, HolderAnswers, NEW t \in Thread, Touch(t), NEW id, id = reply[t].id
  PROVE  Requests!AnswerPoll(t, id) \/ Requests!Contact(id)
<1> DEFINE given_up == invokes[id].future = "empty" \/ invokes[id].invalidated
<1> USE DEF IInv, TypeOK
<1>1. id \in Live /\ mtx = t /\ pc[t] = "touch" /\ UNCHANGED <<now, last_id, issued>>
  BY DEF TargetIsLive, Touch, At
<1>2. invokes[id].future # "empty"
  BY <1>1, ThreadAssumption DEF EmptyIsBeingReaped
<1>3. CASE given_up
  <2>1. Leave(t, reply[t]) /\ UNCHANGED invokes /\ invokes[id].invalidated
    BY <1>2, <1>3 DEF Touch
  <2>2. Requests!Tell(t, reply[t])
    <3>1. AbstractAnswer(t)' = reply[t]
      BY <2>1 DEF Leave, AbstractAnswer
    <3> QED BY <2>1, <3>1, TellsOnlyOne DEF Leave
  <2>3. \/ reply[t] = Requests!Says("poll", id, "Success", FALSE)
        \/ reply[t] = Requests!Says("wait", id, "none", FALSE)
    BY <1>1, AnswerOfHolder DEF HolderAnswers, AnswerFits
  <2> QED BY <1>1, <2>1, <2>2, <2>3, SameTable, EntryIsPending DEF TableKept, Requests!AnswerPoll
<1>4. CASE ~given_up
  <2>1. /\ invokes' = [invokes EXCEPT ![id].last_access = now]
        /\ pc' = [pc EXCEPT ![t] = "check"]
        /\ UNCHANGED <<mtx, reply>>
    BY <1>4 DEF Touch
  <2>2. \A u \in Thread : AbstractAnswer(u)' = AbstractAnswer(u)
    BY <1>1, <2>1 DEF AbstractAnswer
  <2>3. \A i \in Live : /\ invokes'[i].future = invokes[i].future
                        /\ invokes'[i].invalidated = invokes[i].invalidated
                        /\ invokes'[i].last_access = IF i = id THEN now ELSE invokes[i].last_access
    BY <1>1, <2>1
  <2>4. Live' = Live
    BY <2>1
  <2>5. \A i \in Id : AbstractStatus(i)' = AbstractStatus(i)
    BY <1>1, <2>3, <2>4, StatusCases DEF StatusOf
  <2>6. {i \in Live : invokes[i].invalidated}' = {i \in Live : invokes[i].invalidated}
    BY <2>3, <2>4
  <2>7. {i \in Live : now > invokes[i].last_access + Expiration}'
          = {i \in Live : now > invokes[i].last_access + Expiration} \ {id}
    BY <1>1, <2>3, <2>4, TimeAssumption
  <2>8. id \notin {i \in Live : invokes[i].invalidated}
    BY <1>4
  <2> QED BY <1>1, <2>2, <2>5, <2>6, <2>7, <2>8, EntryIsPending DEF Requests!Contact
<1> QED BY <1>3, <1>4

LEMMA CheckAnswers ==
  ASSUME IInv, HolderAnswers, NEW t \in Thread, Check(t), NEW id, id = reply[t].id
  PROVE  Requests!AnswerPoll(t, id)
<1> USE DEF IInv, TypeOK
<1>1. id \in Live /\ mtx = t /\ pc[t] = "check" /\ ~invokes[id].invalidated
  BY DEF TargetIsLive, Check, At, HolderAnswers, AnswerFits
<1>2. invokes[id].future # "empty"
  BY <1>1, ThreadAssumption DEF EmptyIsBeingReaped
<1> DEFINE rdy == AbstractStatus(id) = "ready" /\ id \notin {i \in Live : invokes[i].invalidated}
<1>3. IsFinished(id) = rdy
  BY <1>1, <1>2, EntryIsPending DEF IsFinished
<1>4. \/ reply[t] = Requests!Says("poll", id, "Success", FALSE)
      \/ reply[t] = Requests!Says("wait", id, "none", FALSE)
  BY <1>1, AnswerOfHolder DEF HolderAnswers, AnswerFits
<1>5. Leave(t, [reply[t] EXCEPT !.ready = rdy])
  <2>1. Leave(t, [reply[t] EXCEPT !.ready = IsFinished(id)])
    BY DEF Check
  <2> HIDE DEF rdy
  <2> QED BY <1>3, <2>1
<1>6. Requests!Tell(t, [reply[t] EXCEPT !.ready = rdy])
  <2> HIDE DEF rdy
  <2>1. AbstractAnswer(t)' = [reply[t] EXCEPT !.ready = rdy]
    BY <1>5 DEF Leave, AbstractAnswer
  <2> QED BY <1>5, <2>1, TellsOnlyOne DEF Leave
<1>7. \/ Requests!Tell(t, Requests!Says("poll", id, "Success", rdy))
      \/ Requests!Tell(t, Requests!Says("wait", id, "none", rdy))
  <2> HIDE DEF rdy
  <2> QED BY <1>4, <1>6 DEF Requests!Says
<1> QED BY <1>1, <1>7, SameTable, EntryIsPending DEF Check, TableKept, Requests!AnswerPoll

LEMMA GetReplyBegins ==
  ASSUME IInv, NEW t \in Thread, NEW id \in Id, GetReply(t, id)
  PROVE  Requests!Begin(t) \/ Requests!Deny(t, id)
<1> USE DEF IInv, TypeOK
<1>1. id \in Live /\ mtx = NoThread /\ UNCHANGED <<now, last_id>> /\ invokes[id].future # "empty"
  BY ThreadAssumption DEF GetReply, CanLock, EmptyIsBeingReaped
<1>2. CASE CanTakeReply(id)
  <2>1. /\ invokes' = [invokes EXCEPT ![id].future = "empty"]
        /\ Enter(t, "reap", Answer("get", id, TakenResult(id), FALSE))
    BY <1>2 DEF GetReply
  <2>2. TakenResult(id) # "InvalidAsynchronousOperationError"
    BY DEF TakenResult
  <2>3. Requests!Tell(t, Requests!None)
    BY <2>1, <2>2, TellsOnlyOne DEF Enter, Answer, AbstractAnswer, Requests!None
  <2>4. \A i \in Live : /\ invokes'[i].future = IF i = id THEN "empty" ELSE invokes[i].future
                        /\ invokes'[i].invalidated = invokes[i].invalidated
                        /\ invokes'[i].last_access = invokes[i].last_access
    BY <1>1, <2>1
  <2>5. Live' = Live
    BY <2>1
  <2>6. invokes[id].future # "running"
    BY <1>2 DEF CanTakeReply, IsFinished
  <2>7. TableKept
    BY <1>1, <2>4, <2>5, <2>6, StatusCases DEF StatusOf, TableKept
  <2> QED BY <2>3, <2>7 DEF TableKept, Requests!Begin
<1>3. CASE ~CanTakeReply(id)
  <2>1. /\ invokes' = invokes
        /\ Enter(t, "reap", Answer("get", id, "InvalidAsynchronousOperationError", FALSE))
    BY <1>3 DEF GetReply
  <2>2. Requests!Tell(t, Requests!Denied(id))
    BY <2>1, TellsOnlyOne DEF Enter, Answer, AbstractAnswer, Requests!Denied
  <2>3. ~(AbstractStatus(id) = "ready" /\ id \notin {i \in Live : invokes[i].invalidated})
    BY <1>1, <1>3, EntryIsPending DEF CanTakeReply, IsFinished
  <2> QED BY <1>1, <2>1, <2>2, <2>3, SameTable, EntryIsPending DEF TableKept, Requests!Deny
<1> QED BY <1>2, <1>3

LEMMA InvalidateWithdraws ==
  ASSUME IInv, NEW t \in Thread, NEW id \in Id, Invalidate(t, id)
  PROVE  Requests!Withdraw(t, id)
<1> USE DEF IInv, TypeOK
<1>1. id \in Live /\ UNCHANGED <<now, last_id>>
  BY DEF Invalidate
<1>2. Enter(t, "reap", Answer("invalidate", id, "Success", FALSE))
  BY DEF Invalidate
<1>3. Requests!Tell(t, Requests!None)
  BY <1>2, TellsOnlyOne DEF Enter, Answer, AbstractAnswer, Requests!None
<1>4. \A i \in Live : /\ invokes'[i].future = invokes[i].future
                      /\ invokes'[i].invalidated = IF i = id THEN TRUE ELSE invokes[i].invalidated
                      /\ invokes'[i].last_access = invokes[i].last_access
  BY <1>1 DEF Invalidate
<1>5. Live' = Live
  BY DEF Invalidate
<1>6. \A i \in Id : AbstractStatus(i)' = AbstractStatus(i)
  BY <1>1, <1>4, <1>5, StatusCases DEF StatusOf
<1>7. {i \in Live : invokes[i].invalidated}' = {i \in Live : invokes[i].invalidated} \union {id}
  BY <1>1, <1>4, <1>5
<1>8. {i \in Live : now > invokes[i].last_access + Expiration}'
        = {i \in Live : now > invokes[i].last_access + Expiration}
  BY <1>1, <1>4, <1>5
<1> QED BY <1>1, <1>3, <1>6, <1>7, <1>8, EntryIsPending DEF Requests!Withdraw

\* Erasing an entry is what Requests calls forgetting it.
LEMMA EraseForgets ==
  ASSUME IInv, NEW id \in Live, invokes' = Erase(id), UNCHANGED <<now, last_id>>
  PROVE  Requests!Forget(id)
<1>1. Live' = Live \ {id} /\ \A i \in Live' : invokes'[i] = invokes[i]
  BY DEF Erase
<1>2. id \in Id /\ id <= last_id
  BY DEF IInv, TypeOK, IdsWereDrawn
<1>3. \A i \in Id : AbstractStatus(i)' = IF i = id THEN "gone" ELSE AbstractStatus(i)
  BY <1>1, <1>2, StatusCases DEF StatusOf
<1>4. /\ {i \in Live : invokes[i].invalidated}' = {i \in Live : invokes[i].invalidated} \ {id}
      /\ {i \in Live : now > invokes[i].last_access + Expiration}'
           = {i \in Live : now > invokes[i].last_access + Expiration} \ {id}
  BY <1>1
<1> QED BY <1>2, <1>3, <1>4 DEF Requests!Forget

LEMMA ReapEnds ==
  ASSUME IInv, HolderAnswers, \A id \in Live : invokes[id].last_access <= now,
         NEW t \in Thread, Reap(t), NEW id, id = reply[t].id
  PROVE  Requests!HandOver(t, id) \/ Requests!Refuse(t, id) \/ Requests!AnswerWithdraw(t, id)
<1> USE DEF IInv, TypeOK
<1>1. id \in Live /\ id \in Id /\ mtx = t /\ pc[t] = "reap" /\ UNCHANGED <<now, last_id>>
  BY DEF TargetIsLive, Reap, At
<1>2. invokes' = IF IsReadyForRemoval(id) THEN Erase(id) ELSE invokes
  BY DEF Reap
<1>3. Requests!Tell(t, reply[t])
  <2>1. Leave(t, reply[t])
    BY DEF Reap
  <2>2. AbstractAnswer(t)' = reply[t]
    BY <2>1 DEF Leave, AbstractAnswer
  <2> QED BY <2>1, <2>2, TellsOnlyOne DEF Leave
<1>4. invokes[id].future # "empty" => Requests!ForgetIfDisposable(id)
  <2> SUFFICES ASSUME invokes[id].future # "empty" PROVE Requests!ForgetIfDisposable(id)
    OBVIOUS
  <2>1. IsReadyForRemoval(id) <=> Requests!Disposable(id)
    BY <1>1, RemovableIsDisposable
  <2>2. CASE IsReadyForRemoval(id)
    BY <1>1, <1>2, <2>1, <2>2, EraseForgets DEF Requests!ForgetIfDisposable
  <2>3. CASE ~IsReadyForRemoval(id)
    BY <1>1, <1>2, <2>1, <2>3, SameTable DEF TableKept, Requests!ForgetIfDisposable
  <2> QED BY <2>2, <2>3
<1>5. CASE /\ Tells(t, "get", "Invoked") \/ Tells(t, "get", "ServerProtocolException")
           /\ invokes[id].future = "empty" /\ ~invokes[id].invalidated
  <2>1. Requests!Forget(id)
    BY <1>1, <1>2, <1>5, EraseForgets DEF IsReadyForRemoval
  <2>2. AbstractStatus(id) = "ready"
    BY <1>1, <1>5, EntryIsPending
  <2>3. \E res \in {"Invoked", "ServerProtocolException"} : reply[t] = Requests!Says("get", id, res, FALSE)
    BY <1>5, AnswerOfHolder
  <2> QED BY <1>1, <1>3, <1>5, <2>1, <2>2, <2>3 DEF Requests!HandOver
<1>6. CASE Tells(t, "get", "InvalidAsynchronousOperationError") /\ invokes[id].future # "empty"
  <2>1. reply[t] = Requests!Says("get", id, "InvalidAsynchronousOperationError", FALSE)
    BY <1>6, AnswerOfHolder
  <2>2. AbstractAnswer(t) = Requests!Denied(id)
    BY <1>1, <1>6 DEF AbstractAnswer, Tells, Requests!Denied
  <2> QED BY <1>1, <1>3, <1>4, <1>6, <2>1, <2>2, EntryIsPending DEF Requests!Refuse
<1>7. CASE Tells(t, "invalidate", "Success") /\ invokes[id].future # "empty" /\ invokes[id].invalidated
  <2>1. reply[t] = Requests!Says("invalidate", id, "Success", FALSE)
    BY <1>7, AnswerOfHolder
  <2> QED BY <1>1, <1>3, <1>4, <1>7, <2>1, EntryIsPending DEF Requests!AnswerWithdraw
<1> QED BY <1>1, <1>5, <1>6, <1>7 DEF HolderAnswers, AnswerFits

\* Nothing happens that Requests sees.
AllKept ==
  /\ TableKept
  /\ [t \in Thread |-> AbstractAnswer(t)]' = [t \in Thread |-> AbstractAnswer(t)]

LEMMA SweepOneDrops ==
  ASSUME IInv, \A id \in Live : invokes[id].last_access <= now, NEW t \in Thread, SweepOne(t)
  PROVE  (\E id \in Id : Requests!Drop(id)) \/ AllKept
<1>1. PICK id \in Live :
        /\ invokes' = IF IsReadyForRemoval(id) THEN Erase(id) ELSE invokes
        /\ reply' = [reply EXCEPT ![t].id = id]
  BY DEF SweepOne
<1>2. mtx = t /\ pc[t] = "sweep" /\ UNCHANGED <<now, last_id, mtx, pc, issued>> /\ id \in Id
  BY DEF SweepOne, At, IInv, TypeOK
<1>3. [u \in Thread |-> AbstractAnswer(u)]' = [u \in Thread |-> AbstractAnswer(u)]
  <2>1. \A u \in Thread \ {t} : reply'[u] = reply[u]
    BY <1>1
  <2> QED BY <1>2, <2>1, AnswersKept DEF AbstractAnswer
<1>4. CASE IsReadyForRemoval(id)
  <2>1. invokes[id].future # "empty"
    BY <1>2, ThreadAssumption DEF IInv, EmptyIsBeingReaped
  <2>2. Requests!Disposable(id)
    BY <1>4, <2>1, RemovableIsDisposable
  <2> QED BY <1>1, <1>2, <1>3, <1>4, <2>2, EraseForgets DEF Requests!Drop
<1>5. CASE ~IsReadyForRemoval(id)
  BY <1>1, <1>2, <1>3, <1>5, SameTable DEF AllKept
<1> QED BY <1>4, <1>5

LEMMA SweepEndEnds ==
  ASSUME IInv, HolderAnswers, NEW t \in Thread, SweepEnd(t)
  PROVE  Requests!EndCleanUp(t)
<1>1. Leave(t, [reply[t] EXCEPT !.id = 0])
  BY DEF SweepEnd
<1>2. Tells(t, "cleanup", "none")
  BY DEF SweepEnd, At, HolderAnswers, AnswerFits
<1>3. [reply[t] EXCEPT !.id = 0] = Requests!Says("cleanup", 0, "none", FALSE)
  <2> DEFINE r == [reply[t] EXCEPT !.id = 0]
  <2>1. /\ r \in Reply
        /\ r.command = "cleanup" /\ r.id = 0 /\ r.result = "none" /\ r.ready = FALSE
    BY <1>2, IdAssumption DEF IInv, TypeOK, Tells
  <2> HIDE DEF r
  <2>2. r = Requests!Says("cleanup", 0, "none", FALSE)
    BY <2>1 DEF Requests!Says
  <2> QED BY <2>2 DEF r
<1>4. AbstractAnswer(t)' = Requests!Says("cleanup", 0, "none", FALSE)
  <2>1. pc'[t] = "idle" /\ reply'[t] = [reply[t] EXCEPT !.id = 0]
    BY <1>1 DEF Leave, IInv, TypeOK
  <2> QED BY <1>3, <2>1 DEF AbstractAnswer
<1>5. Requests!Tell(t, Requests!Says("cleanup", 0, "none", FALSE))
  BY <1>1, <1>4, TellsOnlyOne DEF Leave, IInv, TypeOK
<1> QED BY <1>5, SameTable DEF SweepEnd, TableKept, Requests!EndCleanUp

LEMMA CollectCollects ==
  ASSUME IInv, NEW t \in Thread, Collect(t)
  PROVE  Requests!Collect(t)
<1>1. Requests!Tell(t, Requests!Says("unknown", 0, "none", FALSE))
  BY TellsOnlyOne DEF IInv, TypeOK, Collect, Return, NoReply, AbstractAnswer, Requests!Says
<1> QED BY <1>1, SameTable DEF Collect, TableKept, Requests!Collect

LEMMA FinishCompletes ==
  ASSUME IInv, NEW id \in Live, Finish(id)
  PROVE  Requests!Complete(id)
<1> USE DEF IInv, TypeOK
<1>1. PICK f \in Finished : invokes' = [invokes EXCEPT ![id].future = f]
  BY DEF Finish
<1>2. UNCHANGED <<now, last_id, pc, reply>> /\ invokes[id].future = "running" /\ id \in Id
  BY DEF Finish
<1>3. \A i \in Live : /\ invokes'[i].future = IF i = id THEN f ELSE invokes[i].future
                      /\ invokes'[i].invalidated = invokes[i].invalidated
                      /\ invokes'[i].last_access = invokes[i].last_access
  BY <1>1
<1>4. Live' = Live
  BY <1>1
<1>5. \A i \in Id : AbstractStatus(i)' = IF i = id THEN "ready" ELSE AbstractStatus(i)
  <2>1. f # "running"
    OBVIOUS
  <2>2. \A i \in Id : StatusOf(i)' = IF i = id THEN "ready" ELSE StatusOf(i)
    BY <1>2, <1>3, <1>4, <2>1 DEF StatusOf
  <2> QED BY <2>2, StatusCases
<1>6. AbstractStatus(id) = "running"
  BY <1>2, EntryIsPending
<1>7. /\ {i \in Live : invokes[i].invalidated}' = {i \in Live : invokes[i].invalidated}
      /\ {i \in Live : now > invokes[i].last_access + Expiration}'
           = {i \in Live : now > invokes[i].last_access + Expiration}
  BY <1>2, <1>3, <1>4
<1>8. [u \in Thread |-> AbstractAnswer(u)]' = [u \in Thread |-> AbstractAnswer(u)]
  BY <1>2, AnswersKept DEF AbstractAnswer
<1> QED BY <1>2, <1>5, <1>6, <1>7, <1>8 DEF Requests!Complete

LEMMA TickPasses ==
  ASSUME IInv, ClockMayStepBack = FALSE, Tick
  PROVE  Requests!TimePasses
<1> USE DEF IInv, TypeOK
<1>1. UNCHANGED <<invokes, last_id, pc, reply>> /\ now \in Nat /\ now' = now + 1
  BY TimeAssumption DEF Tick, NextInstant
<1>2. \A i \in Id : AbstractStatus(i)' = AbstractStatus(i)
  BY <1>1, StatusCases DEF StatusOf
<1>3. {i \in Live : invokes[i].invalidated}' = {i \in Live : invokes[i].invalidated}
  BY <1>1
<1>4. {i \in Live : now > invokes[i].last_access + Expiration}
        \subseteq {i \in Live : now > invokes[i].last_access + Expiration}'
  BY <1>1, TimeAssumption
<1>5. {i \in Live : now > invokes[i].last_access + Expiration}' \subseteq {i \in Id : Requests!Pending(i)}
  BY <1>1, EntryIsPending
<1>6. [u \in Thread |-> AbstractAnswer(u)]' = [u \in Thread |-> AbstractAnswer(u)]
  BY <1>1, AnswersKept DEF AbstractAnswer
<1> QED BY <1>2, <1>3, <1>4, <1>5, <1>6 DEF Requests!TimePasses

LEMMA InitIsInit == Init => Requests!Init
  BY DEF Init, AbstractStatus, AbstractAnswer, NoReply, Requests!Init, Requests!Says

LEMMA NextRefines ==
  ASSUME ClockMayStepBack = FALSE, IInv, HolderAnswers, AccessInThePast, [Next]_vars
  PROVE  [Requests!Next]_Requests!vars
<1> USE DEF AccessInThePast
<1>0. ASSUME NEW t \in Thread, Call(t) PROVE Requests!Next
  <2>1. CASE NewRequest(t)
    <3>1. GetRequestId \in Id
      BY <2>1 DEF NewRequest
    <3> QED BY <2>1, <3>1, NewRequestIssues DEF Requests!Next
  <2>2. CASE NewRequestThrows(t)
    <3>1. GetRequestId \in Id
      BY <2>2 DEF NewRequestThrows
    <3> QED BY <2>2, <3>1, NewRequestThrowsFails DEF Requests!Next
  <2>3. CASE RejectInvoke(t)
    BY <2>3, RejectInvokeRejects DEF Requests!Next
  <2>4. CASE CleanUp(t)
    BY <2>4, EnterBegins DEF Requests!Next
  <2>5. ASSUME NEW id \in Id, NEW c \in {"poll", "get", "invalidate", "wait"}, UnknownId(t, c, id)
        PROVE  Requests!Next
    <3>1. Requests!NotPending(t, id)
      BY <2>5, UnknownIdIsNotPending
    <3> QED BY <3>1 DEF Requests!Next
  <2>6. ASSUME NEW id \in Id, Poll(t, id) \/ WaitForReady(t, id)
        PROVE  Requests!Next
    <3>1. CASE Poll(t, id) /\ IsReadyForRemoval(id)
      BY <3>1, PollRefusedAnswers DEF Requests!Next
    <3>2. CASE WaitForReady(t, id) \/ (Poll(t, id) /\ ~IsReadyForRemoval(id))
      BY <3>2, EnterBegins DEF Requests!Next
    <3> QED BY <2>6, <3>1, <3>2
  <2>7. ASSUME NEW id \in Id, GetReply(t, id)
        PROVE  Requests!Next
    BY <2>7, GetReplyBegins DEF Requests!Next
  <2>8. ASSUME NEW id \in Id, Invalidate(t, id)
        PROVE  Requests!Next
    BY <2>8, InvalidateWithdraws DEF Requests!Next
  <2> QED BY <1>0, <2>1, <2>2, <2>3, <2>4, <2>5, <2>6, <2>7, <2>8 DEF Call
<1>1. ASSUME NEW t \in Thread, Step(t) PROVE [Requests!Next]_Requests!vars
  <2>1. CASE Touch(t) \/ Check(t) \/ Reap(t)
    <3>1. reply[t].id \in Id
      BY <2>1 DEF IInv, TypeOK, TargetIsLive, Touch, Check, Reap, At
    <3> QED BY <2>1, <3>1, TouchContacts, CheckAnswers, ReapEnds DEF Requests!Next
  <2>2. CASE SweepOne(t)
    BY <2>2, SweepOneDrops DEF Requests!Next, AllKept, TableKept, Requests!vars
  <2>3. CASE SweepEnd(t)
    BY <2>3, SweepEndEnds DEF Requests!Next
  <2> QED BY <1>1, <2>1, <2>2, <2>3 DEF Step
<1>2. ASSUME NEW t \in Thread, Collect(t) PROVE Requests!Next
  BY <1>2, CollectCollects DEF Requests!Next
<1>3. CASE Environment
  <2>1. ASSUME NEW id \in Live, Finish(id) PROVE Requests!Next
    BY <2>1, FinishCompletes DEF Requests!Next, IInv, TypeOK
  <2>2. CASE Tick
    BY <2>2, TickPasses DEF Requests!Next
  <2> QED BY <1>3, <2>1, <2>2 DEF Environment
<1>4. CASE UNCHANGED vars
  <2>1. TableKept
    BY <1>4, SameTable DEF vars
  <2>2. [u \in Thread |-> AbstractAnswer(u)]' = [u \in Thread |-> AbstractAnswer(u)]
    BY <1>4, AnswersKept DEF vars, AbstractAnswer
  <2> QED BY <2>1, <2>2 DEF TableKept, Requests!vars
<1> QED BY <1>0, <1>1, <1>2, <1>3, <1>4 DEF Next

\* If the clock is never set back, the locked operations on the table, with workers
\* that finish and a clock that moves inside them, are the atomic operations of
\* AsyncRequests.
THEOREM TableImplementsRequests ==
  ASSUME ClockMayStepBack = FALSE
  PROVE  Spec => ImplementsAsyncRequests
<1>1. IInv /\ HolderAnswers /\ AccessInThePast /\ [Next]_vars => [Requests!Next]_Requests!vars
  BY NextRefines
<1> QED
  BY <1>1, InitIsInit, Inductive, InvariantAnswers, InvariantAccessInThePast, PTL
     DEF Spec, ImplementsAsyncRequests, Requests!Spec

=============================================================================
