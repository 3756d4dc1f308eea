-------------------------- MODULE ServerStack_proofs --------------------------
(***************************************************************************)
(* CallsFindFunctor and ProtocolOutlivesItsCallers of ServerStack, for any *)
(* number of threads and requests, any clock and any packets.              *)
(***************************************************************************)
EXTENDS ServerStack, TLAPS

Phase == {"+protocol", "+functor", "+rpc_server", "up",
          "-rpc_server", "-functor", "-invokes", "-protocol", "down"}

\* The state of the threads, as far as it matters here.
ThreadTypes ==
  /\ stage \in [Thread -> {"free", "due", "sweeping", "handle", "protocol", "locked"}]
  /\ pc \in [Thread -> {"idle", "touch", "check", "reap", "sweep"}]

\* A thread holds the table's mutex only in the stages that work on the table.
IdleOutside == \A t \in Thread : stage[t] \in {"free", "due", "handle", "protocol"} => pc[t] = "idle"

\* Threads are inside operator() only as long as the rpc_server exists.
CalledByServer == \A t \in Thread : stage[t] # "free" => phase \in {"up", "-rpc_server"}

\* Requests exist only as long as the functor's table does.
KeptByTable == Table!Live # {} => phase \in {"up", "-rpc_server", "-functor", "-invokes"}

\* What each phase needs.
MembersAlive ==
  /\ phase \in Phase \ {"+protocol", "down"} => "protocol" \in alive
  /\ phase \in {"+rpc_server", "up", "-rpc_server", "-functor"} => "functor" \in alive

IInv ==
  /\ phase \in Phase
  /\ ThreadTypes
  /\ IdleOutside
  /\ CalledByServer
  /\ KeptByTable
  /\ MembersAlive

-----------------------------------------------------------------------------
(* The threads in operator() *)

\* A step of operator() belongs to a thread that is inside it, and keeps the mutex
\* to the stages that work on the table.
LEMMA HandlerIsInside ==
  ASSUME ThreadTypes, IdleOutside, NEW t \in Thread, Server!Handler(t)
  PROVE  stage[t] # "free" /\ ThreadTypes' /\ IdleOutside'
<1> USE DEF ThreadTypes, IdleOutside, Server!GoTo, Server!Finish,
            Server!Table!At, Server!Table!Enter, Server!Table!Leave, Server!Table!Return, Server!Table!CanLock
<1>1. CASE Server!CleanUp(t)
  BY <1>1 DEF Server!CleanUp, Server!Table!CleanUp
<1>2. CASE Server!SweepOne(t)
  BY <1>2 DEF Server!SweepOne, Server!Table!SweepOne
<1>3. CASE Server!SweepEnd(t)
  BY <1>3 DEF Server!SweepEnd, Server!Table!SweepEnd
<1>4. CASE Server!Refuse(t) \/ Server!CallProtocol(t) \/ Server!ProtocolReturns(t)
  BY <1>4 DEF Server!Refuse, Server!CallProtocol, Server!ProtocolReturns, Server!Handles,
              Server!tableVars
<1>5. CASE Server!AsyncAtOnce(t)
  <2>1. stage[t] = "handle" /\ stage' = [stage EXCEPT ![t] = "free"]
    BY <1>5 DEF Server!AsyncAtOnce, Server!Asks, Server!Handles, Server!Handled
  <2>2. pc' \in [Thread -> {"idle", "touch", "check", "reap", "sweep"}]
        /\ pc'[t] = "idle" /\ \A u \in Thread \ {t} : pc'[u] = pc[u]
    <3>1. CASE \/ Server!Table!NewRequest(t) \/ Server!Table!NewRequestThrows(t)
               \/ Server!Table!RejectInvoke(t)
               \/ \E c \in {"poll", "get", "invalidate"} : Server!Table!UnknownId(t, c, packet[t].id)
      BY <3>1 DEF Server!Table!NewRequest, Server!Table!NewRequestThrows,
                  Server!Table!RejectInvoke, Server!Table!UnknownId
    <3>2. CASE Server!Table!Poll(t, packet[t].id) /\ pc'[t] = "idle"
      BY <3>2 DEF Server!Table!Poll
    <3> QED BY <1>5, <3>1, <3>2 DEF Server!AsyncAtOnce
  <2> QED BY <2>1, <2>2
<1>6. CASE Server!AsyncEnter(t)
  BY <1>6 DEF Server!AsyncEnter, Server!Asks, Server!Handles,
              Server!Table!Poll, Server!Table!GetReply, Server!Table!Invalidate
<1>7. CASE Server!AsyncTouch(t)
  BY <1>7 DEF Server!AsyncTouch, Server!Handled, Server!Table!Touch
<1>8. CASE Server!AsyncLeave(t)
  BY <1>8 DEF Server!AsyncLeave, Server!Handled, Server!Table!Check, Server!Table!Reap
<1> QED BY <1>1, <1>2, <1>3, <1>4, <1>5, <1>6, <1>7, <1>8 DEF Server!Handler

\* So does a call of operator().
LEMMA ReceiveGoesInside ==
  ASSUME ThreadTypes, IdleOutside, NEW t \in Thread, NEW p, Server!Receive(t, p)
  PROVE  ThreadTypes' /\ IdleOutside' /\ Table!Live' = Table!Live
  BY DEF ThreadTypes, IdleOutside, Server!Receive, Server!Table!Collect, Server!Table!Return,
         Table!Live

-----------------------------------------------------------------------------
(* IInv is inductive *)

LEMMA InitIInv == Init => IInv
  BY DEF Init, IInv, Phase, ThreadTypes, IdleOutside, CalledByServer, KeptByTable, MembersAlive,
         Server!Init, Server!Table!Init, Table!Live

\* Construction and destruction leave the threads alone.
LEMMA PhaseStepKeepsIInv ==
  ASSUME IInv,
         \/ RefuseProtocol \/ ConstructProtocol \/ ConstructFunctor \/ ConstructServer
         \/ FactoryThrows \/ Destroy \/ StackStep
  PROVE  IInv'
<1> USE DEF IInv, Phase, MembersAlive, serverVars, Table!Live
<1>1. ThreadTypes' /\ IdleOutside'
  BY DEF ThreadTypes, IdleOutside, RefuseProtocol, ConstructProtocol, ConstructFunctor,
         ConstructServer, FactoryThrows, Destroy, StackStep, DestroyServer, DestroyFunctor,
         DestroyInvoke, DestroyTable, DestroyProtocol
<1>2. CASE RefuseProtocol \/ ConstructProtocol \/ ConstructFunctor \/ ConstructServer
  BY <1>1, <1>2 DEF RefuseProtocol, ConstructProtocol, ConstructFunctor, ConstructServer,
                    CalledByServer, KeptByTable
<1>3. CASE FactoryThrows \/ Destroy
  BY <1>1, <1>3 DEF FactoryThrows, Destroy, CalledByServer, KeptByTable
<1>4. CASE DestroyServer \/ DestroyFunctor
  BY <1>1, <1>4 DEF DestroyServer, DestroyFunctor, CalledByServer, KeptByTable
<1>5. CASE DestroyInvoke
  BY <1>1, <1>5 DEF DestroyInvoke, CalledByServer, KeptByTable
<1>6. CASE DestroyTable \/ DestroyProtocol
  BY <1>1, <1>6 DEF DestroyTable, DestroyProtocol, CalledByServer, KeptByTable
<1> QED BY <1>2, <1>3, <1>4, <1>5, <1>6 DEF StackStep

\* A call of the functor or a step of one, of a worker or of the clock.
LEMMA ServerStepKeepsIInv ==
  ASSUME IInv,
         \/ \E t \in Thread : Receive(t) \/ Handler(t)
         \/ \E id \in 1 .. MaxId : WorkerEnds(id)
         \/ Clock
  PROVE  IInv'
<1> USE DEF IInv, Phase, MembersAlive
<1>1. ASSUME NEW t \in Thread, Receive(t) PROVE IInv'
  <2>1. PICK p \in Server!AnyPacket : Server!Receive(t, p)
    BY <1>1 DEF Receive
  <2>2. ThreadTypes' /\ IdleOutside' /\ Table!Live' = Table!Live
    BY <2>1, ReceiveGoesInside
  <2> QED BY <1>1, <2>2 DEF Receive, CalledByServer, KeptByTable
<1>2. ASSUME NEW t \in Thread, Handler(t) PROVE IInv'
  <2>1. stage[t] # "free" /\ ThreadTypes' /\ IdleOutside'
    BY <1>2, HandlerIsInside DEF Handler
  <2> QED BY <1>2, <2>1 DEF Handler, CalledByServer, KeptByTable
<1>3. ASSUME NEW id \in 1 .. MaxId, WorkerEnds(id) PROVE IInv'
  <2>1. Table!Live' = Table!Live /\ UNCHANGED <<pc, stage, alive, phase>>
    BY <1>3 DEF WorkerEnds, Table!Finish, Table!Live
  <2> QED BY <2>1 DEF ThreadTypes, IdleOutside, CalledByServer, KeptByTable
<1>4. CASE Clock
  BY <1>4 DEF Clock, Table!Tick, Table!Live, ThreadTypes, IdleOutside, CalledByServer, KeptByTable
<1> QED BY <1>1, <1>2, <1>3, <1>4

LEMMA NextKeepsIInv == IInv /\ [Next]_vars => IInv'
<1>1. ASSUME IInv, UNCHANGED vars PROVE IInv'
  BY <1>1 DEF vars, serverVars, IInv, ThreadTypes, IdleOutside, CalledByServer, KeptByTable,
              MembersAlive, Table!Live
<1> QED BY <1>1, PhaseStepKeepsIInv, ServerStepKeepsIInv DEF Next

LEMMA SpecIInv == Spec => []IInv
<1> QED BY InitIInv, NextKeepsIInv, PTL DEF Spec

-----------------------------------------------------------------------------
(* Theorems *)

\* A thread of the network layer in a call of the functor finds it alive, however the
\* construction ended and whenever the stack is destroyed.
THEOREM FunctorOutlivesCalls == Spec => []CallsFindFunctor
<1>1. IInv => CallsFindFunctor
  BY DEF IInv, CallsFindFunctor, CalledByServer, MembersAlive
<1> QED BY <1>1, SpecIInv, PTL

\* The worker of a request, also of one whose client is gone, and the thread of a
\* synchronous call find the protocol alive.
THEOREM ProtocolOutlivesWorkers == Spec => []ProtocolOutlivesItsCallers
<1>1. IInv => ProtocolOutlivesItsCallers
  BY DEF IInv, Phase, ProtocolOutlivesItsCallers, CalledByServer, KeptByTable, MembersAlive
<1> QED BY <1>1, SpecIInv, PTL

=============================================================================
