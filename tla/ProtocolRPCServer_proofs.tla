----------------------- MODULE ProtocolRPCServer_proofs -----------------------
(***************************************************************************)
(* Proofs about ProtocolRPCServer, for any number of threads that enter    *)
(* operator() with any packets, any sweep interval and any expiration      *)
(* time.  What is proved about the table of asynchronous requests is used  *)
(* through the instance Proved: every step of the server is a step of the  *)
(* table, or leaves it alone.                                              *)
(***************************************************************************)
EXTENDS ProtocolRPCServer, TLAPS

Proved == INSTANCE AsyncInvokeServer_proofs

\* A thread is inside an operation on the table exactly in these stages.
StageFits ==
  \A t \in Thread :
    /\ pc[t] = "sweep" <=> stage[t] = "sweeping"
    /\ pc[t] \in {"touch", "check", "reap"} <=> stage[t] = "locked"

\* Packets that ask for an entry carry an identifier.
PacketFits == \A t \in Thread : packet[t].command \in {"poll", "get", "invalidate"} => packet[t].id # 0

\* The types of what the server has besides the table.
Types ==
  /\ last_cleanup \in 0 .. MaxTime \union {Never}
  /\ stage \in [Thread -> {"free", "due", "sweeping", "handle", "protocol", "locked"}]
  /\ packet \in [Thread -> Packet]
  /\ answer \in [Thread -> Outcome]
  /\ garbage \in [Thread -> SUBSET (1 .. MaxId)]

IInv == Proved!IInv /\ Types /\ StageFits /\ PacketFits

-----------------------------------------------------------------------------
(* The steps of the server are steps of the table *)

LEMMA SameAssumptions == Proved!ThreadAssumption /\ Proved!TimeAssumption /\ Proved!IdAssumption /\ Proved!SwitchAssumption
  BY TableAssumption DEF Proved!ThreadAssumption, Proved!TimeAssumption, Proved!IdAssumption, Proved!SwitchAssumption

LEMMA SameRemovable ==
  ASSUME NEW id
  PROVE  /\ Table!IsReadyForRemoval(id) <=> Proved!IsReadyForRemoval(id)
         /\ Table!IsReadyForRemoval(id)' <=> Proved!IsReadyForRemoval(id)'
  BY DEF Table!IsReadyForRemoval, Proved!IsReadyForRemoval, Table!IsFinished, Proved!IsFinished,
         Table!Finished, Proved!Finished, Table!IsExpired, Proved!IsExpired,
         Table!Elapsed, Proved!Elapsed

LEMMA SameTypes == Table!TypeOK <=> Proved!TypeOK
  BY DEF Table!TypeOK, Proved!TypeOK, Table!Time, Proved!Time, Table!Live, Proved!Live,
         Table!Id, Proved!Id, Table!AsyncInvoke, Proved!AsyncInvoke, Table!Future, Proved!Future,
         Table!Finished, Proved!Finished, Table!Reply, Proved!Reply, Table!Command, Proved!Command,
         Table!Result, Proved!Result

LEMMA SameInit == Table!Init => Proved!Init
  BY DEF Table!Init, Proved!Init, Table!NewInvoke, Proved!NewInvoke, Table!NoReply, Proved!NoReply

LEMMA SameActions ==
  ASSUME NEW t \in Thread
  PROVE  /\ Table!NewRequest(t) <=> Proved!NewRequest(t)
         /\ Table!NewRequestThrows(t) <=> Proved!NewRequestThrows(t)
         /\ Table!RejectInvoke(t) <=> Proved!RejectInvoke(t)
         /\ Table!CleanUp(t) <=> Proved!CleanUp(t)
         /\ Table!Collect(t) <=> Proved!Collect(t)
         /\ Table!Touch(t) <=> Proved!Touch(t)
         /\ Table!Check(t) <=> Proved!Check(t)
         /\ Table!Reap(t) <=> Proved!Reap(t)
         /\ Table!SweepOne(t) <=> Proved!SweepOne(t)
         /\ Table!SweepEnd(t) <=> Proved!SweepEnd(t)
<1> USE DEF Table!CanLock, Proved!CanLock, Table!Return, Proved!Return, Table!Answer, Proved!Answer,
            Table!Enter, Proved!Enter, Table!Leave, Proved!Leave, Table!At, Proved!At,
            Table!Live, Proved!Live
<1>1. Table!NewRequest(t) <=> Proved!NewRequest(t)
  BY DEF Table!NewRequest, Proved!NewRequest, Table!GetRequestId, Proved!GetRequestId, Table!Id,
         Proved!Id, Table!Emplace, Proved!Emplace, Table!NewInvoke, Proved!NewInvoke
<1>2. Table!NewRequestThrows(t) <=> Proved!NewRequestThrows(t)
  BY DEF Table!NewRequestThrows, Proved!NewRequestThrows, Table!GetRequestId, Proved!GetRequestId,
         Table!Id, Proved!Id
<1>3. Table!RejectInvoke(t) <=> Proved!RejectInvoke(t)
  BY DEF Table!RejectInvoke, Proved!RejectInvoke
<1>4. Table!CleanUp(t) <=> Proved!CleanUp(t)
  BY DEF Table!CleanUp, Proved!CleanUp
<1>5. Table!Collect(t) <=> Proved!Collect(t)
  BY DEF Table!Collect, Proved!Collect, Table!NoReply, Proved!NoReply
<1>6. Table!Touch(t) <=> Proved!Touch(t)
  BY DEF Table!Touch, Proved!Touch
<1>7. Table!Check(t) <=> Proved!Check(t)
  BY DEF Table!Check, Proved!Check, Table!IsFinished, Proved!IsFinished, Table!Finished, Proved!Finished
<1>8. Table!Reap(t) <=> Proved!Reap(t)
  BY SameRemovable DEF Table!Reap, Proved!Reap, Table!Erase, Proved!Erase
<1>9. Table!SweepOne(t) <=> Proved!SweepOne(t)
  BY SameRemovable DEF Table!SweepOne, Proved!SweepOne, Table!IsNext, Proved!IsNext, Table!Erase, Proved!Erase
<1>10. Table!SweepEnd(t) <=> Proved!SweepEnd(t)
  BY DEF Table!SweepEnd, Proved!SweepEnd
<1> QED BY <1>1, <1>2, <1>3, <1>4, <1>5, <1>6, <1>7, <1>8, <1>9, <1>10

LEMMA SameActionsOnEntry ==
  ASSUME NEW t \in Thread, NEW id
  PROVE  /\ \A c : Table!UnknownId(t, c, id) <=> Proved!UnknownId(t, c, id)
         /\ Table!Poll(t, id) <=> Proved!Poll(t, id)
         /\ Table!GetReply(t, id) <=> Proved!GetReply(t, id)
         /\ Table!Invalidate(t, id) <=> Proved!Invalidate(t, id)
<1> USE DEF Table!CanLock, Proved!CanLock, Table!Return, Proved!Return, Table!Answer, Proved!Answer,
            Table!Enter, Proved!Enter, Table!Live, Proved!Live
<1>1. \A c : Table!UnknownId(t, c, id) <=> Proved!UnknownId(t, c, id)
  BY DEF Table!UnknownId, Proved!UnknownId
<1>2. Table!Poll(t, id) <=> Proved!Poll(t, id)
  BY SameRemovable DEF Table!Poll, Proved!Poll
<1>3. Table!GetReply(t, id) <=> Proved!GetReply(t, id)
  BY DEF Table!GetReply, Proved!GetReply, Table!CanTakeReply, Proved!CanTakeReply,
         Table!TakenResult, Proved!TakenResult, Table!IsFinished, Proved!IsFinished,
         Table!Finished, Proved!Finished
<1>4. Table!Invalidate(t, id) <=> Proved!Invalidate(t, id)
  BY DEF Table!Invalidate, Proved!Invalidate
<1> QED BY <1>1, <1>2, <1>3, <1>4

LEMMA SameEnvironment == Table!Environment <=> Proved!Environment
  BY DEF Table!Environment, Proved!Environment, Table!Live, Proved!Live, Table!Finish, Proved!Finish,
         Table!Finished, Proved!Finished, Table!Tick, Proved!Tick, Table!NextInstant,
         Proved!NextInstant, Table!Time, Proved!Time

\* Every step of the server is a step of the table or leaves it alone.
LEMMA StepOfTable ==
  ASSUME IInv, [Next]_vars
  PROVE  [Proved!Next]_Proved!vars
<1>1. ASSUME NEW t \in Thread, NEW p \in AnyPacket, Receive(t, p)
      PROVE  Proved!Next
  BY <1>1, SameActions DEF Receive, Proved!Next
<1>2. ASSUME NEW t \in Thread, CleanUp(t) \/ SweepOne(t) \/ SweepEnd(t)
      PROVE  Proved!Next
  BY <1>2, SameActions DEF CleanUp, SweepOne, SweepEnd, Proved!Next, Proved!Call, Proved!Step
<1>3. ASSUME NEW t \in Thread, Refuse(t) \/ CallProtocol(t) \/ ProtocolReturns(t)
      PROVE  UNCHANGED Proved!vars
  BY <1>3 DEF Refuse, CallProtocol, ProtocolReturns, tableVars, Proved!vars
<1>4. ASSUME NEW t \in Thread, AsyncAtOnce(t) \/ AsyncEnter(t)
      PROVE  Proved!Next
  <2> DEFINE id == packet[t].id
  <2>1. packet[t].command \in {"poll", "get", "invalidate"} => id \in Proved!Id
    BY DEF IInv, PacketFits, Types, Packet, Proved!Id
  <2>2. Proved!Call(t)
    BY <1>4, <2>1, SameActions, SameActionsOnEntry DEF AsyncAtOnce, AsyncEnter, Asks, Proved!Call
  <2> QED BY <2>2 DEF Proved!Next
<1>5. ASSUME NEW t \in Thread, AsyncTouch(t) \/ AsyncLeave(t)
      PROVE  Proved!Next
  BY <1>5, SameActions DEF AsyncTouch, AsyncLeave, Proved!Next, Proved!Step
<1>6. CASE Environment
  BY <1>6, SameEnvironment DEF Environment, Proved!Next
<1>7. CASE UNCHANGED vars
  BY <1>7 DEF vars, Proved!vars
<1> QED BY <1>1, <1>2, <1>3, <1>4, <1>5, <1>6, <1>7 DEF Next, Handler

LEMMA TableInvariantKept == IInv /\ [Next]_vars => Proved!IInv'
  BY StepOfTable, Proved!NextKeepsIInv, SameAssumptions DEF IInv

-----------------------------------------------------------------------------
(* The stages fit the table *)

LEMMA InitIInv == Init => IInv
<1> SUFFICES ASSUME Init PROVE IInv
  OBVIOUS
<1>1. Proved!IInv
  BY SameInit, SameAssumptions, Proved!InitIInv DEF Init
<1>2. Types /\ PacketFits
  BY TableAssumption DEF Init, Types, PacketFits, NoPacket, Packet, Kind, AsyncCommand, Out, Outcome
<1>3. StageFits
  BY DEF Init, StageFits, Table!Init
<1> QED BY <1>1, <1>2, <1>3 DEF IInv

\* The answers that operator() gives.
LEMMA AnswersTyped ==
  /\ Out("none", "none") \in Outcome /\ Out("async", "none") \in Outcome
  /\ Out("rpc", "ServerUnsupportedPayloadEncodingError") \in Outcome
  /\ Out("rpc", "ServerTransportDecodingError") \in Outcome
  /\ \A r \in {"Invoked", "ServerProtocolException"} :
       Out("rpc", r) \in Outcome /\ Out("service", r) \in Outcome
  BY DEF Out, Outcome

LEMMA FinishKeepsTypes ==
  ASSUME Types, PacketFits, NEW t \in Thread, NEW o \in Outcome, Finish(t, o)
  PROVE  Types' /\ PacketFits'
<1>1. NoPacket \in Packet /\ NoPacket.command = "none"
  BY TableAssumption DEF NoPacket, Packet, Kind, AsyncCommand
<1> QED BY <1>1 DEF Types, PacketFits, Finish

LEMMA GoToKeepsTypes ==
  ASSUME Types, PacketFits, NEW t \in Thread,
         NEW s \in {"free", "due", "sweeping", "handle", "protocol", "locked"}, GoTo(t, s)
  PROVE  Types' /\ PacketFits'
  BY DEF Types, PacketFits, GoTo

LEMMA ReceiveKeeps ==
  ASSUME IInv, NEW t \in Thread, NEW p \in AnyPacket, Receive(t, p)
  PROVE  Types' /\ StageFits' /\ PacketFits'
<1>1. p \in Packet /\ (p.command \in {"poll", "get", "invalidate"} => p.id # 0)
  BY DEF AnyPacket
<1>2. packet' = [packet EXCEPT ![t] = p] /\ answer' = [answer EXCEPT ![t] = Out("none", "none")]
  BY DEF Receive
<1>3. /\ last_cleanup' \in 0 .. MaxTime \union {Never}
      /\ garbage' \in [Thread -> SUBSET (1 .. MaxId)]
  <2>1. now \in 0 .. MaxTime /\ Table!Live \subseteq 1 .. MaxId
    BY DEF IInv, Proved!IInv, Proved!TypeOK, Proved!Time, Proved!Id, Proved!Live, Table!Live
  <2>2. CASE UNCHANGED <<last_cleanup, garbage>>
    BY <2>2 DEF IInv, Types
  <2>3. CASE /\ last_cleanup' = now
             /\ garbage' = [garbage EXCEPT ![t] = {id \in Table!Live : Table!IsReadyForRemoval(id)}]
    BY <2>1, <2>3 DEF IInv, Types
  <2> QED BY <2>2, <2>3 DEF Receive
<1>4. /\ \E s \in {"due", "handle"} : stage' = [stage EXCEPT ![t] = s]
      /\ stage[t] = "free" /\ UNCHANGED pc
  BY DEF Receive, Table!Collect, Table!Return
<1>5. Types'
  BY <1>1, <1>2, <1>3, <1>4, AnswersTyped DEF IInv, Types
<1>6. StageFits'
  BY <1>4 DEF IInv, Types, StageFits
<1>7. PacketFits'
  BY <1>1, <1>2 DEF IInv, Types, PacketFits
<1> QED BY <1>5, <1>6, <1>7

LEMMA SweepKeeps ==
  ASSUME IInv, NEW t \in Thread, CleanUp(t) \/ SweepOne(t) \/ SweepEnd(t)
  PROVE  Types' /\ StageFits' /\ PacketFits'
<1> USE DEF IInv, Proved!IInv, Proved!TypeOK, Types, StageFits, PacketFits
<1>1. CASE CleanUp(t)
  BY <1>1 DEF CleanUp, Table!CleanUp, Table!CanLock, Table!Enter, GoTo
<1>2. CASE SweepOne(t)
  BY <1>2 DEF SweepOne, Table!SweepOne
<1>3. CASE SweepEnd(t)
  <2>1. /\ pc[t] = "sweep" /\ pc' = [pc EXCEPT ![t] = "idle"]
        /\ stage' = [stage EXCEPT ![t] = "handle"] /\ garbage' = [garbage EXCEPT ![t] = {}]
        /\ UNCHANGED <<last_cleanup, packet, answer>>
    BY <1>3 DEF SweepEnd, Table!SweepEnd, Table!At, Table!Leave
  <2> QED BY <2>1
<1> QED BY <1>1, <1>2, <1>3

LEMMA AtOnceKeeps ==
  ASSUME IInv, NEW t \in Thread,
         Refuse(t) \/ CallProtocol(t) \/ ProtocolReturns(t) \/ AsyncAtOnce(t)
  PROVE  Types' /\ StageFits' /\ PacketFits'
<1>1. stage[t] \in {"handle", "protocol"} /\ UNCHANGED pc
  <2>1. CASE AsyncAtOnce(t)
    <3>1. stage[t] = "handle"
      BY <2>1 DEF AsyncAtOnce, Asks, Handles
    <3>2. pc \in [Thread -> {"idle", "touch", "check", "reap", "sweep"}]
      BY DEF IInv, Proved!IInv, Proved!TypeOK
    <3>3. ASSUME Table!Poll(t, packet[t].id), pc'[t] = "idle"
          PROVE  UNCHANGED pc
      <4>1. pc' = pc \/ pc' = [pc EXCEPT ![t] = "touch"]
        BY <3>3 DEF Table!Poll, Table!Return, Table!Enter
      <4> QED BY <3>2, <3>3, <4>1
    <3>4. CASE Table!NewRequest(t) \/ Table!NewRequestThrows(t) \/ Table!RejectInvoke(t)
      BY <3>1, <3>4 DEF Table!NewRequest, Table!NewRequestThrows, Table!RejectInvoke, Table!Return
    <3>5. ASSUME NEW c, Table!UnknownId(t, c, packet[t].id)
          PROVE  UNCHANGED pc
      BY <3>5 DEF Table!UnknownId, Table!Return
    <3> QED BY <2>1, <3>1, <3>3, <3>4, <3>5 DEF AsyncAtOnce
  <2> QED BY <2>1 DEF Refuse, CallProtocol, ProtocolReturns, Handles, tableVars
<1>2. CASE CallProtocol(t)
  BY <1>1, <1>2, GoToKeepsTypes DEF CallProtocol, GoTo, IInv, Types, StageFits
<1>3. CASE ~CallProtocol(t)
  <2>1. PICK o \in Outcome : Finish(t, o)
    BY <1>3, AnswersTyped DEF Refuse, ProtocolReturns, AsyncAtOnce, Handled
  <2>2. Types' /\ PacketFits'
    BY <2>1, FinishKeepsTypes DEF IInv
  <2> QED BY <1>1, <2>1, <2>2 DEF Finish, IInv, Types, StageFits
<1> QED BY <1>2, <1>3

LEMMA LockedKeeps ==
  ASSUME IInv, NEW t \in Thread, AsyncEnter(t) \/ AsyncTouch(t) \/ AsyncLeave(t)
  PROVE  Types' /\ StageFits' /\ PacketFits'
<1> DEFINE inside == {"touch", "check", "reap"}
<1>0. pc \in [Thread -> {"idle", "touch", "check", "reap", "sweep"}] /\ stage \in [Thread -> {"free", "due", "sweeping", "handle", "protocol", "locked"}]
  BY DEF IInv, Types, Proved!IInv, Proved!TypeOK
<1>1. CASE AsyncEnter(t)
  <2>1. \E l \in inside : pc' = [pc EXCEPT ![t] = l]
    BY <1>0, <1>1 DEF AsyncEnter, Table!Poll, Table!GetReply, Table!Invalidate, Table!Enter,
       Table!Return, Table!CanLock
  <2> QED BY <1>0, <1>1, <2>1, GoToKeepsTypes DEF AsyncEnter, GoTo, IInv, StageFits
<1>2. CASE AsyncTouch(t)
  <2>1. CASE pc'[t] = "idle"
    <3>1. pc' = [pc EXCEPT ![t] = "idle"]
      BY <1>0, <1>2, <2>1 DEF AsyncTouch, Table!Touch, Table!Leave
    <3> QED BY <1>0, <1>2, <2>1, <3>1, FinishKeepsTypes, AnswersTyped
            DEF AsyncTouch, Handled, Finish, IInv, StageFits
  <2>2. CASE pc'[t] # "idle"
    <3>1. /\ garbage' = [u \in Thread |-> garbage[u] \ {reply[t].id}]
          /\ UNCHANGED <<last_cleanup, stage, packet, answer>>
          /\ stage[t] = "locked"
      BY <1>2, <2>2 DEF AsyncTouch
    <3>2. pc' = [pc EXCEPT ![t] = "check"]
      BY <1>0, <1>2, <2>2 DEF AsyncTouch, Table!Touch, Table!Leave
    <3>3. garbage' \in [Thread -> SUBSET (1 .. MaxId)]
      BY <3>1 DEF IInv, Types
    <3> QED BY <1>0, <3>1, <3>2, <3>3 DEF IInv, Types, StageFits, PacketFits
  <2> QED BY <2>1, <2>2
<1>3. CASE AsyncLeave(t)
  <2>1. pc' = [pc EXCEPT ![t] = "idle"]
    BY <1>3 DEF AsyncLeave, Table!Check, Table!Reap, Table!Leave
  <2> QED BY <1>0, <1>3, <2>1, FinishKeepsTypes, AnswersTyped
          DEF AsyncLeave, Handled, Finish, IInv, StageFits
<1> QED BY <1>1, <1>2, <1>3

LEMMA OthersKeep ==
  ASSUME IInv, Environment \/ UNCHANGED vars
  PROVE  Types' /\ StageFits' /\ PacketFits'
  BY DEF IInv, Types, StageFits, PacketFits, Environment, Table!Environment, Table!Finish, Table!Tick, vars

LEMMA NextKeepsIInv == IInv /\ [Next]_vars => IInv'
<1> SUFFICES ASSUME IInv, [Next]_vars PROVE Types' /\ StageFits' /\ PacketFits'
  BY TableInvariantKept DEF IInv
<1> QED BY ReceiveKeeps, SweepKeeps, AtOnceKeeps, LockedKeeps, OthersKeep DEF Next, Handler

THEOREM Inductive == Spec => []IInv
<1> QED BY InitIInv, NextKeepsIInv, PTL DEF Spec

\* The state of the server is always well typed, for any number of threads and packets.
THEOREM TypeCorrect == Spec => []TypeOK
<1>1. IInv => TypeOK
  BY SameTypes DEF IInv, Proved!IInv, Types, TypeOK
<1> QED BY <1>1, Inductive, PTL

-----------------------------------------------------------------------------
(* A sweep removes what it was decided for *)

\* What a thread found removable was in the table then, and still is removable unless
\* it is gone; what its sweep has passed is gone.
GarbageIsOld == \A t \in Thread : garbage[t] \subseteq 1 .. last_id

GarbageIsRemovable ==
  \A t \in Thread : \A id \in garbage[t] \intersect Table!Live : Table!IsReadyForRemoval(id)

SweptIsGone ==
  \A t \in Thread : stage[t] = "sweeping" =>
    \A id \in garbage[t] \intersect Table!Live : id > reply[t].id

GarbageInv == Proved!AccessInThePast /\ GarbageIsOld /\ GarbageIsRemovable /\ SweptIsGone

\* A thread does nothing to another, except that it may take entries off its garbage.
LEMMA OthersUntouched ==
  ASSUME IInv, NEW t \in Thread, Handler(t) \/ \E p \in AnyPacket : Receive(t, p),
         NEW u \in Thread \ {t}
  PROVE  /\ stage'[u] = stage[u] /\ pc'[u] = pc[u] /\ reply'[u] = reply[u]
         /\ packet'[u] = packet[u] /\ answer'[u] = answer[u]
         /\ garbage'[u] \subseteq garbage[u]
<1>1. /\ stage = [v \in Thread |-> stage[v]] /\ pc = [v \in Thread |-> pc[v]]
      /\ reply = [v \in Thread |-> reply[v]] /\ garbage = [v \in Thread |-> garbage[v]]
      /\ packet = [v \in Thread |-> packet[v]] /\ answer = [v \in Thread |-> answer[v]]
  BY DEF IInv, Proved!IInv, Proved!TypeOK, Types
<1>2. ASSUME NEW p \in AnyPacket, Receive(t, p)
      PROVE  /\ stage'[u] = stage[u] /\ pc'[u] = pc[u] /\ reply'[u] = reply[u]
             /\ packet'[u] = packet[u] /\ answer'[u] = answer[u] /\ garbage'[u] = garbage[u]
  BY <1>1, <1>2 DEF Receive, Table!Collect, Table!Return
<1>3. CASE CleanUp(t) \/ SweepOne(t) \/ SweepEnd(t)
  BY <1>1, <1>3 DEF CleanUp, SweepOne, SweepEnd, GoTo, Table!CleanUp, Table!Enter, Table!SweepOne,
                    Table!SweepEnd, Table!Leave
<1>4. CASE Refuse(t) \/ CallProtocol(t) \/ ProtocolReturns(t)
  BY <1>1, <1>4 DEF Refuse, CallProtocol, ProtocolReturns, Finish, GoTo, tableVars
<1>5. CASE AsyncAtOnce(t) \/ AsyncEnter(t)
  <2>1. /\ stage'[u] = stage[u] /\ garbage' = garbage
        /\ packet'[u] = packet[u] /\ answer'[u] = answer[u]
    BY <1>1, <1>5 DEF AsyncAtOnce, AsyncEnter, Handled, Finish, GoTo
  <2> DEFINE Own == /\ \E r : reply' = [reply EXCEPT ![t] = r]
                    /\ pc' = pc \/ \E l : pc' = [pc EXCEPT ![t] = l]
  <2>2. Own
    <3>1. CASE Table!NewRequest(t) \/ Table!NewRequestThrows(t) \/ Table!RejectInvoke(t)
      BY <3>1 DEF Table!NewRequest, Table!NewRequestThrows, Table!RejectInvoke, Table!Return
    <3>2. ASSUME NEW c, Table!UnknownId(t, c, packet[t].id)
          PROVE  Own
      BY <3>2 DEF Table!UnknownId, Table!Return
    <3>3. CASE Table!Poll(t, packet[t].id)
      BY <3>3 DEF Table!Poll, Table!Return, Table!Enter
    <3>4. CASE Table!GetReply(t, packet[t].id)
      BY <3>4 DEF Table!GetReply, Table!Enter
    <3>5. CASE Table!Invalidate(t, packet[t].id)
      BY <3>5 DEF Table!Invalidate, Table!Enter
    <3> QED BY <1>5, <3>1, <3>2, <3>3, <3>4, <3>5 DEF AsyncAtOnce, AsyncEnter
  <2> QED BY <1>1, <2>1, <2>2
<1>6. CASE AsyncTouch(t)
  <2>1. /\ stage'[u] = stage[u] /\ garbage'[u] \subseteq garbage[u]
        /\ packet'[u] = packet[u] /\ answer'[u] = answer[u]
    <3>1. CASE pc'[t] = "idle"
      BY <1>1, <1>6, <3>1 DEF AsyncTouch, Handled, Finish
    <3>2. CASE pc'[t] # "idle"
      BY <1>1, <1>6, <3>2 DEF AsyncTouch
    <3> QED BY <3>1, <3>2
  <2>2. reply'[u] = reply[u] /\ pc'[u] = pc[u]
    BY <1>1, <1>6 DEF AsyncTouch, Table!Touch, Table!Leave
  <2> QED BY <2>1, <2>2
<1>7. CASE AsyncLeave(t)
  BY <1>1, <1>7 DEF AsyncLeave, Handled, Finish, Table!Check, Table!Reap, Table!Leave
<1> QED BY <1>2, <1>3, <1>4, <1>5, <1>6, <1>7 DEF Handler

\* Only AsyncTouch renews an entry.
LEMMA OnlyTouchRenews ==
  ASSUME IInv, NEW t \in Thread, Handler(t) \/ \E p \in AnyPacket : Receive(t, p),
         NEW u \in Thread, pc[u] = "touch", pc'[u] = "check"
  PROVE  u = t /\ AsyncTouch(t)
<1>1. u = t
  BY OthersUntouched
<1>2. stage[t] = "locked" /\ pc'[t] # "idle"
  BY <1>1 DEF IInv, StageFits
<1>3. ~AsyncLeave(t)
  BY <1>2 DEF IInv, Proved!IInv, Proved!TypeOK, AsyncLeave, Table!Check, Table!Reap, Table!Leave
<1>4. ~SweepOne(t) /\ ~SweepEnd(t)
  BY <1>1 DEF SweepOne, SweepEnd, Table!SweepOne, Table!SweepEnd, Table!At
<1> QED
  BY <1>1, <1>2, <1>3, <1>4
     DEF Handler, Receive, CleanUp, Refuse, CallProtocol, ProtocolReturns, AsyncAtOnce, AsyncEnter,
         Asks, Handles

LEMMA InitGarbageInv == Init => GarbageInv
  BY DEF Init, Table!Init, GarbageInv, Proved!AccessInThePast, Proved!Live, Table!Live, GarbageIsOld,
         GarbageIsRemovable, SweptIsGone

\* What the step of a thread makes of the garbage of some thread.
LEMMA GarbageMoves ==
  ASSUME IInv, GarbageInv, [Next]_vars, NEW u \in Thread
  PROVE  \/ garbage'[u] \subseteq garbage[u]
         \/ /\ UNCHANGED <<now, invokes>> /\ stage'[u] # "sweeping"
            /\ garbage'[u] = {id \in Table!Live : Table!IsReadyForRemoval(id)}
<1>0. garbage = [v \in Thread |-> garbage[v]] /\ stage = [v \in Thread |-> stage[v]]
  BY DEF IInv, Types
<1>1. CASE Environment \/ UNCHANGED vars
  BY <1>1 DEF Environment, vars
<1>2. ASSUME NEW p \in AnyPacket, Receive(u, p)
      PROVE  \/ garbage'[u] \subseteq garbage[u]
             \/ /\ UNCHANGED <<now, invokes>> /\ stage'[u] # "sweeping"
                /\ garbage'[u] = {id \in Table!Live : Table!IsReadyForRemoval(id)}
  <2>1. UNCHANGED <<now, invokes>>
    BY <1>2 DEF Receive, Table!Collect
  <2>2. stage'[u] # "sweeping"
    BY <1>0, <1>2 DEF Receive
  <2> QED BY <1>0, <1>2, <2>1, <2>2 DEF Receive
<1>3. CASE Handler(u)
  <2>1. CASE SweepEnd(u)
    BY <1>0, <2>1 DEF SweepEnd
  <2>2. CASE AsyncTouch(u)
    BY <1>0, <2>2 DEF AsyncTouch, Handled, Finish
  <2> QED
    BY <1>3, <2>1, <2>2
       DEF Handler, CleanUp, SweepOne, Refuse, CallProtocol, ProtocolReturns, AsyncAtOnce, AsyncEnter,
           AsyncLeave, Handled, Finish, GoTo
<1> QED BY <1>1, <1>2, <1>3, OthersUntouched DEF Next

\* An entry that is garbage and is still there was there before, and is of no more use.
LEMMA GarbageStays ==
  ASSUME ClockMayStepBack = FALSE, IInv, GarbageInv, [Next]_vars, NEW u \in Thread,
         garbage'[u] \subseteq garbage[u], NEW id \in garbage'[u], id \in Table!Live'
  PROVE  id \in Table!Live /\ Table!IsReadyForRemoval(id)'
<1> USE DEF Table!Live, Proved!Live
<1>0. Proved!IInv /\ [Proved!Next]_Proved!vars
  BY StepOfTable DEF IInv
<1>1. id \in Table!Live
  <2>1. id \in 1 .. last_id /\ last_id \in Nat
    BY TableAssumption DEF GarbageInv, GarbageIsOld, IInv, Proved!IInv, Proved!TypeOK
  <2>2. CASE id \notin Table!Live
    <3>1. id = last_id' /\ last_id' = last_id + 1
      BY <1>0, <2>2, SameAssumptions, Proved!EntryIsNew
    <3> QED BY <2>1, <3>1
  <2> QED BY <2>2
<1>2. Table!IsReadyForRemoval(id)
  BY <1>1 DEF GarbageInv, GarbageIsRemovable
<1>3. ~\E t \in Thread : pc[t] = "touch" /\ pc'[t] = "check" /\ reply[t].id = id
  <2> SUFFICES ASSUME NEW t \in Thread, pc[t] = "touch", pc'[t] = "check", reply[t].id = id
               PROVE  FALSE
    OBVIOUS
  <2>1. AsyncTouch(t)
    <3>1. ~(Environment \/ UNCHANGED vars)
      BY DEF Environment, Table!Environment, Table!Finish, Table!Tick, vars
    <3> QED BY <3>1, OnlyTouchRenews DEF Next
  <2>2. garbage' = [v \in Thread |-> garbage[v] \ {id}]
    BY <2>1 DEF AsyncTouch
  <2> QED BY <2>2
<1>4. Proved!IsReadyForRemoval(id)'
  BY <1>0, <1>1, <1>2, <1>3, SameRemovable, SameAssumptions, Proved!RemovableStays DEF GarbageInv
<1> QED BY <1>1, <1>4, SameRemovable

\* A step that leaves a thread in its sweep passes at most one entry, which it erases
\* if it is garbage.
LEMMA SweepPasses ==
  ASSUME ClockMayStepBack = FALSE, IInv, GarbageInv, [Next]_vars, NEW u \in Thread,
         stage'[u] = "sweeping", garbage'[u] \subseteq garbage[u],
         NEW id \in garbage'[u], id \in Table!Live'
  PROVE  id > reply'[u].id
<1> USE DEF Table!Live
<1>1. id \in Table!Live /\ id \in 1 .. last_id /\ last_id \in Nat
  <2>1. id \in Table!Live
    BY GarbageStays
  <2>2. id \in garbage[u] /\ garbage[u] \subseteq 1 .. last_id
    BY DEF GarbageInv, GarbageIsOld
  <2> QED BY <2>1, <2>2, TableAssumption DEF IInv, Proved!IInv, Proved!TypeOK
<1>2. CASE stage[u] = "sweeping" /\ reply'[u] = reply[u]
  BY <1>1, <1>2 DEF GarbageInv, SweptIsGone
<1>3. CASE SweepOne(u)
  <2>1. PICK i \in Table!Live :
          /\ Table!IsNext(i, reply[u].id)
          /\ invokes' = IF Table!IsReadyForRemoval(i) THEN Table!Erase(i) ELSE invokes
          /\ reply' = [reply EXCEPT ![u].id = i]
    BY <1>3 DEF SweepOne, Table!SweepOne
  <2>2. reply'[u].id = i
    BY <2>1 DEF IInv, Proved!IInv, Proved!TypeOK, Proved!Reply
  <2>3. id > reply[u].id
    BY <1>1, <1>3 DEF GarbageInv, SweptIsGone, SweepOne, Table!SweepOne, Table!At, IInv, StageFits
  <2>4. i <= id /\ i \in Nat
    BY <1>1, <2>1, <2>3 DEF Table!IsNext, IInv, Proved!IInv, Proved!IdsWereDrawn, Proved!Live
  <2>5. id # i
    BY <1>1, <2>1 DEF GarbageInv, GarbageIsRemovable, Table!Erase
  <2> QED BY <1>1, <2>2, <2>4, <2>5
<1>4. CASE CleanUp(u)
  <2>1. reply'[u].id = 0
    BY <1>4 DEF CleanUp, Table!CleanUp, Table!Enter, Table!Answer, IInv, Proved!IInv, Proved!TypeOK
  <2> QED BY <1>1, <2>1
<1>5. CASE Handler(u) \/ \E p \in AnyPacket : Receive(u, p)
  <2>1. stage = [v \in Thread |-> stage[v]]
    BY DEF IInv, Types
  <2>2. ASSUME NEW s, stage' = [stage EXCEPT ![u] = s]
        PROVE  s = "sweeping"
    BY <2>1, <2>2
  <2>3. ~SweepEnd(u) /\ ~\E p \in AnyPacket : Receive(u, p)
    BY <2>2 DEF SweepEnd, Receive
  <2>4. ~(Refuse(u) \/ CallProtocol(u) \/ ProtocolReturns(u) \/ AsyncAtOnce(u) \/ AsyncEnter(u) \/ AsyncLeave(u))
    BY <2>2 DEF Refuse, CallProtocol, ProtocolReturns, AsyncAtOnce, AsyncEnter, AsyncLeave, Handled,
                Finish, GoTo
  <2>5. ~AsyncTouch(u)
    BY <2>2 DEF AsyncTouch, Handled, Finish
  <2> QED BY <1>3, <1>4, <1>5, <2>3, <2>4, <2>5 DEF Handler
<1>6. CASE Environment \/ UNCHANGED vars
  BY <1>2, <1>6 DEF Environment, Table!Environment, Table!Finish, Table!Tick, vars
<1> QED BY <1>2, <1>5, <1>6, OthersUntouched DEF Next

LEMMA NextKeepsGarbageInv ==
  ASSUME ClockMayStepBack = FALSE, IInv, GarbageInv, [Next]_vars
  PROVE  GarbageInv'
<1>0. Proved!IInv /\ [Proved!Next]_Proved!vars /\ Proved!IInv'
  BY StepOfTable, TableInvariantKept DEF IInv
<1>1. Proved!AccessInThePast'
  BY <1>0, SameAssumptions, Proved!NextKeepsAccessInThePast DEF GarbageInv
<1>2. GarbageIsOld'
  <2> SUFFICES ASSUME NEW u \in Thread PROVE garbage'[u] \subseteq 1 .. last_id'
    BY DEF GarbageIsOld
  <2>1. CASE garbage'[u] \subseteq garbage[u]
    <3>1. last_id \in Nat /\ last_id' \in {last_id, last_id + 1}
      BY <1>0, SameAssumptions, Proved!IdsOnlyGrow
    <3> QED BY <2>1, <3>1 DEF GarbageInv, GarbageIsOld
  <2>2. CASE garbage'[u] \subseteq Table!Live /\ UNCHANGED invokes
    BY <1>0, <2>2 DEF Table!Live, Proved!Live, Proved!IInv, Proved!IdsWereDrawn
  <2> QED BY <2>1, <2>2, GarbageMoves
<1>3. GarbageIsRemovable'
  <2> SUFFICES ASSUME NEW u \in Thread, NEW id \in garbage'[u], id \in Table!Live'
               PROVE  Table!IsReadyForRemoval(id)'
    BY DEF GarbageIsRemovable
  <2>1. CASE /\ UNCHANGED <<now, invokes>>
             /\ garbage'[u] = {i \in Table!Live : Table!IsReadyForRemoval(i)}
    BY <2>1 DEF Table!IsReadyForRemoval, Table!IsFinished, Table!IsExpired, Table!Elapsed
  <2> QED BY <2>1, GarbageMoves, GarbageStays
<1>4. SweptIsGone'
  BY GarbageMoves, SweepPasses DEF SweptIsGone
<1> QED BY <1>1, <1>2, <1>3, <1>4 DEF GarbageInv

\* Unless the clock is set back, a sweep removes every entry that was removable when the
\* thread decided to sweep and that no client asked for since, however many other
\* threads add, renew, fetch and erase entries between the decision and the sweep.
THEOREM SweepsAreComplete ==
  ASSUME ClockMayStepBack = FALSE
  PROVE  Spec => SweepRemovesGarbage
<1>1. Spec => []GarbageInv
  BY InitGarbageInv, NextKeepsGarbageInv, Inductive, PTL DEF Spec
<1>2. IInv /\ GarbageInv /\ [Next]_vars =>
        [\A t \in Thread :
           stage[t] = "sweeping" /\ stage'[t] # "sweeping" => garbage[t] \intersect Table!Live = {}]_vars
  <2> SUFFICES ASSUME IInv, GarbageInv, [Next]_vars, NEW t \in Thread,
                      stage[t] = "sweeping", stage'[t] # "sweeping"
               PROVE  garbage[t] \intersect Table!Live = {}
    OBVIOUS
  <2>1. Handler(t)
    <3>1. ~(Environment \/ UNCHANGED vars \/ \E p \in AnyPacket : Receive(t, p))
      BY DEF Environment, vars, Receive
    <3> QED BY <3>1, OthersUntouched DEF Next
  <2>2. SweepEnd(t)
    BY <2>1 DEF Handler, CleanUp, SweepOne, Refuse, CallProtocol, ProtocolReturns, AsyncAtOnce,
                AsyncEnter, AsyncTouch, AsyncLeave, Asks, Handles
  <2>3. ASSUME NEW id \in garbage[t], id \in Table!Live
        PROVE  FALSE
    <3>1. id \in Nat /\ reply[t].id \in Nat
      BY DEF GarbageInv, GarbageIsOld, IInv, Proved!IInv, Proved!TypeOK, Proved!Reply
    <3>2. id > reply[t].id
      BY <2>3 DEF GarbageInv, SweptIsGone
    <3>3. id <= reply[t].id
      BY <2>2, <2>3 DEF SweepEnd, Table!SweepEnd
    <3> QED BY <3>1, <3>2, <3>3
  <2> QED BY <2>3
<1> QED BY <1>1, <1>2, Inductive, PTL DEF Spec, SweepRemovesGarbage

-----------------------------------------------------------------------------
(* What a thread does for the packet it handles *)

\* A thread inside an operation works for its packet.
Serves(t) ==
  /\ stage[t] = "protocol" => packet[t].kind \in {"sync", "service"}
  /\ stage[t] = "locked" =>
       /\ packet[t].kind = "async"
       /\ reply[t].command = packet[t].command /\ reply[t].id = packet[t].id
       /\ packet[t].command \in IF pc[t] = "reap" THEN {"get", "invalidate"} ELSE {"poll"}

ServesPacket == \A t \in Thread : Serves(t)

LEMMA NextKeepsServesPacket ==
  ASSUME IInv, ServesPacket, [Next]_vars
  PROVE  ServesPacket'
<1>0. /\ stage = [v \in Thread |-> stage[v]] /\ pc = [v \in Thread |-> pc[v]]
      /\ reply = [v \in Thread |-> reply[v]] /\ packet = [v \in Thread |-> packet[v]]
  BY DEF IInv, Proved!IInv, Proved!TypeOK, Types
<1>1. CASE Environment \/ UNCHANGED vars
  BY <1>1 DEF Environment, Table!Environment, Table!Finish, Table!Tick, vars, ServesPacket, Serves
<1>2. ASSUME NEW t \in Thread, Handler(t) \/ \E p \in AnyPacket : Receive(t, p)
      PROVE  ServesPacket'
  <2>1. \A u \in Thread \ {t} : Serves(u)'
    BY <1>2, OthersUntouched DEF ServesPacket, Serves
  <2>2. Serves(t)
    BY DEF ServesPacket
  <2>3. Serves(t)'
    <3>1. CASE \E p \in AnyPacket : Receive(t, p)
      BY <1>0, <3>1 DEF Receive, Serves
    <3>2. CASE CleanUp(t) \/ SweepOne(t) \/ SweepEnd(t)
      <4>1. stage'[t] \in {"sweeping", "handle"}
        BY <1>0, <3>2 DEF CleanUp, SweepOne, SweepEnd, GoTo, Table!SweepOne, Table!At, IInv, StageFits
      <4> QED BY <4>1 DEF Serves
    <3>3. CASE CallProtocol(t)
      BY <1>0, <3>3 DEF CallProtocol, Handles, GoTo, Serves
    <3>4. CASE Refuse(t) \/ ProtocolReturns(t) \/ AsyncAtOnce(t) \/ AsyncLeave(t)
      <4>1. stage'[t] = "free"
        BY <1>0, <3>4 DEF Refuse, ProtocolReturns, AsyncAtOnce, AsyncLeave, Handled, Finish
      <4> QED BY <4>1 DEF Serves
    <3>5. CASE AsyncEnter(t)
      <4>1. UNCHANGED packet /\ stage'[t] = "locked"
        BY <1>0, <3>5 DEF AsyncEnter, GoTo
      <4>2. packet[t].kind = "async"
        BY <3>5 DEF AsyncEnter, Asks, Handles
      <4>3. ASSUME NEW l, NEW c, NEW res, Asks(t, c),
                   Table!Enter(t, l, Table!Answer(c, packet[t].id, res, FALSE)),
                   c \in IF l = "reap" THEN {"get", "invalidate"} ELSE {"poll"}
            PROVE  Serves(t)'
        <5>1. packet[t].command = c
          BY <4>3 DEF Asks
        <5>2. pc'[t] = l /\ reply'[t].command = c /\ reply'[t].id = packet[t].id
          BY <1>0, <4>3 DEF Table!Enter, Table!Answer
        <5> QED BY <4>1, <4>2, <4>3, <5>1, <5>2 DEF Serves
      <4>4. CASE Asks(t, "poll") /\ Table!Poll(t, packet[t].id) /\ pc'[t] # "idle"
        <5>1. Table!Enter(t, "touch", Table!Answer("poll", packet[t].id, "Success", FALSE))
          BY <4>4 DEF Table!Poll, Table!Return, Table!CanLock
        <5> QED BY <4>3, <4>4, <5>1
      <4>5. CASE Asks(t, "get") /\ Table!GetReply(t, packet[t].id)
        <5> DEFINE Answers(r) == Table!Enter(t, "reap", Table!Answer("get", packet[t].id, r, FALSE))
        <5>1. Answers(Table!TakenResult(packet[t].id)) \/ Answers("InvalidAsynchronousOperationError")
          BY <4>5 DEF Table!GetReply
        <5> QED BY <4>3, <4>5, <5>1
      <4>6. CASE Asks(t, "invalidate") /\ Table!Invalidate(t, packet[t].id)
        <5>1. Table!Enter(t, "reap", Table!Answer("invalidate", packet[t].id, "Success", FALSE))
          BY <4>6 DEF Table!Invalidate
        <5> QED BY <4>3, <4>6, <5>1
      <4> QED BY <3>5, <4>4, <4>5, <4>6 DEF AsyncEnter
    <3>6. CASE AsyncTouch(t)
      <4>1. CASE pc'[t] = "idle"
        BY <1>0, <3>6, <4>1 DEF AsyncTouch, Handled, Finish, Serves
      <4>2. CASE pc'[t] # "idle"
        <5>1. /\ UNCHANGED <<stage, packet>> /\ stage[t] = "locked"
          BY <3>6, <4>2 DEF AsyncTouch
        <5>2. pc[t] = "touch" /\ pc'[t] = "check" /\ UNCHANGED reply
          BY <1>0, <3>6, <4>2 DEF AsyncTouch, Table!Touch, Table!At, Table!Leave
        <5> QED BY <2>2, <5>1, <5>2 DEF Serves
      <4> QED BY <4>1, <4>2
    <3> QED BY <1>2, <3>1, <3>2, <3>3, <3>4, <3>5, <3>6 DEF Handler
  <2> QED BY <2>1, <2>3 DEF ServesPacket
<1> QED BY <1>1, <1>2 DEF Next

\* What operator() may have answered to packet p.
AnswerTo(t, p) ==
  /\ p.kind \in {"sync", "service"} =>
       answer[t].shape # "async" /\ answer[t].result \in {"Invoked", "ServerProtocolException"}
  /\ p.kind = "async" => answer[t].shape = "async"
  /\ p.kind = "async" /\ p.command = "new" =>
       reply[t].result = "thrown" \/ (reply[t].result = "Success" /\ reply[t].id \in 1 .. MaxId)
  /\ p.kind = "async" /\ p.command = "get" =>
       reply[t].result \in {"Invoked", "ServerProtocolException", "InvalidRequestIdentifierError",
                           "InvalidAsynchronousOperationError"}

\* A thread keeps its packet until it has answered it.
LEMMA HandlerAnswersPacket ==
  ASSUME IInv, ServesPacket, Proved!HolderAnswers, NEW t \in Thread, Handler(t),
         NEW p, p = packet[t]
  PROVE  /\ stage[t] # "free"
         /\ \/ stage'[t] # "free" /\ packet'[t] = packet[t] /\ answer'[t] = answer[t]
            \/ stage'[t] = "free" /\ AnswerTo(t, p)'
<1>0. /\ stage = [v \in Thread |-> stage[v]] /\ pc = [v \in Thread |-> pc[v]]
      /\ reply = [v \in Thread |-> reply[v]] /\ packet = [v \in Thread |-> packet[v]]
      /\ answer = [v \in Thread |-> answer[v]]
  BY DEF IInv, Proved!IInv, Proved!TypeOK, Types
<1>1. stage[t] # "free"
  BY DEF Handler, CleanUp, SweepOne, SweepEnd, Refuse, CallProtocol, ProtocolReturns, AsyncAtOnce,
         AsyncEnter, AsyncTouch, AsyncLeave, Asks, Handles, Table!SweepOne, Table!SweepEnd, Table!At,
         IInv, StageFits
<1>2. CASE \/ CleanUp(t) \/ SweepOne(t) \/ SweepEnd(t) \/ CallProtocol(t) \/ AsyncEnter(t)
           \/ AsyncTouch(t) /\ pc'[t] # "idle"
  <2>1. stage'[t] # "free" /\ packet' = packet /\ answer' = answer
    BY <1>0, <1>1, <1>2
       DEF CleanUp, SweepOne, SweepEnd, CallProtocol, AsyncEnter, AsyncTouch, GoTo
  <2> QED BY <1>1, <2>1
<1>3. CASE Refuse(t)
  <2>1. stage'[t] = "free" /\ p.kind \notin {"sync", "service", "async"}
    BY <1>0, <1>3 DEF Refuse, Finish, Handles
  <2> QED BY <1>1, <2>1 DEF AnswerTo
<1>4. CASE ProtocolReturns(t)
  <2>1. p.kind \in {"sync", "service"}
    BY <1>4 DEF ProtocolReturns, ServesPacket, Serves
  <2>2. PICK r \in {"Invoked", "ServerProtocolException"} :
          Finish(t, Out(IF p.kind = "service" THEN "service" ELSE "rpc", r))
    BY <1>4 DEF ProtocolReturns
  <2>3. /\ stage'[t] = "free"
        /\ answer'[t].shape # "async" /\ answer'[t].result = r
    BY <1>0, <2>2 DEF Finish, Out
  <2> QED BY <1>1, <2>1, <2>3 DEF AnswerTo
<1>5. ASSUME Handled(t), p.kind = "async",
             p.command = "new" =>
               reply'[t].result = "thrown" \/ (reply'[t].result = "Success" /\ reply'[t].id \in 1 .. MaxId),
             p.command = "get" =>
               reply'[t].result \in {"Invoked", "ServerProtocolException", "InvalidRequestIdentifierError",
                                    "InvalidAsynchronousOperationError"}
      PROVE  stage'[t] = "free" /\ AnswerTo(t, p)'
  <2>1. stage'[t] = "free" /\ answer'[t].shape = "async"
    BY <1>0, <1>5 DEF Handled, Finish, Out
  <2> QED BY <1>5, <2>1 DEF AnswerTo
<1>6. CASE AsyncAtOnce(t)
  <2>1. CASE Asks(t, "new") /\ Table!NewRequest(t)
    <3>1. reply'[t].result = "Success" /\ reply'[t].id \in 1 .. MaxId
      BY <1>0, <2>1 DEF Table!NewRequest, Table!Return, Table!Answer, Table!Id
    <3> QED BY <1>1, <1>5, <1>6, <2>1, <3>1 DEF AsyncAtOnce, Asks, Handles
  <2>2. CASE Asks(t, "new") /\ Table!NewRequestThrows(t)
    <3>1. reply'[t].result = "thrown"
      BY <1>0, <2>2 DEF Table!NewRequestThrows, Table!Return, Table!Answer
    <3> QED BY <1>1, <1>5, <1>6, <2>2, <3>1 DEF AsyncAtOnce, Asks, Handles
  <2>3. CASE Asks(t, "unknown") \/ Asks(t, "poll")
    BY <1>1, <1>5, <1>6, <2>3 DEF AsyncAtOnce, Asks, Handles
  <2>4. ASSUME NEW c \in {"poll", "get", "invalidate"}, Asks(t, c), Table!UnknownId(t, c, p.id)
        PROVE  stage'[t] = "free" /\ AnswerTo(t, p)'
    <3>1. reply'[t].result = "InvalidRequestIdentifierError"
      BY <1>0, <2>4 DEF Table!UnknownId, Table!Return, Table!Answer
    <3> QED BY <1>5, <1>6, <2>4, <3>1 DEF AsyncAtOnce, Asks, Handles
  <2> QED BY <1>1, <1>6, <2>1, <2>2, <2>3, <2>4 DEF AsyncAtOnce
<1>7. CASE AsyncTouch(t) /\ pc'[t] = "idle"
  <2>1. p.kind = "async" /\ p.command = "poll"
    BY <1>7 DEF AsyncTouch, Table!Touch, Table!At, ServesPacket, Serves
  <2> QED BY <1>1, <1>5, <1>7, <2>1 DEF AsyncTouch
<1>8. CASE AsyncLeave(t)
  <2>1. CASE Table!Check(t)
    <3>1. p.kind = "async" /\ p.command = "poll"
      BY <1>8, <2>1 DEF AsyncLeave, Table!Check, Table!At, ServesPacket, Serves
    <3> QED BY <1>1, <1>5, <1>8, <3>1 DEF AsyncLeave
  <2>2. CASE Table!Reap(t)
    <3>1. p.kind = "async" /\ p.command \in {"get", "invalidate"} /\ reply[t].command = p.command
      BY <1>8, <2>2 DEF AsyncLeave, Table!Reap, Table!At, ServesPacket, Serves
    <3>2. reply'[t] = reply[t]
      BY <1>0, <2>2 DEF Table!Reap, Table!Leave
    <3>3. p.command = "get" =>
            reply[t].result \in {"Invoked", "ServerProtocolException", "InvalidAsynchronousOperationError"}
      BY <2>2, <3>1 DEF Table!Reap, Table!At, Proved!HolderAnswers, Proved!AnswerFits, Proved!Tells
    <3> QED BY <1>1, <1>5, <1>8, <3>1, <3>2, <3>3 DEF AsyncLeave
  <2> QED BY <1>8, <2>1, <2>2 DEF AsyncLeave
<1> QED BY <1>2, <1>3, <1>4, <1>6, <1>7, <1>8 DEF Handler

-----------------------------------------------------------------------------
(* What the owner of an entry can rely on *)

\* An entry that a client still has use of.
Usable(id) ==
  /\ id \in Table!Live
  /\ ~invokes[id].invalidated /\ ~Table!IsReadyForRemoval(id)

\* A thread that does not handle a packet for it leaves a usable entry alone.
LEMMA OthersLeaveEntry ==
  ASSUME IInv, ServesPacket, NEW t \in Thread, Handler(t), NEW id, Usable(id),
         packet[t].kind = "async" => packet[t].id # id
  PROVE  id \in Table!Live' /\ invokes'[id] = invokes[id]
<1> USE DEF Table!Live
<1>0. id \in Table!Live /\ ~Table!IsReadyForRemoval(id)
  BY DEF Usable
<1>1. CASE UNCHANGED invokes
  BY <1>0, <1>1
<1>2. CASE SweepOne(t)
  BY <1>0, <1>2 DEF SweepOne, Table!SweepOne, Table!Erase
<1>3. CASE AsyncAtOnce(t)
  <2>1. CASE Table!NewRequest(t)
    BY <1>0, <2>1 DEF Table!NewRequest, Table!Emplace
  <2>2. CASE ~Table!NewRequest(t)
    BY <1>1, <1>3, <2>2
       DEF AsyncAtOnce, Table!NewRequestThrows, Table!RejectInvoke, Table!UnknownId, Table!Poll
  <2> QED BY <2>1, <2>2
<1>4. CASE AsyncEnter(t)
  <2>1. packet[t].id # id
    BY <1>4 DEF AsyncEnter, Asks, Handles
  <2>2. invokes \in [Table!Live -> Proved!AsyncInvoke]
    BY DEF IInv, Proved!IInv, Proved!TypeOK, Proved!Live
  <2>3. CASE Table!GetReply(t, packet[t].id)
    BY <1>0, <2>1, <2>2, <2>3 DEF Table!GetReply
  <2>4. CASE Table!Invalidate(t, packet[t].id)
    BY <1>0, <2>1, <2>2, <2>4 DEF Table!Invalidate
  <2> QED BY <1>1, <1>4, <2>3, <2>4 DEF AsyncEnter, Table!Poll
<1>5. CASE AsyncTouch(t) \/ AsyncLeave(t)
  <2>1. reply[t].id # id
    BY <1>5 DEF AsyncTouch, AsyncLeave, ServesPacket, Serves
  <2>2. CASE Table!Touch(t)
    BY <1>0, <2>1, <2>2 DEF Table!Touch
  <2>3. CASE Table!Reap(t)
    BY <1>0, <2>1, <2>3 DEF Table!Reap, Table!Erase
  <2> QED BY <1>1, <1>5, <2>2, <2>3 DEF AsyncTouch, AsyncLeave, Table!Check
<1> QED
  BY <1>1, <1>2, <1>3, <1>4, <1>5
     DEF Handler, CleanUp, Table!CleanUp, SweepEnd, Table!SweepEnd, Refuse, CallProtocol,
         ProtocolReturns, tableVars

\* A thread sweeps, or works for its packet.
Sweeps(t) == CleanUp(t) \/ SweepOne(t) \/ SweepEnd(t)

LEMMA SweepLeavesEntry ==
  ASSUME IInv, NEW t \in Thread, Sweeps(t), NEW id, Usable(id)
  PROVE  /\ id \in Table!Live' /\ invokes'[id] = invokes[id]
         /\ stage'[t] # "free" /\ pc[t] \in {"idle", "sweep"} /\ pc'[t] \in {"idle", "sweep"}
<1>0. stage = [v \in Thread |-> stage[v]] /\ pc = [v \in Thread |-> pc[v]]
  BY DEF IInv, Proved!IInv, Proved!TypeOK, Types
<1>1. id \in Table!Live' /\ invokes'[id] = invokes[id]
  BY DEF Usable, Sweeps, CleanUp, Table!CleanUp, SweepOne, Table!SweepOne, SweepEnd, Table!SweepEnd,
         Table!Erase, Table!Live
<1>2. stage'[t] # "free" /\ pc[t] \in {"idle", "sweep"} /\ pc'[t] \in {"idle", "sweep"}
  BY <1>0 DEF Sweeps, CleanUp, Table!CleanUp, Table!CanLock, Table!Enter, GoTo, SweepOne,
              Table!SweepOne, Table!At, SweepEnd, Table!SweepEnd, Table!Leave, IInv, StageFits
<1> QED BY <1>1, <1>2

\* Work on an asynchronous packet.
LEMMA AsyncWork ==
  ASSUME NEW t \in Thread, Handler(t), ~Sweeps(t), ServesPacket, packet[t].kind = "async"
  PROVE  AsyncAtOnce(t) \/ AsyncEnter(t) \/ AsyncTouch(t) \/ AsyncLeave(t)
  BY DEF Handler, Sweeps, Refuse, CallProtocol, ProtocolReturns, Handles, ServesPacket, Serves

\* A thread asks for the entry id with this command.
AsksFor(t, c, id) == packet[t].kind = "async" /\ packet[t].command = c /\ packet[t].id = id

\* A new request is in the table when its identifier is given out, and only a failing
\* launch denies one.
LEMMA NewRequestIsUsable ==
  ASSUME IInv, ServesPacket, NEW t \in Thread, Handler(t), stage'[t] = "free",
         packet[t].kind = "async", packet[t].command = "new"
  PROVE  \/ LaunchMayFail /\ reply'[t].result = "thrown"
         \/ /\ reply'[t].result = "Success" /\ reply'[t].id = last_id + 1
            /\ last_id + 1 \in Table!Live'
            /\ invokes'[last_id + 1] = [future |-> "running", invalidated |-> FALSE, last_access |-> now]
<1>0. /\ stage = [v \in Thread |-> stage[v]] /\ reply = [v \in Thread |-> reply[v]]
      /\ last_id \in Nat /\ Table!Live \subseteq 1 .. last_id
  BY TableAssumption
     DEF IInv, Types, Proved!IInv, Proved!TypeOK, Proved!IdsWereDrawn, Proved!Live, Table!Live
<1>1. ~Sweeps(t)
  BY <1>0 DEF Sweeps, CleanUp, GoTo, SweepOne, SweepEnd, Table!SweepOne, Table!At, IInv, StageFits
<1>2. AsyncAtOnce(t)
  BY <1>1, AsyncWork DEF AsyncEnter, AsyncTouch, AsyncLeave, Asks, Handles, ServesPacket, Serves
<1>3. CASE Table!NewRequestThrows(t)
  BY <1>0, <1>3 DEF Table!NewRequestThrows, Table!Return, Table!Answer
<1>4. CASE Table!NewRequest(t)
  <2>1. /\ reply'[t].result = "Success" /\ reply'[t].id = last_id + 1
        /\ last_id + 1 \notin Table!Live
    BY <1>0, <1>4 DEF Table!NewRequest, Table!Return, Table!Answer, Table!GetRequestId
  <2> QED BY <1>4, <2>1 DEF Table!NewRequest, Table!GetRequestId, Table!Emplace, Table!NewInvoke, Table!Live
<1> QED BY <1>2, <1>3, <1>4 DEF AsyncAtOnce, Asks

\* A poll of a usable entry renews it, and is told whether its worker has finished.
LEMMA PollOfUsable ==
  ASSUME IInv, ServesPacket, Proved!HolderAnswers, NEW t \in Thread, Handler(t),
         NEW id, AsksFor(t, "poll", id), Usable(id)
  PROVE  /\ id \in Table!Live'
         /\ \/ invokes'[id] = invokes[id]
            \/ invokes'[id] = [invokes[id] EXCEPT !.last_access = now]
         /\ pc[t] = "check" => invokes'[id] = invokes[id]
         /\ pc[t] # "check" /\ pc'[t] = "check" => invokes'[id].last_access = now
         /\ stage'[t] = "free" =>
              /\ pc[t] = "check" /\ reply'[t].result = "Success"
              /\ reply'[t].ready => invokes[id].future # "running"
<1> USE DEF Table!Live
<1>0. /\ stage = [v \in Thread |-> stage[v]] /\ pc = [v \in Thread |-> pc[v]]
      /\ reply \in [Thread -> Proved!Reply] /\ invokes \in [Table!Live -> Proved!AsyncInvoke]
  BY DEF IInv, Proved!IInv, Proved!TypeOK, Proved!Live, Types
<1>1. id \in Table!Live /\ ~invokes[id].invalidated /\ ~Table!IsReadyForRemoval(id)
  BY DEF Usable
<1>2. CASE Sweeps(t)
  BY <1>2, SweepLeavesEntry
<1>3. CASE AsyncAtOnce(t)
  <2>1. FALSE
    <3>1. Table!UnknownId(t, "poll", id) \/ (Table!Poll(t, id) /\ pc'[t] = "idle")
      BY <1>3 DEF AsyncAtOnce, Asks, AsksFor
    <3>2. ~Table!UnknownId(t, "poll", id)
      BY <1>1 DEF Table!UnknownId
    <3>3. pc' = [pc EXCEPT ![t] = "touch"]
      BY <1>1, <3>1, <3>2 DEF Table!Poll, Table!Enter
    <3> QED BY <1>0, <3>1, <3>2, <3>3
  <2> QED BY <2>1
<1>4. CASE AsyncEnter(t)
  <2>1. Table!Poll(t, id) /\ pc'[t] # "idle" /\ GoTo(t, "locked")
    BY <1>4 DEF AsyncEnter, Asks, AsksFor
  <2>2. /\ pc' = [pc EXCEPT ![t] = "touch"] /\ UNCHANGED invokes
        /\ pc[t] = "idle" /\ stage' = [stage EXCEPT ![t] = "locked"]
    BY <1>1, <2>1 DEF Table!Poll, Table!Enter, Table!CanLock, GoTo
  <2> QED BY <1>0, <1>1, <2>2
<1>5. CASE AsyncTouch(t)
  <2>1. pc[t] = "touch" /\ Table!Touch(t) /\ reply[t].id = id
    BY <1>5 DEF AsyncTouch, Table!Touch, Table!At, ServesPacket, Serves, AsksFor
  <2>2. /\ invokes' = [invokes EXCEPT ![id].last_access = now]
        /\ pc' = [pc EXCEPT ![t] = "check"]
    BY <1>1, <2>1 DEF Table!Touch, Table!IsReadyForRemoval
  <2>3. stage'[t] # "free"
    BY <1>0, <1>5, <2>2 DEF AsyncTouch
  <2>4. id \in Table!Live' /\ invokes'[id] = [invokes[id] EXCEPT !.last_access = now]
    BY <1>0, <1>1, <2>2
  <2>5. invokes'[id].last_access = now
    BY <1>0, <1>1, <2>4 DEF Proved!AsyncInvoke
  <2>6. pc[t] = "touch" /\ pc'[t] = "check"
    BY <1>0, <2>1, <2>2
  <2> QED BY <2>3, <2>4, <2>5, <2>6
<1>6. CASE AsyncLeave(t)
  <2>1. pc[t] = "check" /\ Table!Check(t) /\ reply[t].id = id
    BY <1>6 DEF AsyncLeave, Table!Check, Table!Reap, Table!At, ServesPacket, Serves, AsksFor
  <2>2. UNCHANGED invokes /\ reply' = [reply EXCEPT ![t] = [reply[t] EXCEPT !.ready = Table!IsFinished(id)]]
    BY <2>1 DEF Table!Check, Table!Leave
  <2>3. reply'[t].result = reply[t].result /\ reply'[t].ready = Table!IsFinished(id)
    BY <1>0, <2>2 DEF Proved!Reply
  <2>4. reply[t].command = "poll"
    BY <1>6 DEF AsyncLeave, ServesPacket, Serves, AsksFor
  <2>5. reply[t].result = "Success"
    BY <2>1, <2>4 DEF Proved!HolderAnswers, Proved!AnswerFits, Proved!Tells
  <2> QED BY <1>1, <2>1, <2>2, <2>3, <2>5 DEF Table!IsFinished, Table!Finished
<1> QED BY <1>2, <1>3, <1>4, <1>5, <1>6, AsyncWork DEF AsksFor

Delivers(r) == r.result \in {"Invoked", "ServerProtocolException"}

\* A client that fetches the reply of a usable entry whose worker has finished gets it.
LEMMA GetOfUsable ==
  ASSUME IInv, ServesPacket, NEW t \in Thread, Handler(t), NEW id, AsksFor(t, "get", id),
         \/ pc[t] # "reap" /\ Usable(id) /\ invokes[id].future # "running"
         \/ pc[t] = "reap" /\ Delivers(reply[t])
  PROVE  \/ /\ stage'[t] # "free" /\ pc[t] # "reap" /\ pc'[t] # "reap"
            /\ id \in Table!Live' /\ invokes'[id] = invokes[id]
         \/ stage'[t] # "free" /\ pc'[t] = "reap" /\ Delivers(reply[t])'
         \/ stage'[t] = "free" /\ Delivers(reply[t])'
<1> USE DEF Table!Live
<1>0. /\ stage = [v \in Thread |-> stage[v]] /\ pc = [v \in Thread |-> pc[v]]
      /\ reply = [v \in Thread |-> reply[v]] /\ invokes \in [Table!Live -> Proved!AsyncInvoke]
  BY DEF IInv, Proved!IInv, Proved!TypeOK, Proved!Live, Types
<1>1. CASE pc[t] = "reap"
  <2>1. stage[t] = "locked"
    BY <1>1 DEF IInv, StageFits
  <2>2. AsyncLeave(t) /\ Table!Reap(t)
    BY <1>0, <1>1, <2>1
       DEF Handler, CleanUp, SweepOne, SweepEnd, Refuse, CallProtocol, ProtocolReturns, AsyncAtOnce,
           AsyncEnter, AsyncTouch, AsyncLeave, Asks, Handles, Table!SweepOne, Table!SweepEnd,
           Table!Touch, Table!Check, Table!At
  <2>3. stage'[t] = "free" /\ reply'[t] = reply[t]
    BY <1>0, <2>2 DEF AsyncLeave, Handled, Finish, Table!Reap, Table!Leave
  <2> QED BY <1>1, <2>3 DEF Delivers
<1>2. CASE pc[t] # "reap"
  <2>1. id \in Table!Live /\ ~invokes[id].invalidated /\ invokes[id].future \in {"value", "exception"}
    BY <1>0, <1>2 DEF Usable, Table!IsReadyForRemoval, Proved!AsyncInvoke, Proved!Future, Proved!Finished
  <2>2. CASE Sweeps(t)
    BY <1>2, <2>2, SweepLeavesEntry
  <2>3. CASE ~Sweeps(t)
    <3>1. stage[t] # "locked"
      BY <1>2 DEF ServesPacket, Serves, AsksFor
    <3>2. ~AsyncAtOnce(t)
      BY <2>1 DEF AsyncAtOnce, Asks, AsksFor, Table!UnknownId
    <3>3. AsyncEnter(t) /\ Table!GetReply(t, id)
      BY <2>3, <3>1, <3>2, AsyncWork DEF AsyncEnter, AsyncTouch, AsyncLeave, Asks, AsksFor
    <3>4. Table!Enter(t, "reap", Table!Answer("get", id, Table!TakenResult(id), FALSE))
      BY <2>1, <3>3 DEF Table!GetReply, Table!CanTakeReply, Table!IsFinished, Table!Finished
    <3>5. stage'[t] = "locked" /\ pc'[t] = "reap" /\ reply'[t].result = Table!TakenResult(id)
      BY <1>0, <3>3, <3>4 DEF AsyncEnter, GoTo, Table!Enter, Table!Answer
    <3> QED BY <3>5 DEF Delivers, Table!TakenResult
  <2> QED BY <2>2, <2>3
<1> QED BY <1>1, <1>2

=============================================================================
