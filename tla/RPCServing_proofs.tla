-------------------------- MODULE RPCServing_proofs --------------------------
(***************************************************************************)
(* More proofs about RPCSystem, for any number of clients: it is well      *)
(* typed whatever fails; a poll gives up late enough; and a client that    *)
(* polls in time and loses no packet is served.  What is proved about the  *)
(* server alone is used through the instance ServerProved: its steps are   *)
(* those of RPCSystem's server, or leave it alone.                         *)
(***************************************************************************)
EXTENDS RPCSystem_proofs

ServerProved == INSTANCE ProtocolRPCServer_proofs WITH PacketKinds <- {"sync", "service", "async"}

-----------------------------------------------------------------------------
(* The steps of the server are those of ServerProved *)

LEMMA ServerAssumptions ==
  ServerProved!TableAssumption /\ ServerProved!IntervalAssumption /\ ServerProved!NeverAssumption
  BY ServerAssumption
     DEF ServerProved!TableAssumption, ServerProved!IntervalAssumption, ServerProved!NeverAssumption

LEMMA TableAssumptions ==
  /\ ServerProved!TableAssumption /\ ServerProved!IntervalAssumption /\ ServerProved!NeverAssumption
  /\ ServerProved!Proved!ThreadAssumption /\ ServerProved!Proved!TimeAssumption
  /\ ServerProved!Proved!IdAssumption /\ ServerProved!Proved!SwitchAssumption
  BY ServerAssumptions, ServerProved!SameAssumptions

LEMMA SameTable ==
  ASSUME NEW c
  PROVE  /\ Server!Table!IsReadyForRemoval(c) <=> ServerProved!Table!IsReadyForRemoval(c)
         /\ Server!Table!Live = ServerProved!Table!Live
  BY DEF Server!Table!IsReadyForRemoval, ServerProved!Table!IsReadyForRemoval,
         Server!Table!IsFinished, ServerProved!Table!IsFinished, Server!Table!Finished,
         ServerProved!Table!Finished, Server!Table!IsExpired, ServerProved!Table!IsExpired,
         Server!Table!Elapsed, ServerProved!Table!Elapsed, Server!Table!Live, ServerProved!Table!Live

LEMMA SameReceive ==
  ASSUME NEW c \in Client, NEW p, Server!Receive(c, p)
  PROVE  ServerProved!Receive(c, p)
<1>1. Server!IsCleanUpNeeded <=> ServerProved!IsCleanUpNeeded
  BY DEF Server!IsCleanUpNeeded, ServerProved!IsCleanUpNeeded, Server!Table!Elapsed,
         ServerProved!Table!Elapsed
<1>2. {id \in Server!Table!Live : Server!Table!IsReadyForRemoval(id)}
        = {id \in ServerProved!Table!Live : ServerProved!Table!IsReadyForRemoval(id)}
  BY SameTable
<1>3. Server!Table!Collect(c) => ServerProved!Table!Collect(c)
  BY DEF Server!Table!Collect, ServerProved!Table!Collect, Server!Table!Return,
         ServerProved!Table!Return, Server!Table!NoReply, ServerProved!Table!NoReply
<1>4. Server!IdsRemain <=> ServerProved!IdsRemain
  BY DEF Server!IdsRemain, ServerProved!IdsRemain, Server!Cardinality, ServerProved!Cardinality
<1> DEFINE old == {id \in Server!Table!Live : Server!Table!IsReadyForRemoval(id)}
           due == /\ last_cleanup' = now
                  /\ stage' = [stage EXCEPT ![c] = "due"]
                  /\ garbage' = [garbage EXCEPT ![c] = old]
<1>5. Server!IsCleanUpNeeded => due
  BY DEF Server!Receive
<1>6. ServerProved!IsCleanUpNeeded =>
        garbage' = [garbage EXCEPT ![c] = {id \in ServerProved!Table!Live : ServerProved!Table!IsReadyForRemoval(id)}]
  <2> HIDE DEF old
  <2>1. old = {id \in ServerProved!Table!Live : ServerProved!Table!IsReadyForRemoval(id)}
    BY <1>2 DEF old
  <2> QED BY <1>1, <1>5, <2>1
<1> QED
  BY <1>1, <1>3, <1>4, <1>5, <1>6
     DEF Server!Receive, ServerProved!Receive, Server!Out, ServerProved!Out

LEMMA SameEnvironment == Server!Environment <=> ServerProved!Environment
  BY DEF Server!Environment, ServerProved!Environment, Server!Table!Environment,
         ServerProved!Table!Environment, Server!Table!Finish, ServerProved!Table!Finish,
         Server!Table!Finished, ServerProved!Table!Finished, Server!Table!Live, ServerProved!Table!Live,
         Server!Table!Tick, ServerProved!Table!Tick, Server!Table!NextInstant,
         ServerProved!Table!NextInstant, Server!Table!Time, ServerProved!Table!Time

LEMMA SameInit == Server!Init => ServerProved!Init
  BY DEF Server!Init, ServerProved!Init, Server!Table!Init, ServerProved!Table!Init,
         Server!NoPacket, ServerProved!NoPacket, Server!Out, ServerProved!Out,
         Server!Table!NoReply, ServerProved!Table!NoReply, Server!Table!NewInvoke, ServerProved!Table!NewInvoke

LEMMA SameTypes == Server!TypeOK <=> ServerProved!TypeOK
  BY DEF Server!TypeOK, ServerProved!TypeOK, Server!Table!TypeOK, ServerProved!Table!TypeOK,
         Server!Table!Time, ServerProved!Table!Time, Server!Table!Live, ServerProved!Table!Live,
         Server!Table!Id, ServerProved!Table!Id, Server!Table!AsyncInvoke, ServerProved!Table!AsyncInvoke,
         Server!Table!Future, ServerProved!Table!Future, Server!Table!Finished,
         ServerProved!Table!Finished, Server!Table!Reply, ServerProved!Table!Reply,
         Server!Table!Command, ServerProved!Table!Command, Server!Table!Result,
         ServerProved!Table!Result, Server!Packet, ServerProved!Packet, Server!Kind, ServerProved!Kind,
         Server!AsyncCommand, ServerProved!AsyncCommand, Server!Outcome, ServerProved!Outcome

LEMMA SameHandler ==
  ASSUME NEW c \in Client
  PROVE  Server!Handler(c) => ServerProved!Handler(c)
<1> USE DEF Server!Table!CanLock, ServerProved!Table!CanLock, Server!Table!Return, ServerProved!Table!Return,
      Server!Table!Answer, ServerProved!Table!Answer, Server!Table!Enter, ServerProved!Table!Enter,
      Server!Table!Leave, ServerProved!Table!Leave, Server!Table!At, ServerProved!Table!At,
      Server!Table!Live, ServerProved!Table!Live, Server!GoTo, ServerProved!GoTo, Server!Finish,
      ServerProved!Finish, Server!Out, ServerProved!Out, Server!Handles, ServerProved!Handles,
      Server!tableVars, ServerProved!tableVars, Server!NoPacket, ServerProved!NoPacket,
      Server!Asks, ServerProved!Asks, Server!Handled, ServerProved!Handled
<1>1. Server!CleanUp(c) => ServerProved!CleanUp(c)
  BY DEF Server!CleanUp, ServerProved!CleanUp, Server!Table!CleanUp, ServerProved!Table!CleanUp
<1>2. Server!SweepOne(c) => ServerProved!SweepOne(c)
  BY SameTable DEF Server!SweepOne, ServerProved!SweepOne, Server!Table!SweepOne, ServerProved!Table!SweepOne,
     Server!Table!IsNext, ServerProved!Table!IsNext, Server!Table!Erase, ServerProved!Table!Erase
<1>3. Server!SweepEnd(c) => ServerProved!SweepEnd(c)
  BY DEF Server!SweepEnd, ServerProved!SweepEnd, Server!Table!SweepEnd, ServerProved!Table!SweepEnd
<1>4. Server!Refuse(c) => ServerProved!Refuse(c)
  BY DEF Server!Refuse, ServerProved!Refuse
<1>5. Server!CallProtocol(c) => ServerProved!CallProtocol(c)
  BY DEF Server!CallProtocol, ServerProved!CallProtocol
<1>6. Server!ProtocolReturns(c) => ServerProved!ProtocolReturns(c)
  BY DEF Server!ProtocolReturns, ServerProved!ProtocolReturns
<1>7. Server!Table!NewRequest(c) => ServerProved!Table!NewRequest(c)
  BY DEF Server!Table!NewRequest, ServerProved!Table!NewRequest, Server!Table!GetRequestId,
         ServerProved!Table!GetRequestId, Server!Table!Id, ServerProved!Table!Id, Server!Table!Emplace,
         ServerProved!Table!Emplace, Server!Table!NewInvoke, ServerProved!Table!NewInvoke
<1>8. Server!Table!NewRequestThrows(c) => ServerProved!Table!NewRequestThrows(c)
  BY DEF Server!Table!NewRequestThrows, ServerProved!Table!NewRequestThrows, Server!Table!GetRequestId,
         ServerProved!Table!GetRequestId, Server!Table!Id, ServerProved!Table!Id
<1>9. Server!Table!RejectInvoke(c) => ServerProved!Table!RejectInvoke(c)
  BY DEF Server!Table!RejectInvoke, ServerProved!Table!RejectInvoke
<1>10. \A cmd, id : Server!Table!UnknownId(c, cmd, id) => ServerProved!Table!UnknownId(c, cmd, id)
  BY DEF Server!Table!UnknownId, ServerProved!Table!UnknownId
<1>11. \A id : Server!Table!Poll(c, id) => ServerProved!Table!Poll(c, id)
  BY SameTable DEF Server!Table!Poll, ServerProved!Table!Poll
<1>12. \A id : Server!Table!GetReply(c, id) => ServerProved!Table!GetReply(c, id)
  BY DEF Server!Table!GetReply, ServerProved!Table!GetReply, Server!Table!CanTakeReply,
         ServerProved!Table!CanTakeReply, Server!Table!TakenResult, ServerProved!Table!TakenResult,
         Server!Table!IsFinished, ServerProved!Table!IsFinished, Server!Table!Finished, ServerProved!Table!Finished
<1>13. \A id : Server!Table!Invalidate(c, id) => ServerProved!Table!Invalidate(c, id)
  BY DEF Server!Table!Invalidate, ServerProved!Table!Invalidate
<1>14. Server!AsyncAtOnce(c) => ServerProved!AsyncAtOnce(c)
  BY <1>7, <1>8, <1>9, <1>10, <1>11 DEF Server!AsyncAtOnce, ServerProved!AsyncAtOnce
<1>15. Server!AsyncEnter(c) => ServerProved!AsyncEnter(c)
  BY <1>11, <1>12, <1>13 DEF Server!AsyncEnter, ServerProved!AsyncEnter
<1>16. Server!AsyncTouch(c) => ServerProved!AsyncTouch(c)
  BY DEF Server!AsyncTouch, ServerProved!AsyncTouch, Server!Table!Touch, ServerProved!Table!Touch
<1>17. Server!AsyncLeave(c) => ServerProved!AsyncLeave(c)
  BY SameTable DEF Server!AsyncLeave, ServerProved!AsyncLeave, Server!Table!Check, ServerProved!Table!Check,
     Server!Table!Reap, ServerProved!Table!Reap, Server!Table!Erase, ServerProved!Table!Erase,
     Server!Table!IsFinished, ServerProved!Table!IsFinished, Server!Table!Finished, ServerProved!Table!Finished
<1> QED BY <1>1, <1>2, <1>3, <1>4, <1>5, <1>6, <1>14, <1>15, <1>16, <1>17 DEF Server!Handler, ServerProved!Handler

-----------------------------------------------------------------------------
(* The conversation of clients and server *)

\* The packet that a call of the functor is about.
Request(c) ==
  CASE cpc[c] = "starting"     -> IF async_supported THEN Async("new", 0) ELSE Plain("sync")
    [] cpc[c] = "polling"      -> Async("poll", m_id[c])
    [] cpc[c] = "getting"      -> Async("get", m_id[c])
    [] cpc[c] = "invalidating" -> Async("invalidate", m_id[c])
    [] cpc[c] = "invoking"     -> Plain("sync")
    [] OTHER                   -> Plain("service")

\* A client in a call of the functor waits for the answer to its packet, or has it.
Talks(c) ==
  IF cpc[c] \in Calling
    THEN IF stage[c] = "free" THEN ServerProved!AnswerTo(c, Request(c)) ELSE packet[c] = Request(c)
    ELSE stage[c] = "free"

\* What a client keeps between two calls of the functor.
Keeps(c) ==
  /\ cpc[c] \in {"poll", "polling", "wait", "asleep", "getting", "invalidating"} => m_id[c] # 0
  /\ cpc[c] = "get" /\ ~m_synchronous[c] => m_id[c] # 0
  /\ m_synchronous[c] =>
       cpc[c] = "get" /\ answer[c].result \in {"Invoked", "ServerProtocolException"}
  /\ cpc[c] # "idle" => result[c] = "none"

ClientTypes ==
  /\ async_supported \in BOOLEAN
  /\ cpc \in [Client -> {"idle", "poll", "wait", "asleep", "get"} \union Calling]
  /\ m_id \in [Client -> 0 .. MaxId]
  /\ m_synchronous \in [Client -> BOOLEAN]
  /\ start \in [Client -> 0 .. MaxTime]
  /\ wake \in [Client -> Nat]
  /\ result \in [Client -> ProtocolResult]
  /\ sent \in [Client -> 0 .. MaxTime] /\ sending \in [Client -> 0 .. MaxTime]
  /\ DOMAIN owner = issued /\ \A id \in DOMAIN owner : owner[id] \in Client

ServerInv == ServerProved!IInv /\ ServerProved!ServesPacket /\ ServerProved!Proved!HolderAnswers

SInv == ServerInv /\ ClientTypes /\ \A c \in Client : Talks(c) /\ Keeps(c)

LEMMA ServerKeepsServerInv ==
  ASSUME ServerInv, [ServerProved!Next]_ServerProved!vars
  PROVE  ServerInv'
<1>1. ServerProved!IInv'
  BY ServerProved!NextKeepsIInv, ServerAssumptions DEF ServerInv
<1>2. ServerProved!ServesPacket'
  BY ServerProved!NextKeepsServesPacket, ServerAssumptions DEF ServerInv
<1>3. ServerProved!Proved!HolderAnswers'
  <2>1. [ServerProved!Proved!Next]_ServerProved!Proved!vars
    BY ServerProved!StepOfTable, ServerAssumptions DEF ServerInv
  <2> QED BY <2>1, TableAssumptions, ServerProved!Proved!NextKeepsAnswers DEF ServerInv, ServerProved!IInv
<1> QED BY <1>1, <1>2, <1>3 DEF ServerInv

\* Who is not concerned by a step goes on as before.
LEMMA OthersTalk ==
  ASSUME NEW d \in Client, Talks(d), Keeps(d), UNCHANGED async_supported,
         cpc'[d] = cpc[d], m_id'[d] = m_id[d], m_synchronous'[d] = m_synchronous[d],
         result'[d] = result[d], stage'[d] = stage[d], packet'[d] = packet[d],
         reply'[d] = reply[d], answer'[d] = answer[d]
  PROVE  Talks(d)' /\ Keeps(d)'
<1>1. Request(d)' = Request(d)
  BY DEF Request, Async, Plain
<1>2. Talks(d)'
  BY <1>1 DEF Talks, ServerProved!AnswerTo
<1>3. Keeps(d)'
  BY DEF Keeps
<1> QED BY <1>2, <1>3

LEMMA ServerStepKeepsSInv ==
  ASSUME SInv, NEW c \in Client, ServerStep(c)
  PROVE  SInv'
<1> USE DEF Client
<1>1. ServerProved!Handler(c) /\ ServerProved!Next /\ UNCHANGED <<clientVars, async_supported>>
  BY SameHandler DEF ServerStep, ServerProved!Next
<1>2. ServerInv'
  BY <1>1, ServerKeepsServerInv DEF SInv
<1>3. ClientTypes'
  <2>1. issued \subseteq issued' /\ issued' \ issued \subseteq Table!Live' \ Table!Live
    <3>1. [ServerProved!Proved!Next]_ServerProved!Proved!vars /\ ServerProved!Proved!IInv
      BY <1>1, ServerProved!StepOfTable, ServerAssumptions DEF SInv, ServerInv, ServerProved!IInv
    <3> QED BY <3>1, TableAssumptions, ServerProved!Proved!IssuedWithEntry DEF ServerProved!Proved!Live, Table!Live
  <2>2. owner' = [id \in issued' |-> IF id \in Table!Live' \ Table!Live THEN c ELSE owner[id]]
    BY DEF ServerStep
  <2> QED BY <1>1, <2>1, <2>2 DEF SInv, ClientTypes, clientVars
<1>4. ASSUME NEW d \in Client \ {c}
      PROVE  Talks(d)' /\ Keeps(d)'
  <2>1. /\ stage'[d] = stage[d] /\ packet'[d] = packet[d]
        /\ reply'[d] = reply[d] /\ answer'[d] = answer[d]
    BY <1>1, ServerProved!OthersUntouched, ServerAssumptions DEF SInv, ServerInv
  <2> QED BY <1>1, <2>1, OthersTalk DEF SInv, clientVars
<1>5. Talks(c)' /\ Keeps(c)'
  <2> DEFINE p == packet[c]
  <2>1. /\ stage[c] # "free"
        /\ \/ stage'[c] # "free" /\ packet'[c] = packet[c]
           \/ stage'[c] = "free" /\ \E q : q = packet[c] /\ ServerProved!AnswerTo(c, q)'
    <3>1. PICK q : q = packet[c]
      OBVIOUS
    <3> QED BY <1>1, <3>1, ServerProved!HandlerAnswersPacket, ServerAssumptions DEF SInv, ServerInv
  <2>2. cpc[c] \in Calling /\ packet[c] = Request(c)
    BY <2>1 DEF SInv, Talks
  <2>3. Request(c)' = Request(c) /\ cpc'[c] = cpc[c]
    BY <1>1 DEF Request, Async, Plain, clientVars
  <2>4. Talks(c)'
    BY <2>1, <2>2, <2>3 DEF Talks, ServerProved!AnswerTo
  <2>5. Keeps(c)'
    BY <1>1, <2>2 DEF SInv, Keeps, Calling, clientVars
  <2> QED BY <2>4, <2>5
<1> QED BY <1>2, <1>3, <1>4, <1>5 DEF SInv

LEMMA EnvironmentKeepsSInv ==
  ASSUME SInv, Environment \/ UNCHANGED vars
  PROVE  SInv'
<1>1. [ServerProved!Next]_ServerProved!vars
  <2>1. CASE Environment
    BY <2>1, SameEnvironment DEF Environment, ServerProved!Next
  <2>2. CASE UNCHANGED vars
    BY <2>2 DEF vars, serverVars, ServerProved!vars
  <2> QED BY <2>1, <2>2
<1>2. UNCHANGED <<clientVars, async_supported, owner, issued, stage, packet, reply, answer>>
  BY DEF Environment, Server!Environment, Server!Table!Environment, Server!Table!Finish,
         Server!Table!Tick, vars, serverVars
<1>3. ClientTypes'
  BY <1>2 DEF SInv, ClientTypes, clientVars
<1>4. ASSUME NEW d \in Client PROVE Talks(d)' /\ Keeps(d)'
  BY <1>2, OthersTalk DEF SInv, clientVars
<1> QED BY <1>1, <1>3, <1>4, ServerKeepsServerInv DEF SInv

\* A client's own step, in which nothing changes for other clients.
OnlyClient(c) ==
  /\ \A d \in Client \ {c} :
       /\ cpc'[d] = cpc[d] /\ m_id'[d] = m_id[d] /\ m_synchronous'[d] = m_synchronous[d]
       /\ result'[d] = result[d] /\ sent'[d] = sent[d] /\ sending'[d] = sending[d]
       /\ start'[d] = start[d]
  /\ UNCHANGED <<async_supported, owner, issued>>

\* A client calls the functor.
LEMMA SendKeepsSInv ==
  ASSUME SInv, NEW c \in Client, NEW p \in ServerProved!AnyPacket, NEW l \in Calling,
         Send(c, p, l), OnlyClient(c), ClientTypes', Request(c)' = p,
         m_id'[c] = m_id[c], ~m_synchronous'[c], result'[c] = "none",
         l \in {"polling", "getting", "invalidating"} => m_id[c] # 0
  PROVE  SInv'
<1> USE DEF Client
<1>1. ServerProved!Receive(c, p) /\ ServerProved!Next
  BY SameReceive DEF Send, ServerProved!Next
<1>2. ServerInv'
  BY <1>1, ServerKeepsServerInv DEF SInv
<1>3. ASSUME NEW d \in Client \ {c} PROVE Talks(d)' /\ Keeps(d)'
  <2>1. /\ stage'[d] = stage[d] /\ packet'[d] = packet[d]
        /\ reply'[d] = reply[d] /\ answer'[d] = answer[d]
    BY <1>1, ServerProved!OthersUntouched, ServerAssumptions DEF SInv, ServerInv
  <2> QED BY <2>1, OthersTalk DEF SInv, OnlyClient
<1>4. cpc'[c] = l /\ packet'[c] = p /\ stage'[c] # "free"
  BY <1>1 DEF SInv, ServerInv, ServerProved!IInv, ServerProved!Types, ServerProved!Receive, Send, GoTo,
              ClientTypes
<1>5. Talks(c)'
  BY <1>4 DEF Talks
<1>6. Keeps(c)'
  BY <1>4 DEF Keeps, Calling
<1> QED BY <1>2, <1>3, <1>5, <1>6 DEF SInv

\* A client goes on without the server.
LEMMA LocalStepKeepsSInv ==
  ASSUME SInv, NEW c \in Client, UNCHANGED serverVars, OnlyClient(c), ClientTypes', Keeps(c)',
         stage[c] = "free", cpc'[c] \notin Calling
  PROVE  SInv'
<1>1. ServerInv'
  BY ServerKeepsServerInv DEF SInv, serverVars, ServerProved!vars
<1>2. ASSUME NEW d \in Client \ {c} PROVE Talks(d)' /\ Keeps(d)'
  BY OthersTalk DEF SInv, OnlyClient, serverVars
<1>3. Talks(c)'
  BY DEF Talks, serverVars
<1> QED BY <1>1, <1>2, <1>3 DEF SInv

LEMMA ReturnKeepsSInv ==
  ASSUME SInv, NEW c \in Client, NEW r \in ProtocolResult, Return(c, r), stage[c] = "free",
         UNCHANGED <<serverVars, owner>>
  PROVE  SInv'
<1>1. ClientTypes'
  BY ServerAssumption DEF SInv, ClientTypes, Return, GoTo, serverVars
<1>2. OnlyClient(c)
  BY DEF SInv, ClientTypes, Return, GoTo, OnlyClient, serverVars
<1>3. cpc'[c] = "idle" /\ ~m_synchronous'[c]
  BY DEF SInv, ClientTypes, Return, GoTo
<1>4. Keeps(c)'
  BY <1>3 DEF Keeps
<1> QED BY <1>1, <1>2, <1>3, <1>4, LocalStepKeepsSInv DEF Calling

LEMMA PacketsOfClients ==
  /\ \A id \in 1 .. MaxId, cmd \in {"poll", "get", "invalidate"} : Async(cmd, id) \in ServerProved!AnyPacket
  /\ Async("new", 0) \in ServerProved!AnyPacket
  /\ Plain("sync") \in ServerProved!AnyPacket /\ Plain("service") \in ServerProved!AnyPacket
  BY ServerAssumption
     DEF ServerProved!AnyPacket, ServerProved!Packet, ServerProved!Kind, ServerProved!AsyncCommand, Async, Plain

LEMMA TimeIsTyped == SInv => now \in 0 .. MaxTime
  BY DEF SInv, ServerInv, ServerProved!IInv, ServerProved!Proved!IInv, ServerProved!Proved!TypeOK,
         ServerProved!Proved!Time

LEMMA ElapsedIsNat == SInv => \A c \in Client : Table!Elapsed(start[c]) \in Nat
<1> SUFFICES ASSUME SInv, NEW c \in Client PROVE Table!Elapsed(start[c]) \in Nat
  OBVIOUS
<1>1. start[c] \in 0 .. MaxTime /\ now \in 0 .. MaxTime
  BY TimeIsTyped DEF SInv, ClientTypes
<1> QED BY <1>1, ServerAssumption DEF Table!Elapsed

\* Steps in which a client calls the functor.
LEMMA CallsKeepSInv ==
  ASSUME SInv, NEW c \in Client,
         Invoke(c) \/ PollOnce(c) \/ Invalidate(c) \/ (GetReply(c) /\ ~m_synchronous[c])
  PROVE  SInv'
<1> USE DEF Client, Calling
<1>0. now \in 0 .. MaxTime /\ ClientTypes /\ Keeps(c)
  BY TimeIsTyped DEF SInv
<1>1. UNCHANGED <<m_id, m_synchronous, start, wake, owner>>
  BY DEF Invoke, PollOnce, Invalidate, GetReply
<1>2. ASSUME NEW p \in ServerProved!AnyPacket, NEW l \in Calling, Send(c, p, l), Request(c)' = p,
             ~m_synchronous[c], l \in {"polling", "getting", "invalidating"} => m_id[c] # 0
      PROVE  SInv'
  <2>1. /\ cpc' = [cpc EXCEPT ![c] = l] /\ sending' = [sending EXCEPT ![c] = now]
        /\ UNCHANGED <<async_supported, issued>>
    BY <1>2 DEF Send, GoTo, Server!Receive, Server!Table!Collect
  <2>2. sent' = sent \/ sent' = [sent EXCEPT ![c] = now]
    BY DEF Invoke, PollOnce, Invalidate, GetReply
  <2>3. /\ result' = result \/ result' = [result EXCEPT ![c] = "none"]
        /\ result'[c] = "none"
    BY <1>0, <1>1 DEF Invoke, PollOnce, Invalidate, GetReply, ClientTypes, Keeps
  <2>4. ClientTypes'
    <3>1. result' \in [Client -> ProtocolResult]
      BY <1>0, <2>3 DEF ClientTypes, ProtocolResult
    <3> QED BY <1>0, <1>1, <2>1, <2>2, <3>1 DEF ClientTypes
  <2>5. OnlyClient(c)
    BY <1>0, <1>1, <2>1, <2>2, <2>3 DEF OnlyClient, ClientTypes
  <2> QED BY <1>1, <1>2, <2>3, <2>4, <2>5, SendKeepsSInv
<1>3. m_id[c] # 0 => m_id[c] \in 1 .. MaxId
  BY <1>0, ServerAssumption DEF ClientTypes
<1>4. CASE Invoke(c)
  <2>1. ~m_synchronous[c]
    BY <1>0, <1>4 DEF Invoke, Keeps
  <2>2. PICK p \in {Async("new", 0), Plain("sync"), Plain("service")}, l \in {"starting", "invoking", "servicing"} :
          Send(c, p, l) /\ p = CASE l = "starting" -> IF async_supported THEN Async("new", 0) ELSE Plain("sync")
                                 [] l = "invoking" -> Plain("sync")
                                 [] l = "servicing" -> Plain("service")
    BY <1>4 DEF Invoke
  <2>3. cpc'[c] = l /\ async_supported' = async_supported
    BY <1>0, <2>2 DEF Send, GoTo, ClientTypes
  <2>4. Request(c)' = p
    BY <2>2, <2>3 DEF Request, Async, Plain
  <2> QED BY <1>2, <2>1, <2>2, <2>4, PacketsOfClients
<1>5. ASSUME NEW cmd \in {"poll", "get", "invalidate"}, NEW l \in {"polling", "getting", "invalidating"},
             Send(c, Async(cmd, m_id[c]), l), ~m_synchronous[c], m_id[c] # 0,
             Async(cmd, m_id[c]) = CASE l = "polling" -> Async("poll", m_id[c])
                                     [] l = "getting" -> Async("get", m_id[c])
                                     [] l = "invalidating" -> Async("invalidate", m_id[c])
      PROVE  SInv'
  <2>1. cpc'[c] = l
    BY <1>0, <1>5 DEF Send, GoTo, ClientTypes
  <2>2. Request(c)' = Async(cmd, m_id[c])
    BY <1>1, <1>5, <2>1 DEF Request, Async
  <2> QED BY <1>2, <1>3, <1>5, <2>2, PacketsOfClients
<1>6. CASE PollOnce(c)
  BY <1>0, <1>5, <1>6 DEF PollOnce, Keeps
<1>7. CASE Invalidate(c)
  BY <1>0, <1>5, <1>7 DEF Invalidate, Keeps
<1>8. CASE GetReply(c) /\ ~m_synchronous[c]
  BY <1>0, <1>5, <1>8 DEF GetReply, Keeps
<1> QED BY <1>4, <1>6, <1>7, <1>8

\* What a client returns to the application.
LEMMA ReturnsKeepSInv ==
  ASSUME SInv, NEW c \in Client,
         \/ InvokeEmpty(c) \/ SyncAnswer(c) \/ GetAnswer(c) \/ InvalidateAnswer(c)
         \/ LoseAnswer(c) \/ LoseRequest(c) \/ (StartAnswer(c) /\ Thrown(c))
         \/ (PollAnswer(c) /\ reply[c].result # "Success") \/ (Wait(c) /\ TimedOut(c))
         \/ (GetReply(c) /\ m_synchronous[c])
  PROVE  SInv'
<1>0. ClientTypes /\ Talks(c) /\ Keeps(c)
  BY DEF SInv
<1>1. stage[c] = "free" /\ UNCHANGED <<serverVars, owner>>
  BY <1>0 DEF InvokeEmpty, SyncAnswer, GetAnswer, InvalidateAnswer, LoseAnswer, LoseRequest, StartAnswer,
     PollAnswer, Wait, GetReply, Answered, Talks, Calling
<1>2. SyncAnswer(c) => answer[c].result \in {"Invoked", "ServerProtocolException"}
  BY <1>0 DEF SyncAnswer, Answered, Talks, Calling, Request, Plain, ServerProved!AnswerTo
<1>3. GetAnswer(c) => reply[c].result \in {"Invoked", "ServerProtocolException", "InvalidRequestIdentifierError",
                                     "InvalidAsynchronousOperationError"}
  BY <1>0 DEF GetAnswer, Answered, Talks, Calling, Request, Async, ServerProved!AnswerTo
<1>4. m_synchronous[c] => answer[c].result \in {"Invoked", "ServerProtocolException"}
  BY <1>0 DEF Keeps
<1>5. \E r \in ProtocolResult : Return(c, r)
  BY <1>2, <1>3, <1>4 DEF InvokeEmpty, SyncAnswer, GetAnswer, InvalidateAnswer, LoseAnswer, LoseRequest,
     StartAnswer, PollAnswer, Wait, GetReply, FunctorThrows, Failure, ProtocolResult
<1> QED BY <1>1, <1>5, ReturnKeepsSInv

\* Steps of a client between two calls of the functor.
LEMMA LocalStepsKeepSInv ==
  ASSUME SInv, NEW c \in Client,
         \/ StartAnswer(c) /\ ~Thrown(c)
         \/ PollAnswer(c) /\ reply[c].result = "Success"
         \/ Wait(c) /\ ~TimedOut(c)
         \/ WakeUp(c)
  PROVE  SInv'
<1>0. now \in 0 .. MaxTime /\ ClientTypes /\ Talks(c) /\ Keeps(c) /\ 0 \in 0 .. MaxTime
  BY TimeIsTyped, ServerAssumption DEF SInv
<1>1. stage[c] = "free" /\ UNCHANGED <<serverVars, owner, result>>
  BY <1>0 DEF StartAnswer, PollAnswer, Wait, WakeUp, Answered, Talks, Calling
<1>2. cpc[c] # "idle" /\ result[c] = "none"
  BY <1>0 DEF StartAnswer, PollAnswer, Wait, WakeUp, Answered, Keeps
<1>3. ASSUME NEW l \in {"poll", "wait", "asleep", "get"}, cpc' = [cpc EXCEPT ![c] = l],
             NEW id \in 0 .. MaxId, m_id' = [m_id EXCEPT ![c] = id],
             NEW s \in BOOLEAN, m_synchronous' = [m_synchronous EXCEPT ![c] = s],
             NEW w \in Nat, wake' = [wake EXCEPT ![c] = w],
             start' = start \/ start' = [start EXCEPT ![c] = now],
             sent' = sent \/ sent' = [sent EXCEPT ![c] = sending[c]],
             sending' = sending \/ sending' = [sending EXCEPT ![c] = 0],
             s => l = "get" /\ answer[c].result \in {"Invoked", "ServerProtocolException"},
             ~s => id # 0
      PROVE  SInv'
  <2>1. ClientTypes'
    BY <1>0, <1>1, <1>3 DEF ClientTypes, serverVars
  <2>2. OnlyClient(c)
    BY <1>0, <1>1, <1>3 DEF OnlyClient, ClientTypes, serverVars
  <2>3. cpc'[c] = l /\ m_id'[c] = id /\ m_synchronous'[c] = s /\ result'[c] = "none"
    BY <1>0, <1>1, <1>2, <1>3 DEF ClientTypes
  <2>4. Keeps(c)'
    BY <1>1, <1>3, <2>3 DEF Keeps, serverVars
  <2>5. cpc'[c] \notin Calling
    BY <2>3 DEF Calling
  <2> QED BY <1>1, <2>1, <2>2, <2>4, <2>5, LocalStepKeepsSInv
<1>4. /\ m_id[c] \in 0 .. MaxId /\ m_id = [m_id EXCEPT ![c] = m_id[c]]
      /\ m_synchronous[c] \in BOOLEAN /\ m_synchronous = [m_synchronous EXCEPT ![c] = m_synchronous[c]]
      /\ wake[c] \in Nat /\ wake = [wake EXCEPT ![c] = wake[c]]
  BY <1>0 DEF ClientTypes
<1>5. CASE StartAnswer(c) /\ ~Thrown(c)
  <2>1. ServerProved!AnswerTo(c, Request(c)) /\ cpc[c] = "starting" /\ ~m_synchronous[c]
    BY <1>0, <1>5 DEF StartAnswer, Answered, Talks, Calling, Keeps
  <2>2. CASE answer[c].shape = "async"
    <3>1. Request(c) = Async("new", 0)
      BY <2>1, <2>2 DEF Request, ServerProved!AnswerTo, Plain
    <3>2. reply[c].id \in 1 .. MaxId
      BY <1>5, <2>1, <2>2, <3>1 DEF Thrown, ServerProved!AnswerTo, Async
    <3>3. reply[c].id \in 0 .. MaxId /\ reply[c].id # 0
      BY <3>2
    <3> QED BY <1>3, <1>4, <1>5, <2>1, <2>2, <3>3 DEF StartAnswer, GoTo
  <2>3. CASE answer[c].shape # "async"
    <3>1. Request(c) = Plain("sync")
      BY <2>1, <2>3 DEF Request, ServerProved!AnswerTo, Async
    <3>2. answer[c].result \in {"Invoked", "ServerProtocolException"}
      BY <2>1, <3>1 DEF ServerProved!AnswerTo, Plain
    <3> QED BY <1>3, <1>4, <1>5, <2>3, <3>2 DEF StartAnswer, GoTo
  <2> QED BY <2>2, <2>3
<1>6. CASE PollAnswer(c) /\ reply[c].result = "Success"
  <2>1. m_id[c] # 0 /\ ~m_synchronous[c]
    BY <1>0, <1>6 DEF PollAnswer, Answered, Keeps
  <2> QED BY <1>3, <1>4, <1>6, <2>1 DEF PollAnswer, GoTo
<1>7. CASE Wait(c) /\ ~TimedOut(c)
  <2>1. m_id[c] # 0 /\ ~m_synchronous[c]
    BY <1>0, <1>7 DEF Wait, Keeps
  <2>2. now + Lesser(PollingInterval, Timeout - Table!Elapsed(start[c])) \in Nat
    BY <1>0, <1>7, ElapsedIsNat, ClientAssumption DEF TimedOut, Lesser
  <2> QED BY <1>3, <1>4, <1>7, <2>1, <2>2 DEF Wait, GoTo
<1>8. CASE WakeUp(c)
  <2>1. m_id[c] # 0 /\ ~m_synchronous[c]
    BY <1>0, <1>8 DEF WakeUp, Keeps
  <2> QED BY <1>3, <1>4, <1>8, <2>1 DEF WakeUp, GoTo
<1> QED BY <1>5, <1>6, <1>7, <1>8

\* A restart loses the table, and every call of the functor in progress with it.
LEMMA RestartKeepsSInv == SInv /\ Restart => SInv'
<1> SUFFICES ASSUME SInv, Restart PROVE SInv'
  OBVIOUS
<1> USE DEF Client
<1>0. ClientTypes /\ now \in 0 .. MaxTime /\ \A c \in Client : Talks(c) /\ Keeps(c)
  BY TimeIsTyped DEF SInv
<1>1. /\ invokes' = [id \in {} |-> Table!NewInvoke] /\ DOMAIN invokes' = {}
      /\ last_id' = 0 /\ mtx' = NoThread
      /\ pc' = [c \in Client |-> "idle"] /\ reply' = [c \in Client |-> Table!NoReply]
      /\ last_cleanup' = Never /\ stage' = [c \in Client |-> "free"]
      /\ packet' = [c \in Client |-> Server!NoPacket]
      /\ garbage' = [c \in Client |-> {}]
      /\ UNCHANGED <<now, issued>>
  BY DEF Restart
<1>2. ServerProved!Proved!IInv'
  <2>1. issued \subseteq ServerProved!Proved!Id
    BY DEF SInv, ServerInv, ServerProved!IInv, ServerProved!Proved!IInv, ServerProved!Proved!TypeOK
  <2>2. ServerProved!Proved!TypeOK'
    BY <1>0, <1>1, <2>1, ServerAssumption
       DEF ServerProved!Proved!TypeOK, ServerProved!Proved!Time, ServerProved!Proved!Live,
           ServerProved!Proved!Reply, ServerProved!Proved!Command, ServerProved!Proved!Result,
           Table!NoReply, ServerProved!Proved!Id
  <2> QED BY <1>1, <2>2, ServerAssumption
          DEF ServerProved!Proved!IInv, ServerProved!Proved!IdsWereDrawn, ServerProved!Proved!Live,
              ServerProved!Proved!OnlyHolderInside, ServerProved!Proved!TargetIsLive,
              ServerProved!Proved!EmptyIsBeingReaped
<1>3. ServerProved!Types'
  <2>1. ServerProved!Types
    BY DEF SInv, ServerInv, ServerProved!IInv
  <2>2. Server!NoPacket \in ServerProved!Packet /\ Server!Out("none", "none") \in ServerProved!Outcome
    BY ServerAssumption DEF Server!NoPacket, ServerProved!Packet, ServerProved!Kind,
       ServerProved!AsyncCommand, Server!Out, ServerProved!Outcome
  <2>3. answer' \in [Client -> ServerProved!Outcome]
    BY <2>1, <2>2 DEF Restart, ServerProved!Types
  <2> QED BY <1>1, <2>1, <2>2, <2>3 DEF ServerProved!Types
<1>4. ServerInv'
  BY <1>1, <1>2, <1>3
     DEF ServerInv, ServerProved!IInv, ServerProved!StageFits, ServerProved!PacketFits, Server!NoPacket,
         ServerProved!ServesPacket, ServerProved!Serves, ServerProved!Proved!HolderAnswers,
         ServerProved!Proved!AnswerFits
<1>5. /\ cpc' = [c \in Client |-> IF cpc[c] \in Calling THEN "idle" ELSE cpc[c]]
      /\ result' = [c \in Client |-> IF cpc[c] \in Calling THEN Failure(c) ELSE result[c]]
      /\ UNCHANGED <<issued, async_supported, m_id, m_synchronous, start, wake, sent, sending, owner>>
  BY DEF Restart
<1>6. ClientTypes'
  BY <1>0, <1>5 DEF ClientTypes, Calling, Failure, ProtocolResult
<1>7. ASSUME NEW c \in Client PROVE Talks(c)' /\ Keeps(c)'
  <2>1. stage'[c] = "free" /\ cpc'[c] \notin Calling
    BY <1>1, <1>5 DEF Calling
  <2>2. m_synchronous[c] => answer'[c] = answer[c]
    BY DEF Restart
  <2> QED BY <1>0, <1>5, <2>1, <2>2 DEF Talks, Keeps, Calling
<1> QED BY <1>4, <1>6, <1>7 DEF SInv

LEMMA InitSInv == Init => SInv
<1> SUFFICES ASSUME Init PROVE SInv
  OBVIOUS
<1> USE DEF Client
<1>1. ServerProved!Init
  BY SameInit DEF Init
<1>2. ServerProved!IInv
  BY <1>1, ServerProved!InitIInv, ServerAssumptions
<1>3. ServerInv
  BY <1>1, <1>2 DEF ServerInv, ServerProved!Init, ServerProved!Table!Init, ServerProved!ServesPacket,
     ServerProved!Serves, ServerProved!Proved!HolderAnswers, ServerProved!Proved!AnswerFits
<1>4. ClientTypes
  BY ServerAssumption DEF Init, Server!Init, Server!Table!Init, ClientTypes, ProtocolResult
<1>5. \A c \in Client : Talks(c) /\ Keeps(c)
  BY DEF Init, Server!Init, Talks, Keeps, Calling
<1> QED BY <1>3, <1>4, <1>5 DEF SInv

LEMMA NextKeepsSInv == SInv /\ [Next]_vars => SInv'
  BY CallsKeepSInv, ReturnsKeepSInv, LocalStepsKeepSInv, ServerStepKeepsSInv, RestartKeepsSInv,
     EnvironmentKeepsSInv DEF Next, ClientStep

LEMMA InvariantSInv == Spec => []SInv
  BY InitSInv, NextKeepsSInv, PTL DEF Spec

-----------------------------------------------------------------------------
(* Theorems about every network and every server *)

\* Whatever the network loses and whenever the server is restarted, the state of clients
\* and server is well typed: in particular an application is told no other results than
\* those of ProtocolResult, and a client holds no identifier beyond those of the table.
THEOREM SystemTypeCorrect == Spec => []TypeOK
<1>1. SInv => TypeOK
  <2> SUFFICES ASSUME SInv PROVE TypeOK
    OBVIOUS
  <2>1. ServerProved!TypeOK
    BY ServerProved!SameTypes, ServerAssumptions
       DEF SInv, ServerInv, ServerProved!IInv, ServerProved!Types, ServerProved!Proved!IInv, ServerProved!TypeOK
  <2>2. DOMAIN owner \subseteq 1 .. MaxId
    BY DEF SInv, ClientTypes, ServerInv, ServerProved!IInv, ServerProved!Proved!IInv,
           ServerProved!Proved!TypeOK, ServerProved!Proved!Id
  <2> QED BY <2>1, <2>2, SameTypes DEF SInv, ClientTypes, TypeOK
<1> QED BY <1>1, InvariantSInv, PTL

-----------------------------------------------------------------------------
(* Timeouts *)

\* Only the environment takes time, and the table belongs to the server.
LEMMA ServerTakesNoTime == \A c \in Client : ServerStep(c) => UNCHANGED now
  BY DEF ServerStep, Server!Handler, Server!CleanUp, Server!SweepOne, Server!SweepEnd, Server!Refuse,
         Server!CallProtocol, Server!ProtocolReturns, Server!AsyncAtOnce, Server!AsyncEnter,
         Server!AsyncTouch, Server!AsyncLeave, Server!tableVars, Server!Table!CleanUp,
         Server!Table!SweepOne, Server!Table!SweepEnd, Server!Table!NewRequest,
         Server!Table!NewRequestThrows, Server!Table!RejectInvoke, Server!Table!UnknownId,
         Server!Table!Poll, Server!Table!GetReply, Server!Table!Invalidate, Server!Table!Touch,
         Server!Table!Check, Server!Table!Reap

\* A step of client c.
Moves(c) == InvokeEmpty(c) \/ Invoke(c) \/ ClientStep(c) \/ Invalidate(c) \/ LoseAnswer(c) \/ LoseRequest(c)

LEMMA ClientTakesNoTime == \A c \in Client : Moves(c) => UNCHANGED <<now, invokes>>
<1>1. \A c, p, l : Send(c, p, l) => UNCHANGED <<now, invokes>>
  BY DEF Send, Server!Receive, Server!Table!Collect
<1>2. \A c : Invoke(c) \/ PollOnce(c) \/ Invalidate(c) \/ GetReply(c) => UNCHANGED <<now, invokes>>
  BY <1>1 DEF Invoke, PollOnce, Invalidate, GetReply, serverVars
<1> QED
  BY <1>2 DEF Moves, ClientStep, InvokeEmpty, SyncAnswer, StartAnswer, PollAnswer, Wait, WakeUp, GetAnswer,
              InvalidateAnswer, LoseAnswer, LoseRequest, serverVars

\* Unless the clock is set back, it moves on.
LEMMA TimeMovesOn ==
  ASSUME ClockMayStepBack = FALSE, SInv, [Next]_vars
  PROVE  now' >= now /\ now' \in 0 .. MaxTime
<1>1. CASE Environment
  BY <1>1, TimeIsTyped
     DEF Environment, Server!Environment, Server!Table!Environment, Server!Table!Finish,
         Server!Table!Tick, Server!Table!NextInstant, Server!Table!Time
<1>2. CASE ~Environment
  <2>1. UNCHANGED now
    BY <1>2, ServerTakesNoTime, ClientTakesNoTime DEF Next, Moves, Restart, vars, serverVars
  <2> QED BY <2>1, TimeIsTyped
<1> QED BY <1>1, <1>2

-----------------------------------------------------------------------------
(* What a punctual client can rely on *)

\* The identifier of the request that a client depends on, as soon as it is granted.
Hers(c) ==
  IF cpc[c] = "starting" THEN IF Granted(c) THEN reply[c].id ELSE 0 ELSE m_id[c]

InUse(c) == Depends(c) /\ Hers(c) # 0

\* The server has taken the reply out of the table for the client.
Fetched(c) == cpc[c] = "getting" /\ (stage[c] = "free" \/ pc[c] = "reap")

\* The entry of a request is valid and was asked for since the client began its last
\* answered poll, and it is not forgotten that its worker has finished.
EntryServes(c) ==
  LET entry == invokes[Hers(c)] IN
  /\ Hers(c) \in Table!Live
  /\ ~entry.invalidated /\ entry.future # "empty"
  /\ sent[c] <= entry.last_access /\ entry.last_access <= now
  /\ cpc[c] \in {"get", "getting"} => entry.future # "running"
  /\ cpc[c] = "polling" =>
       /\ sent[c] <= sending[c] /\ sending[c] <= now
       /\ pc[c] = "check" \/ stage[c] = "free" => sending[c] <= entry.last_access
       /\ stage[c] = "free" =>
            reply[c].result = "Success" /\ (reply[c].ready => entry.future # "running")

FineResult ==
  {"none", "Invoked", "ServerProtocolException", "AsynchronousProtocolTimeout",
   "ClientTransportEncodingError", "invalidated"}

Served(c) ==
  /\ Depends(c) => sent[c] <= now /\ now <= sent[c] + Expiration
  /\ InUse(c) /\ ~Fetched(c) => EntryServes(c)
  /\ InUse(c) /\ Fetched(c) => ServerProved!Delivers(reply[c])
  /\ cpc[c] = "starting" /\ stage[c] = "free" => ~Thrown(c)
  /\ result[c] \in FineResult

LEMMA EntryIsTyped ==
  SInv => /\ invokes \in [Table!Live -> ServerProved!Proved!AsyncInvoke]
          /\ \A id \in Table!Live : id # 0 /\ invokes[id].last_access \in 0 .. MaxTime
  BY DEF SInv, ServerInv, ServerProved!IInv, ServerProved!Proved!IInv, ServerProved!Proved!TypeOK,
         ServerProved!Proved!Live, Table!Live, ServerProved!Proved!AsyncInvoke, ServerProved!Proved!Time,
         ServerProved!Proved!Id

\* The entry of such a request is one that the server leaves alone.
LEMMA ServingIsUsable ==
  ASSUME SInv, NEW c \in Client, Served(c), InUse(c), ~Fetched(c)
  PROVE  ServerProved!Usable(Hers(c))
<1>1. EntryServes(c) /\ Depends(c)
  BY DEF Served, InUse
<1> DEFINE since == invokes[Hers(c)].last_access
<1>2. /\ now \in Nat /\ sent[c] \in Nat /\ since \in Nat /\ Expiration \in Nat
      /\ sent[c] <= since /\ since <= now
  BY <1>1, TimeIsTyped, EntryIsTyped, ServerAssumption DEF EntryServes, SInv, ClientTypes
<1>3. now <= sent[c] + Expiration
  BY <1>1 DEF Served
<1>4. ~ServerProved!Table!IsExpired(Hers(c))
  <2>1. now - since <= Expiration
    BY <1>2, <1>3
  <2> QED BY <1>2, <2>1 DEF ServerProved!Table!IsExpired, ServerProved!Table!Elapsed
<1> QED BY <1>1, <1>4
        DEF EntryServes, ServerProved!Usable, ServerProved!Table!IsReadyForRemoval, Table!Live,
            ServerProved!Table!Live

\* What happens elsewhere is of no concern to a client while it does nothing and its
\* entry stays.
LEMMA ElsewhereKeepsServed ==
  ASSUME SInv, NEW c \in Client, Served(c),
         cpc'[c] = cpc[c], m_id'[c] = m_id[c], m_synchronous'[c] = m_synchronous[c],
         result'[c] = result[c], sent'[c] = sent[c], sending'[c] = sending[c],
         stage'[c] = stage[c], pc'[c] = pc[c], reply'[c] = reply[c], answer'[c] = answer[c],
         now <= now', now' \in 0 .. MaxTime, Depends(c) => now' <= sent[c] + Expiration,
         InUse(c) /\ ~Fetched(c) =>
           /\ Hers(c) \in Table!Live'
           /\ \/ invokes'[Hers(c)] = invokes[Hers(c)]
              \/ \E f \in {"value", "exception"} :
                   invokes'[Hers(c)] = [invokes[Hers(c)] EXCEPT !.future = f]
  PROVE  Served(c)'
<1>1. /\ Hers(c)' = Hers(c) /\ Depends(c)' = Depends(c) /\ InUse(c)' = InUse(c)
      /\ Fetched(c)' = Fetched(c) /\ Thrown(c)' = Thrown(c)
  BY DEF Hers, Granted, Depends, InUse, Fetched, Thrown
<1>2. now \in Nat /\ now' \in Nat /\ sent[c] \in Nat /\ sending[c] \in Nat
  BY TimeIsTyped, ServerAssumption DEF SInv, ClientTypes
<1>3. ASSUME InUse(c), ~Fetched(c) PROVE EntryServes(c)'
  <2> DEFINE entry == invokes[Hers(c)]
             next == invokes'[Hers(c)]
  <2>1. EntryServes(c)
    BY <1>3 DEF Served
  <2>2. entry \in ServerProved!Proved!AsyncInvoke /\ entry.last_access \in Nat
    BY <2>1, EntryIsTyped DEF EntryServes
  <2>3. /\ next.last_access = entry.last_access /\ next.invalidated = entry.invalidated
        /\ next.future # entry.future => next.future \in {"value", "exception"}
    BY <1>3, <2>2 DEF ServerProved!Proved!AsyncInvoke
  <2>4. entry.last_access <= now'
    BY <1>2, <2>1, <2>2 DEF EntryServes
  <2>5. sending[c] <= now => sending[c] <= now'
    BY <1>2
  <2>6. invokes'[Hers(c)'] = next
    BY <1>1
  <2> QED BY <1>1, <1>3, <2>1, <2>3, <2>4, <2>5, <2>6 DEF EntryServes
<1>4. Depends(c) => sent[c] <= now'
  BY <1>2 DEF Served
<1> QED BY <1>1, <1>3, <1>4 DEF Served

\* While a client does not depend on the server only its result counts.
LEMMA IndependentIsServed ==
  ASSUME NEW c \in Client, cpc'[c] \in {"idle", "invalidating", "invoking", "servicing"} \/ m_synchronous'[c],
         cpc'[c] # "starting", result'[c] \in FineResult
  PROVE  Served(c)'
  BY DEF Served, Depends, InUse

\* A thread of the server works for its client.
LEMMA OwnServerStepKeepsServed ==
  ASSUME LaunchMayFail = FALSE, SInv, SInv', IInv, NEW c \in Client, Served(c), ServerStep(c)
  PROVE  Served(c)'
<1>1. /\ UNCHANGED <<now, async_supported>> /\ UNCHANGED clientVars
      /\ cpc'[c] = cpc[c] /\ m_id'[c] = m_id[c] /\ m_synchronous'[c] = m_synchronous[c]
      /\ sent'[c] = sent[c] /\ sending'[c] = sending[c] /\ result'[c] = result[c]
  BY ServerTakesNoTime DEF ServerStep, clientVars
<1>2. /\ ServerProved!Handler(c) /\ ServerProved!IInv /\ ServerProved!ServesPacket
      /\ ServerProved!Proved!HolderAnswers /\ c \in Thread
  BY SameHandler DEF ServerStep, SInv, ServerInv, Client
<1>3. /\ stage[c] # "free"
      /\ \/ stage'[c] # "free" /\ packet'[c] = packet[c]
         \/ stage'[c] = "free" /\ \E q : q = packet[c] /\ ServerProved!AnswerTo(c, q)'
  <2>1. PICK q : q = packet[c]
    OBVIOUS
  <2> QED BY <1>2, <2>1, ServerProved!HandlerAnswersPacket, ServerAssumptions
<1>4. cpc[c] \in Calling /\ packet[c] = Request(c)
  BY <1>3 DEF SInv, Talks
<1>5. /\ now \in Nat /\ sent[c] \in Nat /\ sending[c] \in Nat /\ Keeps(c)
      /\ Depends(c)' = Depends(c) /\ result[c] \in FineResult
      /\ (Depends(c) => sent[c] <= now /\ now <= sent[c] + Expiration)
  BY <1>1, TimeIsTyped DEF SInv, ClientTypes, Served, Depends
<1>6. CASE cpc[c] = "starting"
  <2>1. CASE stage'[c] # "free"
    BY <1>1, <1>5, <1>6, <2>1 DEF Served, InUse, Hers, Granted
  <2>2. CASE stage'[c] = "free" /\ packet[c].kind # "async"
    <3>1. packet[c].kind = "sync"
      BY <1>4, <1>6, <2>2 DEF Request, Async, Plain
    <3>2. answer'[c].shape # "async"
      BY <1>3, <2>2, <3>1 DEF ServerProved!AnswerTo
    <3> QED BY <1>1, <1>5, <1>6, <3>2 DEF Served, InUse, Hers, Granted, Thrown
  <2>3. CASE stage'[c] = "free" /\ packet[c].kind = "async"
    <3>1. packet[c].command = "new"
      BY <1>4, <1>6, <2>3 DEF Request, Async, Plain
    <3>2. /\ reply'[c].result = "Success" /\ reply'[c].id = last_id + 1 /\ last_id + 1 \in Table!Live'
          /\ invokes'[last_id + 1] = [future |-> "running", invalidated |-> FALSE, last_access |-> now]
      BY <1>2, <2>3, <3>1, ServerProved!NewRequestIsUsable, ServerAssumptions
         DEF Table!Live, ServerProved!Table!Live
    <3>3. cpc'[c] = "starting" /\ ~Thrown(c)' /\ Hers(c)' \in {0, last_id + 1} /\ ~Fetched(c)'
      BY <1>1, <1>6, <3>2 DEF Thrown, Hers, Granted, Fetched
    <3>4. Hers(c)' = last_id + 1 => EntryServes(c)'
      <4>1. Depends(c)
        BY <1>5, <1>6 DEF Keeps, Depends
      <4> QED BY <1>1, <1>5, <3>2, <3>3, <4>1 DEF EntryServes
    <3> QED BY <1>1, <1>5, <3>3, <3>4 DEF Served, InUse
  <2> QED BY <2>1, <2>2, <2>3
<1>7. CASE cpc[c] \in {"polling", "getting"}
  <2> DEFINE id == m_id[c]
  <2>1. /\ id # 0 /\ ~m_synchronous[c] /\ Hers(c) = id /\ Hers(c)' = id /\ InUse(c) /\ InUse(c)'
        /\ cpc'[c] # "starting" /\ Depends(c)
    BY <1>1, <1>5, <1>7 DEF Keeps, Hers, InUse, Depends
  <2>2. ~Fetched(c) => EntryServes(c) /\ ServerProved!Usable(id) /\ id \in Table!Live
    BY <2>1, ServingIsUsable DEF Served, EntryServes
  <2>3. Fetched(c) => ServerProved!Delivers(reply[c])
    BY <2>1 DEF Served
  <2>4. ~Fetched(c) => invokes[id].last_access \in Nat
    BY <2>2, EntryIsTyped
  <2>5. CASE cpc[c] = "polling"
    <3>1. ~Fetched(c) /\ ~Fetched(c)'
      BY <1>1, <2>5 DEF Fetched
    <3>2. ServerProved!AsksFor(c, "poll", id)
      BY <1>4, <2>5 DEF Request, Async, ServerProved!AsksFor
    <3>3. /\ id \in Table!Live'
          /\ \/ invokes'[id] = invokes[id]
             \/ invokes'[id] = [invokes[id] EXCEPT !.last_access = now]
          /\ pc[c] = "check" => invokes'[id] = invokes[id]
          /\ pc[c] # "check" /\ pc'[c] = "check" => invokes'[id].last_access = now
          /\ stage'[c] = "free" =>
               /\ pc[c] = "check" /\ reply'[c].result = "Success"
               /\ reply'[c].ready => invokes[id].future # "running"
      BY <1>2, <2>2, <3>1, <3>2, ServerProved!PollOfUsable, ServerAssumptions
         DEF Table!Live, ServerProved!Table!Live
    <3>4. /\ invokes'[id].invalidated = invokes[id].invalidated /\ invokes'[id].future = invokes[id].future
          /\ invokes'[id].last_access \in {invokes[id].last_access, now}
      <4>1. invokes[id] \in ServerProved!Proved!AsyncInvoke
        BY <2>2, <3>1, EntryIsTyped
      <4> QED BY <3>3, <4>1 DEF ServerProved!Proved!AsyncInvoke
    <3>5. EntryServes(c)
      BY <2>2, <3>1
    <3>6. sent[c] <= invokes'[id].last_access /\ invokes'[id].last_access <= now
      BY <1>5, <2>1, <2>4, <3>1, <3>4, <3>5 DEF EntryServes
    <3>7. pc'[c] = "check" \/ stage'[c] = "free" => sending[c] <= invokes'[id].last_access
      BY <1>5, <2>1, <2>5, <3>3, <3>5 DEF EntryServes
    <3>8. EntryServes(c)'
      BY <1>1, <2>1, <2>5, <3>3, <3>4, <3>5, <3>6, <3>7 DEF EntryServes
    <3> QED BY <1>1, <1>5, <2>1, <3>1, <3>8 DEF Served
  <2>6. CASE cpc[c] = "getting"
    <3>1. ServerProved!AsksFor(c, "get", id)
      BY <1>4, <2>6 DEF Request, Async, ServerProved!AsksFor
    <3>2. Fetched(c) <=> pc[c] = "reap"
      BY <1>3, <2>6 DEF Fetched
    <3>3. \/ pc[c] # "reap" /\ ServerProved!Usable(id) /\ invokes[id].future # "running"
          \/ pc[c] = "reap" /\ ServerProved!Delivers(reply[c])
      BY <2>1, <2>2, <2>3, <2>6, <3>2 DEF EntryServes
    <3>4. \/ /\ stage'[c] # "free" /\ pc[c] # "reap" /\ pc'[c] # "reap"
             /\ id \in Table!Live' /\ invokes'[id] = invokes[id]
          \/ stage'[c] # "free" /\ pc'[c] = "reap" /\ ServerProved!Delivers(reply[c])'
          \/ stage'[c] = "free" /\ ServerProved!Delivers(reply[c])'
      BY <1>2, <3>1, <3>3, ServerProved!GetOfUsable, ServerAssumptions
         DEF Table!Live, ServerProved!Table!Live
    <3>5. CASE Fetched(c)'
      BY <1>1, <1>5, <2>1, <2>6, <3>4, <3>5 DEF Served, Fetched
    <3>6. CASE ~Fetched(c)'
      <4>1. id \in Table!Live' /\ invokes'[id] = invokes[id] /\ pc[c] # "reap"
        BY <1>1, <2>6, <3>4, <3>6 DEF Fetched
      <4>2. ~Fetched(c)
        BY <3>2, <4>1
      <4>3. EntryServes(c)
        BY <2>2, <4>2
      <4>4. EntryServes(c)'
        BY <1>1, <2>1, <2>6, <4>1, <4>3 DEF EntryServes
      <4> QED BY <1>1, <1>5, <2>1, <3>6, <4>4 DEF Served
    <3> QED BY <3>5, <3>6
  <2> QED BY <1>7, <2>5, <2>6
<1>8. CASE cpc[c] \in {"invalidating", "invoking", "servicing"}
  BY <1>1, <1>5, <1>8, IndependentIsServed
<1> QED BY <1>4, <1>6, <1>7, <1>8 DEF Calling

\* A client calls the functor.
LEMMA OwnCallKeepsServed ==
  ASSUME SInv, IInv, NEW c \in Client \ Lossy, Served(c),
         Invoke(c) \/ PollOnce(c) \/ Invalidate(c) \/ (GetReply(c) /\ ~m_synchronous[c])
  PROVE  Served(c)'
<1>0. ClientTypes /\ Keeps(c) /\ now \in Nat /\ c \in Client
  BY TimeIsTyped DEF SInv
<1>1. PICK l \in Calling :
        /\ \E p : Send(c, p, l)
        /\ \/ Invoke(c) /\ cpc[c] = "idle" /\ l \in {"starting", "invoking", "servicing"}
           \/ PollOnce(c) /\ cpc[c] = "poll" /\ l = "polling"
           \/ GetReply(c) /\ ~m_synchronous[c] /\ cpc[c] = "get" /\ l = "getting"
           \/ Invalidate(c) /\ cpc[c] = "wait" /\ l = "invalidating"
  BY DEF Invoke, PollOnce, Invalidate, GetReply, Calling
<1>2. /\ stage'[c] # "free" /\ pc'[c] = "idle"
      /\ UNCHANGED <<now, invokes>> /\ Table!Live' = Table!Live
  BY <1>0, <1>1 DEF Send, Server!Receive, Server!Table!Collect, Server!Table!Return, IInv, Types, Table!Live
<1>3. /\ cpc'[c] = l /\ sending'[c] = now /\ m_id'[c] = m_id[c] /\ m_synchronous'[c] = m_synchronous[c]
  BY <1>0, <1>1 DEF Send, GoTo, ClientTypes, Invoke, PollOnce, Invalidate, GetReply
<1>4. CASE Invoke(c)
  <2>1. result'[c] = "none" /\ sent'[c] = now
    BY <1>0, <1>4 DEF Invoke, ClientTypes
  <2>2. CASE l = "starting"
    <3>1. ~InUse(c)'
      BY <1>2, <1>3, <2>2 DEF InUse, Hers, Granted
    <3>2. now <= now + Expiration
      BY <1>0, ServerAssumption
    <3> QED BY <1>0, <1>2, <1>3, <2>1, <3>1, <3>2 DEF Served, FineResult
  <2>3. CASE l # "starting"
    <3>1. cpc[c] = "idle"
      BY <1>4 DEF Invoke
    <3> QED BY <1>1, <1>3, <2>1, <2>3, <3>1, IndependentIsServed DEF FineResult
  <2> QED BY <2>2, <2>3
<1>5. CASE ~Invoke(c)
  <2>1. result'[c] = result[c] /\ sent'[c] = sent[c]
    BY <1>5 DEF PollOnce, Invalidate, GetReply
  <2>2. CASE Invalidate(c)
    <3>1. l = "invalidating"
      BY <1>1, <1>5, <2>2 DEF Invalidate
    <3> QED BY <1>3, <2>1, <3>1, IndependentIsServed DEF Served
  <2>3. CASE PollOnce(c) \/ (GetReply(c) /\ ~m_synchronous[c])
    <3>1. /\ \/ cpc[c] = "poll" /\ l = "polling"
             \/ cpc[c] = "get" /\ l = "getting"
          /\ ~m_synchronous[c] /\ m_id[c] # 0
      <4>1. cpc[c] \in {"poll", "get"}
        BY <2>3 DEF PollOnce, GetReply
      <4> QED BY <1>0, <1>1, <2>3, <4>1 DEF Keeps
    <3>2. /\ InUse(c) /\ ~Fetched(c) /\ Hers(c) = m_id[c] /\ Depends(c)
          /\ InUse(c)' /\ ~Fetched(c)' /\ Hers(c)' = m_id[c] /\ cpc'[c] # "starting"
      BY <1>2, <1>3, <3>1 DEF InUse, Depends, Hers, Fetched
    <3>3. EntryServes(c) /\ sent[c] <= now
      BY <3>2 DEF Served
    <3>4. EntryServes(c)'
      BY <1>0, <1>2, <1>3, <2>1, <3>1, <3>2, <3>3 DEF EntryServes
    <3> QED BY <1>2, <2>1, <3>2, <3>4 DEF Served
  <2> QED BY <1>5, <2>2, <2>3
<1> QED BY <1>4, <1>5

\* A client goes on, or returns to the application.
LEMMA OwnStepKeepsServed ==
  ASSUME SInv, NEW c \in Client \ Lossy, Served(c), Moves(c),
         ~(Invoke(c) \/ PollOnce(c) \/ Invalidate(c) \/ (GetReply(c) /\ ~m_synchronous[c]))
  PROVE  Served(c)'
<1>0. /\ ClientTypes /\ Keeps(c) /\ Talks(c) /\ now \in Nat /\ c \in Client
      /\ sent[c] \in Nat /\ sending[c] \in Nat /\ Expiration \in Nat
  BY TimeIsTyped, ServerAssumption DEF SInv, ClientTypes
<1>1. ASSUME NEW r \in FineResult, Return(c, r) PROVE Served(c)'
  <2>1. cpc'[c] = "idle" /\ result'[c] = r
    BY <1>0, <1>1 DEF Return, GoTo, ClientTypes
  <2> QED BY <2>1, IndependentIsServed
<1>2. ASSUME UNCHANGED serverVars, result'[c] = result[c], InUse(c), ~Fetched(c),
             m_synchronous'[c] = m_synchronous[c], cpc'[c] \in {"poll", "wait", "asleep", "get"},
             m_id'[c] = Hers(c), sent'[c] = sent[c] \/ (cpc[c] = "polling" /\ sent'[c] = sending[c] /\ stage[c] = "free"),
             cpc'[c] = "get" => invokes[Hers(c)].future # "running"
      PROVE  Served(c)'
  <2>1. EntryServes(c) /\ Depends(c) /\ sent[c] <= now /\ now <= sent[c] + Expiration
    BY <1>2 DEF Served, InUse
  <2>2. Hers(c)' = Hers(c) /\ ~Fetched(c)'
    BY <1>2 DEF Hers, Fetched
  <2>3. sent'[c] <= now /\ now <= sent'[c] + Expiration /\ sent'[c] <= invokes[Hers(c)].last_access
    BY <1>0, <1>2, <2>1 DEF EntryServes
  <2>4. EntryServes(c)'
    BY <1>2, <2>1, <2>2, <2>3 DEF EntryServes, serverVars, Table!Live
  <2> QED BY <1>2, <2>1, <2>2, <2>3, <2>4 DEF Served, serverVars
<1>3. CASE InvokeEmpty(c)
  BY <1>1, <1>3 DEF InvokeEmpty, FineResult
<1>4. CASE SyncAnswer(c)
  <2>1. answer[c].result \in {"Invoked", "ServerProtocolException"}
    BY <1>0, <1>4 DEF SyncAnswer, Answered, Talks, Calling, Request, Plain, ServerProved!AnswerTo
  <2> QED BY <1>1, <1>4, <2>1 DEF SyncAnswer, FineResult
<1>5. CASE StartAnswer(c)
  <2>1. ~Thrown(c) /\ cpc[c] = "starting" /\ stage[c] = "free" /\ ~m_synchronous[c]
    BY <1>0, <1>5 DEF StartAnswer, Answered, Served, Keeps
  <2>2. CASE answer[c].shape = "async"
    <3>1. /\ cpc'[c] = "poll" /\ m_id'[c] = reply[c].id /\ m_synchronous'[c] = m_synchronous[c]
          /\ result'[c] = result[c] /\ sent'[c] = sent[c] /\ UNCHANGED serverVars
      BY <1>0, <1>5, <2>1, <2>2 DEF StartAnswer, GoTo, ClientTypes
    <3>2. Hers(c) = reply[c].id
      BY <2>1, <2>2 DEF Hers, Granted, Thrown
    <3>3. reply[c].id # 0
      <4>1. Request(c) = Async("new", 0)
        BY <1>0, <2>1, <2>2 DEF Talks, Calling, Request, ServerProved!AnswerTo, Plain
      <4> QED BY <1>0, <2>1, <2>2, <4>1 DEF Talks, Calling, ServerProved!AnswerTo, Async, Thrown
    <3>4. InUse(c) /\ ~Fetched(c)
      BY <2>1, <3>2, <3>3 DEF InUse, Depends, Fetched
    <3> QED BY <1>2, <3>1, <3>2, <3>4
  <2>3. CASE answer[c].shape # "async"
    <3>1. m_synchronous'[c] /\ cpc'[c] = "get" /\ result'[c] = result[c]
      BY <1>0, <1>5, <2>1, <2>3 DEF StartAnswer, GoTo, ClientTypes
    <3> QED BY <3>1, IndependentIsServed DEF Served
  <2> QED BY <2>2, <2>3
<1>6. CASE PollAnswer(c)
  <2>1. /\ cpc[c] = "polling" /\ stage[c] = "free" /\ m_id[c] # 0 /\ Hers(c) = m_id[c]
        /\ InUse(c) /\ ~Fetched(c)
    BY <1>0, <1>6 DEF PollAnswer, Answered, Keeps, InUse, Depends, Hers, Fetched
  <2>2. reply[c].result = "Success" /\ (reply[c].ready => invokes[Hers(c)].future # "running")
    BY <2>1 DEF Served, EntryServes
  <2>3. /\ cpc'[c] = IF reply[c].ready THEN "get" ELSE "wait"
        /\ m_id'[c] = m_id[c] /\ m_synchronous'[c] = m_synchronous[c]
        /\ result'[c] = result[c] /\ sent'[c] = sending[c] /\ UNCHANGED serverVars
    BY <1>0, <1>6, <2>2 DEF PollAnswer, GoTo, ClientTypes
  <2> QED BY <1>2, <2>1, <2>2, <2>3
<1>7. CASE (Wait(c) /\ ~TimedOut(c)) \/ WakeUp(c)
  <2>1. InUse(c) /\ ~Fetched(c) /\ Hers(c) = m_id[c]
    BY <1>0, <1>7 DEF Wait, WakeUp, Keeps, InUse, Depends, Hers, Fetched
  <2>2. /\ cpc'[c] \in {"asleep", "poll"} /\ m_id'[c] = m_id[c] /\ m_synchronous'[c] = m_synchronous[c]
        /\ result'[c] = result[c] /\ sent'[c] = sent[c] /\ UNCHANGED serverVars
    BY <1>0, <1>7 DEF Wait, WakeUp, GoTo, ClientTypes
  <2> QED BY <1>2, <2>1, <2>2
<1>8. CASE Wait(c) /\ TimedOut(c)
  BY <1>1, <1>8 DEF Wait, FineResult
<1>9. CASE GetReply(c) /\ m_synchronous[c]
  <2>1. answer[c].result \in {"Invoked", "ServerProtocolException"}
    BY <1>0, <1>9 DEF Keeps
  <2> QED BY <1>1, <1>9, <2>1 DEF GetReply, FineResult
<1>10. CASE GetAnswer(c)
  <2>1. InUse(c) /\ Fetched(c)
    BY <1>0, <1>10 DEF GetAnswer, Answered, Keeps, InUse, Depends, Hers, Fetched
  <2>2. reply[c].result \in FineResult
    BY <2>1 DEF Served, ServerProved!Delivers, FineResult
  <2> QED BY <1>1, <1>10, <2>2 DEF GetAnswer
<1>11. CASE InvalidateAnswer(c)
  BY <1>1, <1>11 DEF InvalidateAnswer, FineResult
<1> QED
  BY <1>3, <1>4, <1>5, <1>6, <1>7, <1>8, <1>9, <1>10, <1>11
     DEF Moves, ClientStep, LoseAnswer, LoseRequest

\* Another client moves.
LEMMA OtherClientKeepsServed ==
  ASSUME SInv, IInv, NEW c \in Client, Served(c), NEW d \in Client \ {c}, Moves(d)
  PROVE  Served(c)'
<1>0. ClientTypes /\ now \in 0 .. MaxTime
  BY TimeIsTyped DEF SInv
<1>1. /\ cpc'[c] = cpc[c] /\ m_id'[c] = m_id[c] /\ m_synchronous'[c] = m_synchronous[c]
      /\ result'[c] = result[c] /\ sent'[c] = sent[c] /\ sending'[c] = sending[c]
  BY <1>0
     DEF ClientTypes, Moves, ClientStep, InvokeEmpty, Invoke, SyncAnswer, StartAnswer, PollOnce, PollAnswer, Wait,
         WakeUp, GetReply, GetAnswer, Invalidate, InvalidateAnswer, LoseAnswer, LoseRequest, FunctorThrows,
         Return, Send, GoTo
<1>2. stage'[c] = stage[c] /\ pc'[c] = pc[c] /\ reply'[c] = reply[c] /\ answer'[c] = answer[c]
  <2>1. ASSUME NEW p, NEW l, Send(d, p, l)
        PROVE  stage'[c] = stage[c] /\ pc'[c] = pc[c] /\ reply'[c] = reply[c] /\ answer'[c] = answer[c]
    BY <2>1 DEF Send, Server!Receive, Server!Table!Collect, Server!Table!Return, IInv, Types, IsTable, Client
  <2>2. CASE UNCHANGED serverVars
    BY <2>2 DEF serverVars
  <2>3. CASE Invoke(d) \/ PollOnce(d) \/ Invalidate(d) \/ GetReply(d)
    BY <2>1, <2>2, <2>3 DEF Invoke, PollOnce, Invalidate, GetReply
  <2> QED
    BY <2>2, <2>3 DEF Moves, ClientStep, InvokeEmpty, SyncAnswer, StartAnswer, PollAnswer, Wait, WakeUp,
       GetAnswer, InvalidateAnswer, LoseAnswer, LoseRequest
<1>3. UNCHANGED <<now, invokes>>
  BY ClientTakesNoTime
<1>4. now <= now' /\ now' \in 0 .. MaxTime /\ (Depends(c) => now' <= sent[c] + Expiration)
  BY <1>0, <1>3 DEF Served
<1>5. InUse(c) /\ ~Fetched(c) => Hers(c) \in Table!Live' /\ invokes'[Hers(c)] = invokes[Hers(c)]
  BY <1>3 DEF Served, EntryServes, Table!Live
<1> QED BY <1>1, <1>2, <1>4, <1>5, ElsewhereKeepsServed

\* The server works for another client: for another identifier, or without one.
LEMMA OtherServerStepKeepsServed ==
  ASSUME SInv, IInv, NEW c \in Client, Served(c), NEW d \in Client \ {c}, ServerStep(d)
  PROVE  Served(c)'
<1>0. /\ ServerProved!Handler(d) /\ ServerProved!IInv /\ ServerProved!ServesPacket
      /\ d \in Thread /\ c \in Thread \ {d}
  BY SameHandler DEF ServerStep, SInv, ServerInv, Client
<1>1. /\ cpc'[c] = cpc[c] /\ m_id'[c] = m_id[c] /\ m_synchronous'[c] = m_synchronous[c]
      /\ result'[c] = result[c] /\ sent'[c] = sent[c] /\ sending'[c] = sending[c]
  BY DEF ServerStep, clientVars
<1>2. stage'[c] = stage[c] /\ pc'[c] = pc[c] /\ reply'[c] = reply[c] /\ answer'[c] = answer[c]
  BY <1>0, ServerProved!OthersUntouched, ServerAssumptions
<1>3. now <= now' /\ now' \in 0 .. MaxTime /\ (Depends(c) => now' <= sent[c] + Expiration)
  BY ServerTakesNoTime, TimeIsTyped DEF Served
<1>4. ASSUME InUse(c), ~Fetched(c)
      PROVE  Hers(c) \in Table!Live' /\ invokes'[Hers(c)] = invokes[Hers(c)]
  <2>1. ServerProved!Usable(Hers(c))
    BY <1>4, ServingIsUsable
  <2>2. IsFor(Hers(c), c) /\ Hers(c) # 0
    BY <1>4 DEF InUse, Hers, IInv, HoldsOwn
  <2>3. packet[d].kind = "async" => packet[d].id # Hers(c)
    <3>1. stage[d] # "free"
      <4>1. PICK q : q = packet[d]
        OBVIOUS
      <4> QED BY <1>0, <4>1, ServerProved!HandlerAnswersPacket, ServerAssumptions DEF SInv, ServerInv
    <3>2. packet[d] = Request(d) /\ Keeps(d)
      BY <3>1 DEF SInv, Talks
    <3>3. m_id[d] # 0 => m_id[d] # Hers(c)
      BY <2>2 DEF IInv, HoldsOwn, IsFor
    <3> QED BY <2>2, <3>2, <3>3 DEF Request, Async, Plain, Keeps
  <2> QED BY <1>0, <2>1, <2>3, ServerProved!OthersLeaveEntry, ServerAssumptions
          DEF Table!Live, ServerProved!Table!Live
<1> QED BY <1>1, <1>2, <1>3, <1>4, ElsewhereKeepsServed

\* Workers finish, and the clock does not run away from a punctual client.
LEMMA EnvironmentKeepsServed ==
  ASSUME ClockMayStepBack = FALSE, SInv, NEW c \in Punctual, c \in Client, Served(c),
         Environment \/ UNCHANGED vars
  PROVE  Served(c)'
<1>1. now <= now' /\ now' \in 0 .. MaxTime
  BY TimeMovesOn DEF Next
<1>2. UNCHANGED <<clientVars, stage, pc, reply, answer>>
  BY DEF Environment, Server!Environment, Server!Table!Environment, Server!Table!Finish,
         Server!Table!Tick, vars, serverVars
<1>3. /\ cpc'[c] = cpc[c] /\ m_id'[c] = m_id[c] /\ m_synchronous'[c] = m_synchronous[c]
      /\ result'[c] = result[c] /\ sent'[c] = sent[c] /\ sending'[c] = sending[c]
      /\ stage'[c] = stage[c] /\ pc'[c] = pc[c] /\ reply'[c] = reply[c] /\ answer'[c] = answer[c]
  BY <1>2 DEF clientVars
<1>4. Depends(c) => now' <= sent[c] + Expiration
  BY DEF Environment, vars, serverVars, Served
<1>5. InUse(c) /\ ~Fetched(c) =>
           /\ Hers(c) \in Table!Live'
           /\ \/ invokes'[Hers(c)] = invokes[Hers(c)]
              \/ \E f \in {"value", "exception"} :
                   invokes'[Hers(c)] = [invokes[Hers(c)] EXCEPT !.future = f]
  <2>1. InUse(c) /\ ~Fetched(c) => Hers(c) \in Table!Live
    BY DEF Served, EntryServes
  <2> QED BY <2>1, EntryIsTyped DEF Environment, Server!Environment, Server!Table!Environment,
          Server!Table!Finish, Server!Table!Finished, Server!Table!Tick, Table!Live, vars, serverVars
<1> QED BY <1>1, <1>3, <1>4, <1>5, ElsewhereKeepsServed

LEMMA NextKeepsServed ==
  ASSUME ~ServerMayRestart, ClockMayStepBack = FALSE, LaunchMayFail = FALSE,
         SInv, IInv, NEW c \in Punctual \ Lossy, Served(c), [Next]_vars
  PROVE  Served(c)'
<1>0. c \in Client /\ c \in Client \ Lossy /\ SInv'
  BY ClientAssumption, NextKeepsSInv DEF Client
<1>1. CASE Environment \/ UNCHANGED vars
  BY <1>0, <1>1, EnvironmentKeepsServed
<1>2. ASSUME NEW d \in Client, Moves(d) PROVE Served(c)'
  <2>1. CASE d = c
    BY <1>0, <1>2, <2>1, OwnCallKeepsServed, OwnStepKeepsServed
  <2>2. CASE d # c
    BY <1>0, <1>2, <2>2, OtherClientKeepsServed
  <2> QED BY <2>1, <2>2
<1>3. ASSUME NEW d \in Client, ServerStep(d) PROVE Served(c)'
  <2>1. CASE d = c
    BY <1>0, <1>3, <2>1, OwnServerStepKeepsServed
  <2>2. CASE d # c
    BY <1>0, <1>3, <2>2, OtherServerStepKeepsServed
  <2> QED BY <2>1, <2>2
<1> QED BY <1>1, <1>2, <1>3 DEF Next, Moves, Restart

\* An asynchronous call of a client that loses nothing and polls within the expiration
\* time ends with the reply, the exception of the protocol or a timeout, whatever the
\* other clients do and lose: neither expiry, nor a sweep, nor another client takes its
\* request, and the server never denies that it is ready after it said so.
THEOREM PunctualClientsAreServed ==
  ASSUME ~ServerMayRestart, ClockMayStepBack = FALSE, LaunchMayFail = FALSE
  PROVE  Spec => []PunctualClientIsServed
<1> DEFINE AllServed == \A c \in Punctual \ Lossy : Served(c)
<1>1. Init => AllServed
  <2> SUFFICES ASSUME Init, NEW c \in Punctual \ Lossy PROVE Served(c)
    OBVIOUS
  <2> QED BY ClientAssumption DEF Init, Client, Served, Depends, InUse, FineResult
<1>2. SInv /\ IInv /\ AllServed /\ [Next]_vars => AllServed'
  BY NextKeepsServed
<1>3. AllServed => PunctualClientIsServed
  BY DEF Served, FineResult, PunctualClientIsServed
<1>4. Spec => []IInv
  BY SpecIInv
<1> HIDE DEF AllServed
<1> QED BY <1>1, <1>2, <1>3, <1>4, InvariantSInv, PTL DEF Spec

=============================================================================
