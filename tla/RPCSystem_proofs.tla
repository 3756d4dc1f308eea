--------------------------- MODULE RPCSystem_proofs ---------------------------
(***************************************************************************)
(* UniqueRequestId and OwnReply of RPCSystem, for any number of clients,   *)
(* lost packets, clocks and timeouts, as long as the server process is not *)
(* restarted: its identifiers begin anew then.                             *)
(***************************************************************************)
EXTENDS RPCSystem, TLAPS

IsTable(f) == f = [c \in Client |-> f[c]]

\* The state of clients and threads, as far as it matters here.
Types ==
  /\ stage \in [Client -> {"free", "due", "sweeping", "handle", "protocol", "locked"}]
  /\ pc \in [Client -> {"idle", "touch", "check", "reap", "sweep"}]
  /\ cpc \in [Client -> {"idle", "poll", "wait", "asleep", "get"} \union Calling]
  /\ m_id \in [Client -> Nat]
  /\ m_synchronous \in [Client -> BOOLEAN]
  /\ IsTable(reply) /\ IsTable(packet) /\ IsTable(answer)
  /\ last_id \in Nat

\* A thread holds the table's mutex only in the stages that work on the table.
IdleOutside == \A c \in Client : stage[c] \in {"free", "due", "handle", "protocol"} => pc[c] = "idle"

\* The identifiers that were given out, and those of the table, were counted.
IdsCounted == Table!Live \subseteq 1 .. last_id /\ issued \subseteq 1 .. last_id

\* The server has answered the request that client c starts with an identifier.
Granted(c) ==
  /\ cpc[c] = "starting" /\ stage[c] = "free"
  /\ answer[c].shape = "async" /\ reply[c].result # "thrown"

\* Whether id was given out for the request of client c.
IsFor(id, c) == id \in issued /\ owner[id] = c

\* What a client holds, or is about to hold, was given out for its own request.
HoldsOwn ==
  \A c \in Client :
    /\ m_id[c] # 0 => IsFor(m_id[c], c)
    /\ Granted(c) => IsFor(reply[c].id, c)

\* A client that starts a request has asked the table for nothing else.
AsksNew ==
  \A c \in Client : cpc[c] = "starting" /\ stage[c] # "free" =>
    /\ stage[c] # "locked"
    /\ packet[c].kind = "async" => packet[c].command = "new"

\* A client that polls, waits, fetches a reply or invalidates holds an identifier.
HoldsId ==
  \A c \in Client :
    /\ cpc[c] \in {"poll", "polling", "wait", "asleep", "getting", "invalidating"} => m_id[c] # 0
    /\ cpc[c] = "get" /\ ~m_synchronous[c] => m_id[c] # 0

IInv == Types /\ IdleOutside /\ IdsCounted /\ HoldsOwn /\ AsksNew /\ HoldsId

-----------------------------------------------------------------------------
(* The server *)

\* What a step of thread c in operator() does to the others: nothing.
OthersKept(c) ==
  \A d \in Client \ {c} :
    /\ stage'[d] = stage[d] /\ pc'[d] = pc[d]
    /\ reply'[d] = reply[d] /\ packet'[d] = packet[d] /\ answer'[d] = answer[d]

ServerTypes ==
  /\ stage \in [Client -> {"free", "due", "sweeping", "handle", "protocol", "locked"}]
  /\ pc \in [Client -> {"idle", "touch", "check", "reap", "sweep"}]
  /\ IsTable(reply) /\ IsTable(packet) /\ IsTable(answer)
  /\ last_id \in Nat

\* A step that gives out no identifier.
NoneIssued == issued' = issued /\ Table!Live' \subseteq Table!Live /\ last_id' \in {last_id, last_id + 1}

\* A step that gives one to client c.
OneIssued(c) ==
  /\ last_id' = last_id + 1
  /\ issued' = issued \union {last_id'}
  /\ Table!Live' = Table!Live \union {last_id'}
  /\ reply'[c].id = last_id'

\* A thread inside operator() works on its own reply, leaves with an identifier of
\* its own or with none, and keeps its packet to the end.
LEMMA HandlerOfOne ==
  ASSUME ServerTypes, IdleOutside, NEW c \in Client, Server!Handler(c)
  PROVE  /\ stage[c] # "free" /\ ServerTypes' /\ IdleOutside' /\ OthersKept(c)
         /\ NoneIssued \/ OneIssued(c)
         /\ stage'[c] # "free" => packet'[c] = packet[c]
         /\ stage'[c] = "locked" =>
              stage[c] = "locked" \/ (packet[c].kind = "async" /\ packet[c].command # "new")
         /\ stage[c] # "locked" /\ (packet[c].kind = "async" => packet[c].command = "new") =>
              \/ stage'[c] # "free" \/ answer'[c].shape # "async"
              \/ OneIssued(c) \/ reply'[c].result = "thrown"
<1> USE DEF ServerTypes, IsTable, IdleOutside, OthersKept, NoneIssued, Client, Table!Live,
            Server!GoTo, Server!Finish, Server!Out, Server!Table!Live,
            Server!Table!At, Server!Table!Enter, Server!Table!Leave, Server!Table!Return, Server!Table!CanLock
<1>1. CASE Server!CleanUp(c)
  BY <1>1 DEF Server!CleanUp, Server!Table!CleanUp
<1>2. CASE Server!SweepOne(c)
  BY <1>2 DEF Server!SweepOne, Server!Table!SweepOne, Server!Table!Erase
<1>3. CASE Server!SweepEnd(c)
  BY <1>3 DEF Server!SweepEnd, Server!Table!SweepEnd
<1>4. CASE Server!Refuse(c)
  BY <1>4 DEF Server!Refuse, Server!Handles, Server!tableVars
<1>5. CASE Server!CallProtocol(c)
  BY <1>5 DEF Server!CallProtocol, Server!Handles, Server!tableVars
<1>6. CASE Server!ProtocolReturns(c)
  <2>1. PICK r : Server!Finish(c, Server!Out(IF packet[c].kind = "service" THEN "service" ELSE "rpc", r))
    BY <1>6 DEF Server!ProtocolReturns
  <2> DEFINE o == Server!Out(IF packet[c].kind = "service" THEN "service" ELSE "rpc", r)
  <2>2. UNCHANGED <<invokes, last_id, pc, reply, issued>> /\ stage[c] = "protocol"
    BY <1>6 DEF Server!ProtocolReturns, Server!tableVars
  <2>3. o.shape # "async"
    BY DEF Server!Out
  <2>4. Server!Finish(c, o)
    BY <2>1
  <2> HIDE DEF o
  <2> QED BY <2>2, <2>3, <2>4
<1>7. CASE Server!AsyncAtOnce(c)
  <2> USE DEF Server!Asks, Server!Handles, Server!Handled
  <2>1. CASE Server!Asks(c, "new") /\ Server!Table!NewRequest(c)
    <3>1. OneIssued(c)
      BY <2>1 DEF Server!Table!NewRequest, Server!Table!GetRequestId, Server!Table!Emplace,
                  Server!Table!Answer, OneIssued
    <3>2. PICK r : Server!Table!Return(c, r)
      BY <2>1 DEF Server!Table!NewRequest
    <3>3. last_id' \in Nat
      BY <3>1 DEF OneIssued
    <3> QED BY <1>7, <2>1, <3>1, <3>2, <3>3 DEF Server!AsyncAtOnce
  <2>2. CASE Server!Asks(c, "new") /\ Server!Table!NewRequestThrows(c)
    <3>1. NoneIssued
      BY <2>2 DEF Server!Table!NewRequestThrows, Server!Table!GetRequestId
    <3>2. PICK r : r.result = "thrown" /\ Server!Table!Return(c, r)
      BY <2>2 DEF Server!Table!NewRequestThrows, Server!Table!Answer
    <3>3. last_id' \in Nat
      BY <3>1
    <3> QED BY <1>7, <2>2, <3>1, <3>2, <3>3 DEF Server!AsyncAtOnce
  <2>3. CASE Server!Asks(c, "unknown") /\ Server!Table!RejectInvoke(c)
    BY <1>7, <2>3 DEF Server!AsyncAtOnce, Server!Table!RejectInvoke
  <2>4. CASE \E a \in {"poll", "get", "invalidate"} :
               Server!Asks(c, a) /\ Server!Table!UnknownId(c, a, packet[c].id)
    BY <1>7, <2>4 DEF Server!AsyncAtOnce, Server!Table!UnknownId
  <2>5. CASE Server!Asks(c, "poll") /\ Server!Table!Poll(c, packet[c].id) /\ pc'[c] = "idle"
    BY <1>7, <2>5 DEF Server!AsyncAtOnce, Server!Table!Poll
  <2> QED BY <1>7, <2>1, <2>2, <2>3, <2>4, <2>5 DEF Server!AsyncAtOnce
<1>8. CASE Server!AsyncEnter(c)
  BY <1>8 DEF Server!AsyncEnter, Server!Asks, Server!Handles,
              Server!Table!Poll, Server!Table!GetReply, Server!Table!Invalidate
<1>9. CASE Server!AsyncTouch(c)
  BY <1>9 DEF Server!AsyncTouch, Server!Handled, Server!Table!Touch
<1>10. CASE Server!AsyncLeave(c)
  <2>1. PICK r : Server!Table!Leave(c, r)
    BY <1>10 DEF Server!AsyncLeave, Server!Table!Check, Server!Table!Reap
  <2>2. NoneIssued
    BY <1>10 DEF Server!AsyncLeave, Server!Table!Check, Server!Table!Reap, Server!Table!Erase
  <2>3. stage[c] = "locked" /\ Server!Handled(c)
    BY <1>10 DEF Server!AsyncLeave
  <2>4. last_id' \in Nat
    BY <2>2
  <2> QED BY <2>1, <2>2, <2>3, <2>4 DEF Server!Handled
<1> QED
  BY <1>1, <1>2, <1>3, <1>4, <1>5, <1>6, <1>7, <1>8, <1>9, <1>10 DEF Server!Handler

LEMMA ServerStepKeepsIInv ==
  ASSUME IInv, NEW c \in Client, ServerStep(c)
  PROVE  IInv'
<1>1. /\ stage[c] # "free" /\ ServerTypes' /\ IdleOutside' /\ OthersKept(c)
      /\ NoneIssued \/ OneIssued(c)
      /\ stage'[c] # "free" => packet'[c] = packet[c]
      /\ stage'[c] = "locked" =>
           stage[c] = "locked" \/ (packet[c].kind = "async" /\ packet[c].command # "new")
      /\ stage[c] # "locked" /\ (packet[c].kind = "async" => packet[c].command = "new") =>
           \/ stage'[c] # "free" \/ answer'[c].shape # "async"
           \/ OneIssued(c) \/ reply'[c].result = "thrown"
  <2>1. ServerTypes
    BY DEF IInv, Types, ServerTypes
  <2> QED BY <2>1, HandlerOfOne DEF IInv, ServerStep
<1>2. UNCHANGED <<cpc, m_id, m_synchronous>>
  BY DEF ServerStep, clientVars
<1>3. Types' /\ IdleOutside'
  BY <1>1, <1>2 DEF IInv, Types, ServerTypes
<1>4. IdsCounted'
  <2>1. last_id \in Nat /\ Table!Live \subseteq 1 .. last_id /\ issued \subseteq 1 .. last_id
    BY DEF IInv, IdsCounted, Types
  <2>2. CASE NoneIssued
    BY <2>1, <2>2 DEF IdsCounted, NoneIssued
  <2>3. CASE OneIssued(c)
    BY <2>1, <2>3 DEF IdsCounted, OneIssued
  <2> QED BY <1>1, <2>2, <2>3
<1>5. \A id \in issued, d \in Client : IsFor(id, d) => IsFor(id, d)'
  <2> SUFFICES ASSUME NEW id \in issued, NEW d \in Client, IsFor(id, d)
               PROVE  IsFor(id, d)'
    OBVIOUS
  <2>1. id \in issued' /\ id \notin Table!Live' \ Table!Live
    BY <1>1 DEF IInv, IdsCounted, NoneIssued, OneIssued, Types
  <2> QED BY <2>1 DEF IsFor, ServerStep
<1>6. OneIssued(c) => IsFor(reply[c].id, c)'
  <2> SUFFICES ASSUME OneIssued(c) PROVE IsFor(reply[c].id, c)'
    OBVIOUS
  <2>1. last_id' \in issued' /\ last_id' \in Table!Live' \ Table!Live
    BY DEF OneIssued, IInv, IdsCounted, Types
  <2> QED BY <2>1 DEF OneIssued, IsFor, ServerStep
<1>7. HoldsOwn'
  <2> SUFFICES ASSUME NEW d \in Client
               PROVE  /\ m_id'[d] # 0 => IsFor(m_id[d], d)'
                      /\ Granted(d)' => IsFor(reply[d].id, d)'
    BY DEF HoldsOwn
  <2>1. m_id'[d] # 0 => IsFor(m_id[d], d)'
    BY <1>2, <1>5 DEF IInv, HoldsOwn, IsFor
  <2>2. CASE d # c
    BY <1>1, <1>2, <1>5, <2>1, <2>2 DEF IInv, HoldsOwn, IsFor, Granted, OthersKept
  <2>3. CASE d = c
    <3>1. Granted(c)' => OneIssued(c)
      BY <1>1, <1>2 DEF IInv, AsksNew, Granted
    <3> QED BY <1>6, <2>1, <2>3, <3>1
  <2> QED BY <2>2, <2>3
<1>8. AsksNew'
  BY <1>1, <1>2 DEF IInv, AsksNew, OthersKept
<1>9. HoldsId'
  BY <1>2 DEF IInv, HoldsId
<1> QED BY <1>3, <1>4, <1>7, <1>8, <1>9 DEF IInv

\* Workers and the clock.
LEMMA EnvironmentKeepsIInv == IInv /\ Environment => IInv'
<1> SUFFICES ASSUME IInv, Environment PROVE IInv'
  OBVIOUS
<1>1. Table!Live' = Table!Live
      /\ UNCHANGED <<stage, pc, reply, packet, answer, last_id, issued>>
  BY DEF Environment, Server!Environment, Server!Table!Environment, Server!Table!Finish,
         Server!Table!Tick, Server!Table!Live, Table!Live
<1>2. UNCHANGED <<cpc, m_id, m_synchronous, owner>>
  BY DEF Environment, clientVars
<1> QED BY <1>1, <1>2 DEF IInv, Types, IsTable, IdleOutside, IdsCounted, HoldsOwn, Granted, IsFor, AsksNew, HoldsId

-----------------------------------------------------------------------------
(* The clients *)

\* A client that calls the functor asks for a new request, or for the one it holds.
LEMMA SendKeepsIInv ==
  ASSUME IInv, NEW c \in Client, NEW p, NEW l \in Calling, Send(c, p, l),
         l = "starting" => (p.kind = "async" => p.command = "new"),
         l \in {"polling", "getting", "invalidating"} => m_id[c] # 0,
         UNCHANGED <<m_id, m_synchronous, owner>>
  PROVE  IInv'
<1> USE DEF Client
<1>1. /\ stage[c] = "free" /\ stage'[c] \in {"due", "handle"} /\ packet'[c] = p
      /\ OthersKept(c) /\ ServerTypes' /\ IdleOutside'
      /\ Table!Live' = Table!Live /\ UNCHANGED <<issued, last_id>>
  BY DEF IInv, Types, ServerTypes, IsTable, IdleOutside, OthersKept, Table!Live, Send, Server!Receive,
         Server!Table!Collect, Server!Table!Return
<1>2. cpc' = [cpc EXCEPT ![c] = l]
  BY DEF Send, GoTo
<1>3. Types'
  BY <1>1, <1>2 DEF IInv, Types, ServerTypes
<1>4. HoldsOwn'
  BY <1>1, <1>2 DEF IInv, Types, HoldsOwn, Granted, IsFor, OthersKept
<1>5. IdsCounted' /\ AsksNew' /\ HoldsId'
  BY <1>1, <1>2 DEF IInv, Types, IdsCounted, AsksNew, HoldsId, OthersKept, Calling
<1> QED BY <1>1, <1>3, <1>4, <1>5 DEF IInv

\* A client that goes on without the server, to l and holding id, which it had or was granted.
LEMMA LocalStepKeepsIInv ==
  ASSUME IInv, NEW c \in Client, NEW id \in Nat, NEW sync \in BOOLEAN,
         NEW l \in {"idle", "poll", "wait", "asleep", "get"},
         cpc' = [cpc EXCEPT ![c] = l],
         m_id' = [m_id EXCEPT ![c] = id],
         m_synchronous' = [m_synchronous EXCEPT ![c] = sync],
         id # 0 => IsFor(id, c),
         id # 0 \/ l = "idle" \/ (l = "get" /\ sync),
         UNCHANGED <<serverVars, owner>>
  PROVE  IInv'
<1>1. Types' /\ IdleOutside' /\ IdsCounted'
  BY DEF IInv, Types, IsTable, IdleOutside, IdsCounted, Table!Live, serverVars, Client
<1>2. HoldsOwn'
  BY DEF IInv, Types, HoldsOwn, Granted, IsFor, serverVars
<1>3. AsksNew' /\ HoldsId'
  BY DEF IInv, Types, AsksNew, HoldsId, serverVars
<1> QED BY <1>1, <1>2, <1>3 DEF IInv

LEMMA ReturnKeepsIInv ==
  ASSUME IInv, NEW c \in Client, NEW r, Return(c, r), UNCHANGED <<serverVars, owner>>
  PROVE  IInv'
  BY LocalStepKeepsIInv DEF Return, GoTo

\* Steps of a client that end its call, or begin or go on with it.
LEMMA ClientStepKeepsIInv ==
  ASSUME IInv, NEW c \in Client,
         \/ InvokeEmpty(c) \/ Invoke(c) \/ ClientStep(c) \/ Invalidate(c)
         \/ LoseAnswer(c) \/ LoseRequest(c)
  PROVE  IInv'
<1> USE DEF Calling
<1>1. CASE InvokeEmpty(c) \/ SyncAnswer(c) \/ GetAnswer(c) \/ InvalidateAnswer(c)
           \/ LoseAnswer(c) \/ LoseRequest(c)
  BY <1>1, ReturnKeepsIInv
     DEF InvokeEmpty, SyncAnswer, GetAnswer, InvalidateAnswer, LoseAnswer, LoseRequest, FunctorThrows
<1>2. CASE Invoke(c)
  <2>1. CASE Send(c, IF async_supported THEN Async("new", 0) ELSE Plain("sync"), "starting")
    BY <1>2, <2>1, SendKeepsIInv DEF Invoke, Async, Plain
  <2>2. CASE Send(c, Plain("sync"), "invoking") \/ Send(c, Plain("service"), "servicing")
    BY <1>2, <2>2, SendKeepsIInv DEF Invoke
  <2> QED BY <1>2, <2>1, <2>2 DEF Invoke
<1>3. CASE StartAnswer(c)
  <2>1. CASE Thrown(c)
    BY <1>3, <2>1, ReturnKeepsIInv DEF StartAnswer
  <2>2. CASE ~Thrown(c) /\ answer[c].shape = "async"
    <3>1. IsFor(reply[c].id, c)
      BY <1>3, <2>2 DEF StartAnswer, Answered, Thrown, IInv, HoldsOwn, Granted
    <3>2. reply[c].id \in Nat \ {0}
      <4>1. last_id \in Nat /\ issued \subseteq 1 .. last_id
        BY DEF IInv, Types, IdsCounted
      <4>2. reply[c].id \in issued
        BY <3>1 DEF IsFor
      <4>3. reply[c].id \in 1 .. last_id
        BY <4>1, <4>2
      <4>4. \A id \in 1 .. last_id : id \in Nat \ {0}
        BY <4>1
      <4> QED BY <4>3, <4>4
    <3>3. m_synchronous' = [m_synchronous EXCEPT ![c] = m_synchronous[c]] /\ m_synchronous[c] \in BOOLEAN
      BY <1>3, <2>2 DEF StartAnswer, IInv, Types
    <3> QED BY <1>3, <2>2, <3>1, <3>2, <3>3, LocalStepKeepsIInv DEF StartAnswer, GoTo
  <2>3. CASE ~Thrown(c) /\ answer[c].shape # "async"
    <3>1. m_id' = [m_id EXCEPT ![c] = m_id[c]] /\ m_id[c] \in Nat /\ (m_id[c] # 0 => IsFor(m_id[c], c))
      BY <1>3, <2>3 DEF StartAnswer, IInv, Types, HoldsOwn
    <3> QED BY <1>3, <2>3, <3>1, LocalStepKeepsIInv DEF StartAnswer, GoTo
  <2> QED BY <2>1, <2>2, <2>3
<1>4. CASE PollOnce(c) \/ Invalidate(c)
  BY <1>4, SendKeepsIInv DEF PollOnce, Invalidate, IInv, HoldsId
<1>5. CASE GetReply(c)
  <2>1. CASE m_synchronous[c]
    BY <1>5, <2>1, ReturnKeepsIInv DEF GetReply
  <2>2. CASE ~m_synchronous[c]
    BY <1>5, <2>2, SendKeepsIInv DEF GetReply, IInv, HoldsId
  <2> QED BY <2>1, <2>2
<1>6. CASE PollAnswer(c) \/ Wait(c) \/ WakeUp(c)
  <2>1. CASE \E r : Return(c, r)
    BY <1>6, <2>1, ReturnKeepsIInv DEF PollAnswer, Wait, WakeUp
  <2>2. CASE UNCHANGED <<m_id, m_synchronous>>
    <3>1. /\ m_id' = [m_id EXCEPT ![c] = m_id[c]] /\ m_id[c] \in Nat \ {0} /\ IsFor(m_id[c], c)
          /\ m_synchronous' = [m_synchronous EXCEPT ![c] = m_synchronous[c]] /\ m_synchronous[c] \in BOOLEAN
      BY <1>6, <2>2 DEF PollAnswer, Wait, WakeUp, Answered, IInv, Types, HoldsOwn, HoldsId
    <3>2. PICK l \in {"idle", "poll", "wait", "asleep", "get"} : cpc' = [cpc EXCEPT ![c] = l]
      BY <1>6 DEF PollAnswer, Wait, WakeUp, Return, GoTo
    <3>3. UNCHANGED <<serverVars, owner>>
      BY <1>6 DEF PollAnswer, Wait, WakeUp
    <3> QED BY <3>1, <3>2, <3>3, LocalStepKeepsIInv
  <2> QED BY <1>6, <2>1, <2>2 DEF PollAnswer, Wait, WakeUp
<1> QED BY <1>1, <1>2, <1>3, <1>4, <1>5, <1>6 DEF ClientStep

-----------------------------------------------------------------------------
(* IInv is inductive *)

LEMMA InitIInv == Init => IInv
  BY DEF Init, Server!Init, Server!Table!Init, IInv, Types, IsTable, IdleOutside, IdsCounted,
         HoldsOwn, Granted, AsksNew, HoldsId, Client, Calling, Table!Live

LEMMA NextKeepsIInv ==
  ASSUME ~ServerMayRestart
  PROVE  IInv /\ [Next]_vars => IInv'
<1>1. ASSUME IInv, UNCHANGED vars PROVE IInv'
  BY <1>1 DEF vars, serverVars, clientVars, IInv, Types, IsTable, IdleOutside, IdsCounted,
              HoldsOwn, Granted, IsFor, AsksNew, HoldsId, Table!Live
<1>2. ~Restart
  BY DEF Restart
<1> QED
  BY <1>1, <1>2, ClientStepKeepsIInv, ServerStepKeepsIInv, EnvironmentKeepsIInv DEF Next

LEMMA SpecIInv == ~ServerMayRestart => (Spec => []IInv)
<1> SUFFICES ASSUME ~ServerMayRestart PROVE Spec => []IInv
  OBVIOUS
<1>1. IInv /\ [Next]_vars => IInv'
  BY NextKeepsIInv
<1> QED BY <1>1, InitIInv, PTL DEF Spec

-----------------------------------------------------------------------------
(* Theorems *)

\* Two clients never hold the same identifier, whatever is lost between them and the
\* server: an identifier that a client holds was given out for its own request.
THEOREM ClientsHoldDistinctIds == ~ServerMayRestart => (Spec => []UniqueRequestId)
<1> SUFFICES ASSUME ~ServerMayRestart PROVE Spec => []UniqueRequestId
  OBVIOUS
<1>1. IInv => UniqueRequestId
  BY DEF IInv, HoldsOwn, IsFor, UniqueRequestId
<1> QED BY <1>1, SpecIInv, PTL

\* The reply that a client is given is the one to the request it started.
THEOREM ClientsGetTheirOwnReply == ~ServerMayRestart => (Spec => OwnReply)
<1> SUFFICES ASSUME ~ServerMayRestart PROVE Spec => OwnReply
  OBVIOUS
<1> DEFINE Own == \A c \in Client :
                    cpc[c] = "getting" /\ result'[c] = "Invoked" => owner[m_id[c]] = c
<1>1. IInv /\ [Next]_vars => [Own]_vars
  BY DEF IInv, HoldsOwn, HoldsId, IsFor
<1>2. OwnReply <=> [][Own]_vars
  BY DEF OwnReply
<1> HIDE DEF Own
<1> QED BY <1>1, <1>2, SpecIInv, PTL DEF Spec

=============================================================================
