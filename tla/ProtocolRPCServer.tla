-------------------------- MODULE ProtocolRPCServer --------------------------
(***************************************************************************)
(* ProtocolRPCServer (base/protocol_rpc_server.cpp): operator() is called  *)
(* by any number of threads of the network layer with any packets.  It     *)
(* decides whether the table of asynchronous requests is due for a sweep   *)
(* (ExpirationTimeoutHandler), sweeps it, and then hands the packet to the *)
(* application protocol or to the AsyncInvokeServer, whose variables and   *)
(* actions are those of the instance Table.                                *)
(*                                                                         *)
(* An operator named Bug_X is X with a plausible mistake in it; it is not  *)
(* part of the model and serves to show that the properties notice it.     *)
(***************************************************************************)
EXTENDS Naturals, FiniteSets

CONSTANTS
  Thread, NoThread, Expiration, TimeModulus, MaxTime, MaxId, LaunchMayFail, ClockMayStepBack,
  CleanUpInterval,   \* m_cleanup_ns of the ExpirationTimeoutHandler
  PacketKinds,       \* the kinds of packets that arrive
  Never              \* its first m_last_timestamp, 0: long before any instant

ASSUME TableAssumption ==   \* what AsyncInvokeServer assumes
  /\ NoThread \notin Thread
  /\ Expiration \in Nat /\ MaxTime \in Nat /\ TimeModulus \in Nat
  /\ MaxTime < TimeModulus /\ Expiration < TimeModulus
  /\ MaxId \in Nat
  /\ ClockMayStepBack \in BOOLEAN /\ LaunchMayFail \in BOOLEAN
ASSUME IntervalAssumption == CleanUpInterval \in Nat /\ CleanUpInterval < TimeModulus
ASSUME NeverAssumption == Never \notin 0 .. MaxTime

VARIABLES
  now, invokes, last_id, mtx, pc, reply, issued,   \* of the table
  last_cleanup,  \* m_last_timestamp
  stage,         \* where each thread is in operator()
  packet,        \* the packet it handles
  answer,        \* what it returned for the last packet
  garbage        \* history: entries that were removable when it decided to sweep,
                 \* and that nobody asked for since

Table == INSTANCE AsyncInvokeServer

tableVars == <<now, invokes, last_id, mtx, pc, reply, issued>>
vars == <<now, invokes, last_id, mtx, pc, reply, issued, last_cleanup, stage, packet, answer, garbage>>

-----------------------------------------------------------------------------
(* Packets, as far as the server tells them apart *)

AsyncCommand == {"new", "poll", "get", "invalidate", "unknown"}

\* Kinds of packet: encoding field not understood; malformed, or with a payload that
\* does not decode (RPCExchange tells these apart); and proper ones.
Kind == {"bad_encoding", "malformed", "service", "sync", "async"}

Packet == [kind : Kind, command : AsyncCommand \union {"none"}, id : 0 .. MaxId]

NoPacket == [kind |-> "malformed", command |-> "none", id |-> 0]

AnyPacket ==
  {p \in Packet :
     /\ p.kind \in PacketKinds
     /\ p.command = "none" <=> p.kind # "async"
     /\ p.id # 0 <=> p.command \in {"poll", "get", "invalidate"}}

\* Bound: requests for an identifier beyond MaxId do not arrive.
IdsRemain == last_id + Cardinality({t \in Thread : packet[t].command = "new"}) < MaxId

\* Shape of the reply packet ("async": reply[t] of the table holds the rest).
Outcome == [shape : {"none", "rpc", "service", "async"},
            result : {"none", "Invoked", "ServerProtocolException", "ServerTransportDecodingError",
                      "ServerUnsupportedPayloadEncodingError"}]

Out(s, r) == [shape |-> s, result |-> r]

-----------------------------------------------------------------------------

Init ==
  /\ Table!Init
  /\ last_cleanup = Never
  /\ stage = [t \in Thread |-> "free"]
  /\ packet = [t \in Thread |-> NoPacket]
  /\ answer = [t \in Thread |-> Out("none", "none")]
  /\ garbage = [t \in Thread |-> {}]

\* Finds a sweep due only once.
Bug_IsCleanUpNeeded == last_cleanup = Never

IsCleanUpNeeded == last_cleanup = Never \/ Table!Elapsed(last_cleanup) > CleanUpInterval

\* operator() is entered; IsCleanUpNeeded decides and restarts the interval in one
\* critical section of its own.
Receive(t, p) ==
  /\ stage[t] = "free"
  /\ p.command = "new" => IdsRemain
  /\ packet' = [packet EXCEPT ![t] = p]
  /\ answer' = [answer EXCEPT ![t] = Out("none", "none")]
  /\ IF IsCleanUpNeeded
       THEN /\ last_cleanup' = now
            /\ stage' = [stage EXCEPT ![t] = "due"]
            /\ garbage' = [garbage EXCEPT ![t] = {id \in Table!Live : Table!IsReadyForRemoval(id)}]
       ELSE /\ stage' = [stage EXCEPT ![t] = "handle"]
            /\ UNCHANGED <<last_cleanup, garbage>>
  /\ Table!Collect(t)

GoTo(t, s) ==
  /\ stage' = [stage EXCEPT ![t] = s]
  /\ UNCHANGED <<last_cleanup, packet, answer, garbage>>

\* The answer leaves operator().
Finish(t, o) ==
  /\ stage' = [stage EXCEPT ![t] = "free"]
  /\ packet' = [packet EXCEPT ![t] = NoPacket]
  /\ answer' = [answer EXCEPT ![t] = o]
  /\ UNCHANGED <<last_cleanup, garbage>>

CleanUp(t) == stage[t] = "due" /\ Table!CleanUp(t) /\ GoTo(t, "sweeping")

Bug_SweepOne(t) ==
  /\ Table!Bug_SweepOne(t)
  /\ UNCHANGED <<last_cleanup, stage, packet, answer, garbage>>

SweepOne(t) ==
  /\ Table!SweepOne(t)
  /\ UNCHANGED <<last_cleanup, stage, packet, answer, garbage>>

\* Leaves the loop after the first entry.
Bug_SweepEnd(t) ==
  /\ Table!At(t, "sweep")
  /\ reply[t].id > 0 \/ Table!Live = {}
  /\ Table!Leave(t, [reply[t] EXCEPT !.id = 0])
  /\ stage' = [stage EXCEPT ![t] = "handle"]
  /\ garbage' = [garbage EXCEPT ![t] = {}]
  /\ UNCHANGED <<now, invokes, last_id, issued, last_cleanup, packet, answer>>

\* The sweep is over; garbage[t] has served its purpose.
SweepEnd(t) ==
  /\ Table!SweepEnd(t)
  /\ stage' = [stage EXCEPT ![t] = "handle"]
  /\ garbage' = [garbage EXCEPT ![t] = {}]
  /\ UNCHANGED <<last_cleanup, packet, answer>>

Handles(t, k) == stage[t] = "handle" /\ packet[t].kind = k

\* Packets that are answered at once.
Refuse(t) ==
  /\ \/ Handles(t, "bad_encoding") /\ Finish(t, Out("rpc", "ServerUnsupportedPayloadEncodingError"))
     \/ Handles(t, "malformed") /\ Finish(t, Out("rpc", "ServerTransportDecodingError"))
  /\ UNCHANGED tableVars

\* The packet goes to the application protocol: Invoke or Service, on this thread.
CallProtocol(t) ==
  /\ Handles(t, "sync") \/ Handles(t, "service")
  /\ GoTo(t, "protocol")
  /\ UNCHANGED tableVars

\* An exception of the protocol leaves operator().
Bug_ProtocolReturns(t) ==
  /\ stage[t] = "protocol"
  /\ \E r \in {"Invoked", "thrown"} :
       Finish(t, Out(IF packet[t].kind = "service" THEN "service" ELSE "rpc", r))
  /\ UNCHANGED tableVars

\* It returns, or throws, and the exception is caught.
ProtocolReturns(t) ==
  /\ stage[t] = "protocol"
  /\ \E r \in {"Invoked", "ServerProtocolException"} :
       Finish(t, Out(IF packet[t].kind = "service" THEN "service" ELSE "rpc", r))
  /\ UNCHANGED tableVars

Handled(t) == Finish(t, Out("async", "none"))

Asks(t, c) == Handles(t, "async") /\ packet[t].command = c

\* Operations of the table that answer in one step.
AsyncAtOnce(t) ==
  LET id == packet[t].id IN
  /\ \/ Asks(t, "new") /\ (Table!NewRequest(t) \/ Table!NewRequestThrows(t))
     \/ Asks(t, "unknown") /\ Table!RejectInvoke(t)
     \/ \E c \in {"poll", "get", "invalidate"} : Asks(t, c) /\ Table!UnknownId(t, c, id)
     \/ Asks(t, "poll") /\ Table!Poll(t, id) /\ pc'[t] = "idle"
  /\ Handled(t)

\* Operations that stay in the critical section.
AsyncEnter(t) ==
  LET id == packet[t].id IN
  /\ \/ Asks(t, "poll") /\ Table!Poll(t, id) /\ pc'[t] # "idle"
     \/ Asks(t, "get") /\ Table!GetReply(t, id)
     \/ Asks(t, "invalidate") /\ Table!Invalidate(t, id)
  /\ GoTo(t, "locked")

\* AsyncInvoke::WaitForReady asks for the entry: it is not garbage any more.
AsyncTouch(t) ==
  /\ stage[t] = "locked" /\ Table!Touch(t)
  /\ IF pc'[t] = "idle"
       THEN Handled(t)
       ELSE /\ garbage' = [u \in Thread |-> garbage[u] \ {reply[t].id}]
            /\ UNCHANGED <<last_cleanup, stage, packet, answer>>

AsyncLeave(t) == stage[t] = "locked" /\ (Table!Check(t) \/ Table!Reap(t)) /\ Handled(t)

\* Workers and the clock.
Environment ==
  /\ Table!Environment
  /\ UNCHANGED <<last_cleanup, stage, packet, answer, garbage>>

Handler(t) ==
  \/ CleanUp(t) \/ SweepOne(t) \/ SweepEnd(t)
  \/ Refuse(t) \/ CallProtocol(t) \/ ProtocolReturns(t)
  \/ AsyncAtOnce(t) \/ AsyncEnter(t) \/ AsyncTouch(t) \/ AsyncLeave(t)

Next ==
  \/ \E t \in Thread : Handler(t) \/ \E p \in AnyPacket : Receive(t, p)
  \/ Environment

\* Threads run, the mutex is not withheld from a thread for ever, and the protocol
\* returns.
Spec == Init /\ [][Next]_vars /\ \A t \in Thread : SF_vars(Handler(t))

\* Packets keep arriving, workers finish and time passes.
LiveSpec ==
  /\ Spec
  /\ WF_vars(\E t \in Thread, p \in AnyPacket : Receive(t, p))
  /\ \A id \in 1 .. MaxId :
       WF_vars(id \in Table!Live /\ Table!Finish(id)
               /\ UNCHANGED <<last_cleanup, stage, packet, answer, garbage>>)
  /\ WF_vars(Table!Tick /\ now' > now /\ UNCHANGED <<last_cleanup, stage, packet, answer, garbage>>)

-----------------------------------------------------------------------------
(* Properties *)

\* The type invariant.
TypeOK ==
  /\ Table!TypeOK
  /\ last_cleanup \in 0 .. MaxTime \union {Never}
  /\ stage \in [Thread -> {"free", "due", "sweeping", "handle", "protocol", "locked"}]
  /\ packet \in [Thread -> Packet]
  /\ answer \in [Thread -> Outcome]
  /\ garbage \in [Thread -> SUBSET (1 .. MaxId)]

\* When a thread has swept the table, whatever was removable at the moment it
\* decided to sweep is gone, except what another thread asked for meanwhile:
\* a poll that found its request fresh may renew it after that moment
\* (operator(), CleanUpExpiredRequests, AsyncInvokeServer::Poll).
SweepRemovesGarbage ==
  [][\A t \in Thread :
       stage[t] = "sweeping" /\ stage'[t] # "sweeping" => garbage[t] \intersect Table!Live = {}]_vars

\* Every packet is answered, whatever other threads do with the table meanwhile.
PacketsAnswered == \A t \in Thread : stage[t] # "free" ~> stage[t] = "free"

\* A finished request that nobody needs is reclaimed within the time that the
\* sweeps are apart, as long as packets arrive; MaxTime bounds the clock.
GarbageReclaimed ==
  \A id \in 1 .. MaxId :
    (id \in Table!Live /\ Table!IsReadyForRemoval(id) /\ now + CleanUpInterval < MaxTime)
      ~> ~(id \in Table!Live /\ Table!IsReadyForRemoval(id))

=============================================================================
