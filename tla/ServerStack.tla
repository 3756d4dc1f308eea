----------------------------- MODULE ServerStack -----------------------------
(***************************************************************************)
(* The life of an RPCLoggingServerStack                                    *)
(* (factory/rpc_logging_server_stack.cpp), as CreateRPCServerStack makes   *)
(* it from a protocol: its members m_protocol, m_functor and m_rpc_server  *)
(* are constructed in this order and destroyed in the reverse order, while *)
(* threads of the network layer call the functor, a ProtocolRPCServer      *)
(* whose state and actions are those of the instance Server, and its       *)
(* workers call the protocol.                                              *)
(*                                                                         *)
(* m_rpc_server belongs to the network layer.  It may serve as soon as it  *)
(* is constructed; when it is destroyed, it takes no new calls and waits   *)
(* for those in progress.                                                  *)
(*                                                                         *)
(* An operator named Bug_X is X with a plausible mistake in it; it is not  *)
(* part of the model and serves to show that the properties notice it.     *)
(***************************************************************************)
EXTENDS Naturals

CONSTANTS
  Thread, NoThread, Expiration, TimeModulus, MaxTime, MaxId, LaunchMayFail, ClockMayStepBack,
  CleanUpInterval, PacketKinds, Never   \* of the server

VARIABLES
  now, invokes, last_id, mtx, pc, reply, issued,    \* of the table
  last_cleanup, stage, packet, answer, garbage,     \* of the server
  alive,   \* the members that exist
  phase    \* the member that is constructed ("+") or destroyed ("-") next

Server == INSTANCE ProtocolRPCServer
Table == INSTANCE AsyncInvokeServer

serverVars == <<now, invokes, last_id, mtx, pc, reply, issued, last_cleanup, stage, packet, answer, garbage>>
vars == <<serverVars, alive, phase>>

Init ==
  /\ Server!Init
  /\ alive = {}
  /\ phase = "+protocol"

-----------------------------------------------------------------------------
(* Construction *)

\* A null protocol is refused, and there is no stack.
RefuseProtocol ==
  /\ phase = "+protocol"
  /\ phase' = "down"
  /\ UNCHANGED <<serverVars, alive>>

ConstructProtocol ==
  /\ phase = "+protocol"
  /\ alive' = alive \union {"protocol"} /\ phase' = "+functor"
  /\ UNCHANGED serverVars

ConstructFunctor ==
  /\ phase = "+functor"
  /\ alive' = alive \union {"functor"} /\ phase' = "+rpc_server"
  /\ UNCHANGED serverVars

\* factory_func(*m_functor)
ConstructServer ==
  /\ phase = "+rpc_server"
  /\ alive' = alive \union {"rpc_server"} /\ phase' = "up"
  /\ UNCHANGED serverVars

\* factory_func throws: the members that exist are destroyed.
FactoryThrows ==
  /\ phase = "+rpc_server"
  /\ phase' = "-functor"
  /\ UNCHANGED <<serverVars, alive>>

-----------------------------------------------------------------------------
(* Destruction *)

\* As if m_functor were declared after m_rpc_server.
Bug_Destroy ==
  /\ phase = "up"
  /\ phase' = "-functor"
  /\ UNCHANGED <<serverVars, alive>>

\* The owner destroys the stack.
Destroy ==
  /\ phase = "up"
  /\ phase' = "-rpc_server"
  /\ UNCHANGED <<serverVars, alive>>

\* As if m_protocol were declared after m_functor.
Bug_DestroyServer ==
  /\ phase = "-rpc_server"
  /\ \A t \in Thread : stage[t] = "free"
  /\ alive' = alive \ {"rpc_server"} /\ phase' = "-protocol"
  /\ UNCHANGED serverVars

DestroyServer ==
  /\ phase = "-rpc_server"
  /\ \A t \in Thread : stage[t] = "free"
  /\ alive' = alive \ {"rpc_server"} /\ phase' = "-functor"
  /\ UNCHANGED serverVars

\* ~ProtocolRPCServer begins.
DestroyFunctor ==
  /\ phase = "-functor"
  /\ alive' = alive \ {"functor"} /\ phase' = "-invokes"
  /\ UNCHANGED serverVars

\* Destroys only what a sweep would remove.
Bug_DestroyInvoke ==
  /\ phase = "-invokes"
  /\ \E id \in Table!Live : Table!IsReadyForRemoval(id) /\ invokes' = Table!Erase(id)
  /\ UNCHANGED <<now, last_id, mtx, pc, reply, issued, last_cleanup, stage, packet, answer, garbage>>
  /\ UNCHANGED <<alive, phase>>

\* ~AsyncInvokeServer destroys its map: the future in each entry waits for the worker.
DestroyInvoke ==
  /\ phase = "-invokes"
  /\ \E id \in Table!Live : Table!IsFinished(id) /\ invokes' = Table!Erase(id)
  /\ UNCHANGED <<now, last_id, mtx, pc, reply, issued, last_cleanup, stage, packet, answer, garbage>>
  /\ UNCHANGED <<alive, phase>>

DestroyTable ==
  /\ phase = "-invokes" /\ Table!Live = {}
  /\ phase' = "-protocol"
  /\ UNCHANGED <<serverVars, alive>>

DestroyProtocol ==
  /\ phase = "-protocol"
  /\ alive' = alive \ {"protocol"} /\ phase' = "down"
  /\ UNCHANGED serverVars

-----------------------------------------------------------------------------

\* A packet arrives, and the functor is called.
Receive(t) ==
  /\ phase = "up"
  /\ \E p \in Server!AnyPacket : Server!Receive(t, p)
  /\ UNCHANGED <<alive, phase>>

Handler(t) == Server!Handler(t) /\ UNCHANGED <<alive, phase>>

\* The worker of a request: Protocol::Invoke returns or throws.
WorkerEnds(id) ==
  /\ id \in Table!Live /\ Table!Finish(id)
  /\ UNCHANGED <<last_cleanup, stage, packet, answer, garbage, alive, phase>>

Clock ==
  /\ Table!Tick
  /\ UNCHANGED <<last_cleanup, stage, packet, answer, garbage, alive, phase>>

StackStep ==
  \/ DestroyServer \/ DestroyFunctor \/ DestroyInvoke \/ DestroyTable \/ DestroyProtocol

Next ==
  \/ RefuseProtocol \/ ConstructProtocol \/ ConstructFunctor \/ ConstructServer \/ FactoryThrows
  \/ Destroy \/ StackStep
  \/ \E t \in Thread : Receive(t) \/ Handler(t)
  \/ \E id \in 1 .. MaxId : WorkerEnds(id)
  \/ Clock

\* Threads run, m_mtx is not withheld for ever, and the protocol returns.
Spec ==
  /\ Init /\ [][Next]_vars
  /\ WF_vars(StackStep)
  /\ \A t \in Thread : SF_vars(Handler(t))
  /\ \A id \in 1 .. MaxId : WF_vars(WorkerEnds(id))

-----------------------------------------------------------------------------
(* Properties *)

\* A thread of the network layer inside operator() never finds the functor destroyed
\* or under destruction (order of the members of RPCLoggingServerStack).
CallsFindFunctor == \A t \in Thread : stage[t] # "free" => "functor" \in alive

\* Whoever is calling the protocol, the worker of a request or the thread of a
\* synchronous call, finds it alive, also when the stack is destroyed meanwhile
\* (AsyncInvokeImpl captures a reference to it).
ProtocolOutlivesItsCallers ==
  (\/ \E id \in Table!Live : invokes[id].future = "running"
   \/ \E t \in Thread : stage[t] = "protocol") => "protocol" \in alive

\* Destruction comes to an end, whatever calls and workers were in progress, if the
\* protocol returns from each.
DestructionEnds == phase = "-rpc_server" ~> phase = "down"

=============================================================================
