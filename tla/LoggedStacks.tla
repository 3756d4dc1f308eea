---------------------------- MODULE LoggedStacks ----------------------------
(***************************************************************************)
(* One call through a client stack and a server stack with loggers         *)
(* (factory/rpc_logging_client_stack.cpp, rpc_logging_server_stack.cpp,    *)
(* decorators/log_protocol_decorator.cpp, log_any_functor_decorator.cpp):  *)
(*                                                                         *)
(*   LogProtocolDecorator > ProtocolRPCClient > LogAnyFunctorDecorator     *)
(*     > network > LogAnyFunctorDecorator > ProtocolRPCServer              *)
(*     > LogProtocolDecorator > Protocol                                   *)
(*                                                                         *)
(* or, in stacks made of a functor, only the part between the two          *)
(* LogAnyFunctorDecorators.  Any logger may be missing, and any may throw. *)
(* The stacks keep nothing that calls share, so one call is enough; in an  *)
(* asynchronous one the protocol runs in a thread of its own.              *)
(*                                                                         *)
(* An operator named Bug_X is X with a plausible mistake in it; it is not  *)
(* part of the model and serves to show that the properties notice it.     *)
(***************************************************************************)
EXTENDS Naturals, Sequences, ProtocolResults

CONSTANTS
  AppResult, \* what the protocol may return: Success and codes of applications
  MaxPolls   \* bound: polls of an asynchronous call

\* Assumed: so it may.
AppResultAssumption ==
  AppResult \subseteq {Success} \union {r \in Nat : r >= GENERIC_APPLICATION_ERROR_START}

VARIABLES
  stack,       \* "protocol", or "functor" for stacks made of a functor
  m_async,     \* of the client's configuration
  loggers,     \* the functions the stacks were given
  op,          \* the operation the application calls
  pc,          \* where the calling thread is
  packet,      \* the request, and then the reply, that is under way
  result,      \* what the client stack returns
  polls,       \* number of polls
  inner,       \* where the protocol is
  inner_op, inner_result,   \* the operation that runs there, and its result
  invoked,     \* history: the operations of the protocol that were called
  log,         \* what each logger logged
  threw        \* history: the loggers and parts that threw

stacks == <<stack, m_async, loggers, op>>
outer == <<pc, packet, result, polls>>
protocol == <<inner, inner_op, inner_result, invoked>>
vars == <<stacks, outer, protocol, log, threw>>

\* LoggingFunctions of the client and of the server.
Logger == {"client_input", "client_output", "client_network",
           "server_input", "server_output", "server_network"}

Request(command) == [command |-> command, result |-> Success, ready |-> FALSE]
Reply(command, r, b) == [command |-> command, result |-> r, ready |-> b]

\* A stack of functors takes packets, so that the call is in its logger at once.
Init ==
  /\ stack \in {"protocol", "functor"}
  /\ m_async \in BOOLEAN
  /\ loggers \in SUBSET Logger
  /\ op \in {"Invoke", "Service"}
  /\ pc = IF stack = "functor" THEN "functor" ELSE "input"
  /\ packet = Request("plain")
  /\ result = Success
  /\ polls = 0
  /\ inner = "none" /\ inner_op = "none" /\ inner_result = Success /\ invoked = << >>
  /\ log = [l \in Logger |-> << >>]
  /\ threw = {}

GoTo(p) == pc' = p /\ UNCHANGED <<packet, result, polls>>

\* The logs after a step in which a logger, if there is one, logs what it is told.
Logged(logger, what) ==
  IF logger \in loggers THEN [log EXCEPT ![logger] = Append(@, what)] ELSE log

-----------------------------------------------------------------------------
(* LogAnyFunctorDecorator, on both sides, and the network. *)

\* ProtocolRPCClient does not catch it.
Bug_FunctorThrows(who) == threw' = threw \union {who} /\ GoTo("threw")

\* The client's functor throws: ProtocolRPCClient catches it, and returns to the
\* LogProtocolDecorator; a stack made of a functor lets it pass.
FunctorThrows(who) ==
  /\ threw' = threw \union {who}
  /\ IF stack = "functor" THEN GoTo("threw")
     ELSE pc' = "output" /\ result' = ClientTransportException /\ UNCHANGED <<packet, polls>>

LogPacket(from, logger, direction, to) ==
  /\ pc = from
  /\ \/ GoTo(to) /\ log' = Logged(logger, <<direction, packet>>) /\ UNCHANGED threw
     \/ logger \in loggers /\ FunctorThrows(logger) /\ UNCHANGED log
  /\ UNCHANGED <<stacks, protocol>>

ClientFunctorInput == LogPacket("functor", "client_network", "kInput", "request")
ServerFunctorInput == LogPacket("arrived", "server_network", "kInput", "server")
ServerFunctorOutput == LogPacket("server_reply", "server_network", "kOutput", "reply")
ClientFunctorOutput ==
  LogPacket("functor_reply", "client_network", "kOutput", IF stack = "functor" THEN "returned" ELSE "client_reply")

\* The network delivers a packet or throws; an exception of the server's functor
\* reaches the client as one, too.
Network(from, to) ==
  /\ pc = from
  /\ \/ GoTo(to) /\ UNCHANGED threw
     \/ FunctorThrows("network")
  /\ UNCHANGED <<stacks, protocol, log>>

-----------------------------------------------------------------------------
(* LogProtocolDecorator *)

\* LogInput and LogOutput of the client's.
ClientInput ==
  /\ pc = "input"
  /\ \/ GoTo("client") /\ log' = Logged("client_input", op) /\ UNCHANGED threw
     \/ "client_input" \in loggers /\ GoTo("threw") /\ threw' = threw \union {"client_input"} /\ UNCHANGED log
  /\ UNCHANGED <<stacks, protocol>>

ClientOutput ==
  /\ pc = "output"
  /\ \/ GoTo("returned") /\ log' = Logged("client_output", <<op, result>>) /\ UNCHANGED threw
     \/ "client_output" \in loggers /\ GoTo("threw") /\ threw' = threw \union {"client_output"} /\ UNCHANGED log
  /\ UNCHANGED <<stacks, protocol>>

InnerThrows(who) == inner' = "threw" /\ threw' = threw \union {who} /\ UNCHANGED log

\* LogInput of the server's, the protocol, and LogOutput.
ServerInput ==
  /\ inner = "input"
  /\ \/ inner' = "protocol" /\ log' = Logged("server_input", inner_op) /\ UNCHANGED threw
     \/ "server_input" \in loggers /\ InnerThrows("server_input")
  /\ UNCHANGED <<stacks, outer, inner_op, inner_result, invoked>>

Protocol ==
  /\ inner = "protocol"
  /\ invoked' = Append(invoked, inner_op)
  /\ \/ inner' = "output" /\ inner_result' \in AppResult /\ UNCHANGED <<log, threw>>
     \/ InnerThrows("protocol") /\ UNCHANGED inner_result
  /\ UNCHANGED <<stacks, outer, inner_op>>

ServerOutput ==
  /\ inner = "output"
  /\ \/ inner' = "returned" /\ log' = Logged("server_output", <<inner_op, inner_result>>) /\ UNCHANGED threw
     \/ "server_output" \in loggers /\ InnerThrows("server_output")
  /\ UNCHANGED <<stacks, outer, inner_op, inner_result, invoked>>

-----------------------------------------------------------------------------
(* ProtocolRPCServer, or the functor in its place *)

\* What became of the protocol, in this thread or in that of the request.
Outcome == IF inner = "threw" THEN ServerProtocolException ELSE inner_result

Ended == inner \in {"returned", "threw"}

\* HandleServiceRequest calls Invoke.
Bug_Asked(p) == "Invoke"

\* The operation that a packet asks for.
Asked(p) == IF p.command = "service" THEN "Service" ELSE "Invoke"

\* Starts the protocol, or does not.
Begins == inner' = "input" /\ inner_op' = Asked(packet)
BeginsNot == UNCHANGED <<inner, inner_op>>

\* operator() calls the protocol, in this thread or in a new one, or asks for the
\* state of a request.
Serve ==
  /\ stack = "protocol" /\ pc = "server"
  /\ \/ packet.command \in {"plain", "service"} /\ Begins /\ pc' = "protocol" /\ UNCHANGED packet
     \/ /\ pc' = "server_reply"
        /\ \/ packet.command = "new" /\ Begins /\ packet' = Reply("new", Success, FALSE)
           \/ packet.command = "poll" /\ BeginsNot /\ packet' = Reply("poll", Success, Ended)
           \/ packet.command = "get" /\ BeginsNot /\ packet' = Reply("get", Outcome, TRUE)
  /\ UNCHANGED <<stacks, result, polls, inner_result, invoked, log, threw>>

\* HandleInvokeRequest and HandleServiceRequest go on after the protocol.
Answer ==
  /\ pc = "protocol" /\ Ended
  /\ packet' = Reply(packet.command, Outcome, TRUE)
  /\ pc' = "server_reply"
  /\ UNCHANGED <<stacks, result, polls, protocol, log, threw>>

\* A functor in place of the ProtocolRPCServer answers or throws.
Functor ==
  /\ stack = "functor" /\ pc = "server"
  /\ invoked' = Append(invoked, "functor")
  /\ \/ /\ \E r \in AppResult : packet' = Reply("plain", r, TRUE)
        /\ pc' = "server_reply" /\ UNCHANGED <<result, polls, threw>>
     \/ FunctorThrows("functor")
  /\ UNCHANGED <<stacks, inner, inner_op, inner_result, log>>

-----------------------------------------------------------------------------
(* ProtocolRPCClient *)

Send(command) == pc' = "functor" /\ packet' = Request(command)

\* Returns to the LogProtocolDecorator.
Yields(r) == pc' = "output" /\ result' = r /\ UNCHANGED <<packet, polls>>

\* Invoke and Service, with an empty input or another.
Call ==
  /\ pc = "client"
  /\ \/ Yields(ClientTransportEncodingError)
     \/ /\ Send(IF op = "Service" THEN "service" ELSE IF m_async THEN "new" ELSE "plain")
        /\ UNCHANGED <<result, polls>>
  /\ UNCHANGED <<stacks, protocol, log, threw>>

\* HandleSyncInvoke, Service and HandleAsyncInvoke go on after an answer.
Receive ==
  /\ pc = "client_reply"
  /\ UNCHANGED <<stacks, protocol, log, threw>>
  /\ \/ packet.command \in {"plain", "service", "get"} /\ Yields(packet.result)
     \/ packet.command = "new" /\ Send("poll") /\ UNCHANGED <<result, polls>>
     \/ packet.command = "poll" /\ packet.ready /\ Send("get") /\ UNCHANGED <<result, polls>>
     \/ packet.command = "poll" /\ ~packet.ready
          /\ \/ Yields(AsynchronousProtocolTimeout)
             \/ polls < MaxPolls /\ Send("poll") /\ polls' = polls + 1 /\ UNCHANGED result

-----------------------------------------------------------------------------

Next ==
  \/ ClientInput \/ Call \/ ClientFunctorInput
  \/ Network("request", "arrived")
  \/ ServerFunctorInput \/ Serve \/ Functor \/ Answer \/ ServerFunctorOutput
  \/ Network("reply", "functor_reply")
  \/ ClientFunctorOutput \/ Receive \/ ClientOutput
  \/ ServerInput \/ Protocol \/ ServerOutput

Spec == Init /\ [][Next]_vars

-----------------------------------------------------------------------------
(* Properties *)

\* What a logger that logs s once has logged, if there is one.
Tells(logger, s) == logger \in loggers => log[logger] = << s >>

\* When a call returns a result of the protocol, and not an error of the layers
\* between, then nothing threw on the way, the protocol was called once, with the
\* operation that the application called, the loggers of both protocols logged that
\* operation and that result, and those of both networks the same packets, in the
\* same order (LogProtocolDecorator, LogAnyFunctorDecorator, the two stacks).
LogsAgree ==
  (pc = "returned" /\ stack = "protocol" /\ result \in AppResult) =>
    /\ threw = {} /\ invoked = <<op>>
    /\ Tells("client_input", op) /\ Tells("server_input", op)
    /\ Tells("client_output", <<op, result>>) /\ Tells("server_output", <<op, result>>)
    /\ {"client_network", "server_network"} \subseteq loggers => log["client_network"] = log["server_network"]

\* Exceptions go where they belong: the application gets one from the protocol's own
\* loggers only, the network's and its loggers' become ClientTransportException, and
\* those of the server's protocol and its loggers ServerProtocolException, in a thread
\* of a request, too; nothing else gives these codes.  Stacks made of a functor let
\* them all pass.
ExceptionsAreContained ==
  IF stack = "functor" THEN (pc = "threw") = (threw # {})
  ELSE /\ pc = "threw" => threw \intersect {"client_input", "client_output"} # {}
       /\ pc = "returned" => threw \intersect {"client_input", "client_output"} = {}
       /\ (pc = "returned" /\ result = ClientTransportException)
            <=> (pc = "returned" /\ threw \intersect {"network", "client_network", "server_network"} # {})
       /\ (pc = "returned" /\ result = ServerProtocolException)
            => threw \intersect {"protocol", "server_input", "server_output"} # {}

=============================================================================
