---------------------------- MODULE RPCExchange ----------------------------
(***************************************************************************)
(* One exchange of packets: a client composes a request, or a stranger     *)
(* sends whatever it likes; ProtocolRPCServer and AsyncInvokeServer answer *)
(* it (base/protocol_rpc_server.cpp, base/async_invoke_server.cpp); the    *)
(* client takes the answer apart (base/protocol_rpc_client.cpp,            *)
(* base/async_invocation.cpp).  What the application protocol and the      *)
(* table of requests say is the variable did, chosen freely; their         *)
(* behaviour over time is the subject of ProtocolRPCServer and RPCSystem.  *)
(*                                                                         *)
(* An operator named Bug_X is X with a plausible mistake in it; it is not  *)
(* part of the model and serves to show that the properties notice it.     *)
(***************************************************************************)
EXTENDS RPCPackets

CONSTANTS
  Id,            \* identifiers of asynchronous requests
  Input, Output, \* AnyValues that applications exchange
  ResultCode,    \* results of the application protocol
  StrangePacket  \* packets a stranger may send

ASSUME IdAssumption == 0 \notin Id
ASSUME ResultAssumption == Success \in ResultCode
ASSUME EmptyAssumption == EmptyValue \in Output /\ EmptyValue \notin Input

\* There is one empty AnyValue.
ASSUME OutputAssumption == \A v \in Output : Is(v, "empty") => v = EmptyValue

VARIABLES
  step,      \* who is next
  op,        \* the operation of the client, or "none" for a stranger
  fits,      \* whether a payload converts to the type of the caller's output
  request, reply,
  did,       \* what the protocol and the table said
  outcome    \* what the client's operation returned

vars == <<step, op, fits, request, reply, did, outcome>>

Operation == {"Invoke", "Service", "Info", "Start", "PollOnce", "GetReply", "Invalidate"}

\* threw: the protocol threw; refusal: the error that the table answers instead; legacy: the
\* server is one that does not know the field async.
Did == [result : ResultCode, output : Output, threw : BOOLEAN, id : Id, ready : BOOLEAN,
        refusal : {Success, InvalidRequestIdentifierError, InvalidAsynchronousOperationError},
        legacy : BOOLEAN]

Nothing == [nothing |-> TRUE]

Init ==
  /\ step = "client" /\ op = "none" /\ fits = TRUE
  /\ request = << >> /\ reply = << >> /\ did = Nothing /\ outcome = Nothing

-----------------------------------------------------------------------------
(* The client composes a request. *)

RequestOf(o, v, id, e) ==
  CASE o = "Invoke" -> CreateRPCRequest(v, e)
    [] o = "Service" -> CreateServiceRequest(v, e)
    [] o = "Info" -> CreateServiceRequest(CreateApplicationProtocolRequestPayload, e)
    [] o = "Start" -> CreateAsyncRPCRequest(v, e)
    [] o = "PollOnce" -> CreateAsyncRPCCommand(id, e, kPoll)
    [] o = "GetReply" -> CreateAsyncRPCCommand(id, e, kGetReply)
    [] o = "Invalidate" -> CreateAsyncRPCCommand(id, e, kInvalidate)

Send(o, p) ==
  /\ step = "client"
  /\ step' = "server"
  /\ op' = o
  /\ request' = p
  /\ UNCHANGED <<reply, did, outcome>>

Compose ==
  \E o \in Operation, v \in Input, id \in Id, e \in {kNone, kBase64} :
    Send(o, RequestOf(o, v, id, e)) /\ fits' \in IF o = "Info" THEN {TRUE} ELSE BOOLEAN

Strange == \E p \in StrangePacket : Send("none", p) /\ fits' = TRUE

-----------------------------------------------------------------------------
(* The server answers it. *)

\* AsyncInvokeServer::HandleInvoke, with payload v, encoding e and command c.
HandleInvoke(v, e, c, d) ==
  IF c = kInitialRequest
    THEN CreateAsyncRPCNewRequestReply(d.id, e)
    ELSE IF ~HasMember(v, "id", "uint64")
      THEN CreateAsyncRPCReply(ServerTransportDecodingError, EmptyValue, kNone, c)
      ELSE IF c \notin {kPoll, kGetReply, kInvalidate}
        THEN CreateAsyncRPCReply(InvalidAsynchronousOperationError, EmptyValue, kNone, c)
        ELSE IF d.refusal # Success
          THEN CreateAsyncRPCReply(d.refusal, EmptyValue, kNone, c)
          ELSE CASE c = kPoll -> CreateAsyncRPCPollReply(d.ready, e)
                 [] c = kGetReply ->
                      IF d.threw
                        THEN CreateAsyncRPCReply(ServerProtocolException, EmptyValue, e, c)
                        ELSE CreateAsyncRPCReply(d.result, d.output, e, c)
                 [] c = kInvalidate -> CreateAsyncRPCReply(Success, EmptyValue, kNone, c)

\* What the protocol returned or threw, as the reply of a synchronous request.
DirectReply(e, d) ==
  IF d.threw THEN ErrorReply(ServerProtocolException) ELSE CreateRPCReply(d.result, d.output, e)

HandleServiceRequest(p, e, d) ==
  IF ~HasPayload(p, "service", e)
    THEN ErrorReply(ServerTransportDecodingError)
    ELSE IF d.threw
      THEN CreateServiceReply(ServerProtocolException, EmptyValue, kNone)
      ELSE CreateServiceReply(d.result, d.output, e)

\* Does not check the format of the packet.
Bug_HandleInvokeRequest(p, e, d) ==
  IF ~HasPayload(p, "query", e)
    THEN ErrorReply(ServerTransportDecodingError)
    ELSE IF IsAsync(p) /\ ~d.legacy
      THEN HandleInvoke(Payload(p, "query", e), e, p["async"].uint32, d)
      ELSE DirectReply(e, d)

HandleInvokeRequest(p, e, d) ==
  IF ~CheckRequestFormat(p) \/ ~HasPayload(p, "query", e)
    THEN ErrorReply(ServerTransportDecodingError)
    ELSE IF IsAsync(p) /\ ~d.legacy
      THEN HandleInvoke(Payload(p, "query", e), e, p["async"].uint32, d)
      ELSE DirectReply(e, d)

\* ProtocolRPCServer::operator()
ReplyTo(p, d) ==
  IF ~HasPacketEncoding(p)
    THEN ErrorReply(ServerUnsupportedPayloadEncodingError)
    ELSE IF CheckServiceRequest(p)
      THEN HandleServiceRequest(p, PacketEncoding(p), d)
      ELSE HandleInvokeRequest(p, PacketEncoding(p), d)

Serve ==
  /\ step = "server"
  /\ \E d \in Did : did' = d /\ reply' = ReplyTo(request, d)
  /\ step' = IF op = "none" THEN "end" ELSE "answer"
  /\ UNCHANGED <<op, fits, request, outcome>>

-----------------------------------------------------------------------------
(* The client takes the answer apart. *)

DecodingError == [result |-> ClientTransportDecodingError]

\* The reply has a payload that cannot be decoded, or not assigned to output.
Unusable(p) ==
  /\ Has(p, "reply")
  /\ \/ ~HasPacketEncoding(p)
     \/ ~HasPayload(p, "reply", PacketEncoding(p))
     \/ ~fits /\ ~Is(Payload(p, "reply", PacketEncoding(p)), "empty")

\* HandleSyncInvokeReply and its like: the result, and the output if there is one.
DecodeReply(p) ==
  IF ~HasProtocolResult(p) \/ (ExtractedResult(p) = Success /\ Unusable(p))
    THEN DecodingError
    ELSE [result |-> ExtractedResult(p),
          output |-> IF ExtractedResult(p) = Success /\ Has(p, "reply")
                       THEN Payload(p, "reply", PacketEncoding(p))
                       ELSE EmptyValue]

HasReplyMember(p, m, t) ==
  /\ HasPacketEncoding(p)
  /\ HasPayload(p, "reply", PacketEncoding(p))
  /\ HasMember(Payload(p, "reply", PacketEncoding(p)), m, t)

ReplyMember(p, m) == Payload(p, "reply", PacketEncoding(p)).struct[m]

\* DecodeReply of a reply that an AsyncInvocation kept.
AsyncDecodeReply(p) == IF CheckReplyFormat(p) THEN DecodeReply(p) ELSE DecodingError

\* AsyncInvocation::Start; a synchronous answer is kept and decoded by GetReply.
StartOutcome(p) ==
  IF ~IsAsync(p)
    THEN AsyncDecodeReply(p)
    ELSE IF HasReplyMember(p, "id", "uint64") /\ ReplyMember(p, "id").uint64 # 0
      THEN [result |-> Success, id |-> ReplyMember(p, "id").uint64]
      ELSE DecodingError

PollOutcome(p) ==
  IF HasReplyMember(p, "ready", "bool")
    THEN [result |-> Success, ready |-> ReplyMember(p, "ready").bool]
    ELSE DecodingError

ServiceOutcome(p) == IF CheckServiceReplyFormat(p) THEN DecodeReply(p) ELSE DecodingError

\* GetApplicationProtocolInfo: the two names, or none.
InfoOf(r) ==
  IF r.result = Success /\ CheckApplicationProtocolReplyPayload(r.output)
    THEN [type |-> r.output.struct["application_type"].string.plain,
          version |-> r.output.struct["application_version"].string.plain]
    ELSE [type |-> "", version |-> ""]

OutcomeOf(o, p) ==
  CASE o = "Invoke" -> IF CheckReplyFormat(p) THEN DecodeReply(p) ELSE DecodingError
    [] o = "Service" -> ServiceOutcome(p)
    [] o = "Info" -> InfoOf(ServiceOutcome(p))
    [] o = "Start" -> StartOutcome(p)
    [] o = "PollOnce" -> PollOutcome(p)
    [] o = "GetReply" -> DecodeReply(p)
    [] o = "Invalidate" -> Nothing

Receive ==
  /\ step = "answer"
  /\ step' = "end"
  /\ outcome' = OutcomeOf(op, reply)
  /\ UNCHANGED <<op, fits, request, reply, did>>

Next == Compose \/ Strange \/ Serve \/ Receive

Spec == Init /\ [][Next]_vars

-----------------------------------------------------------------------------
(* Properties *)

\* What a direct call of the protocol gives, whose output must fit the caller's.
DirectOutcome ==
  IF did.threw
    THEN [result |-> ServerProtocolException, output |-> EmptyValue]
    ELSE IF did.result # Success
      THEN [result |-> did.result, output |-> EmptyValue]
      ELSE IF ~fits /\ did.output # EmptyValue
        THEN DecodingError
        ELSE [result |-> Success, output |-> did.output]

Done(o) == op = o /\ step = "end"

\* A call through the two packets gives what the direct call would give: Invoke,
\* Service, the asynchronous GetReply, and Start at a server that answers it
\* synchronously, in either encoding.
CallsAreTransparent ==
  /\ Done("Invoke") \/ Done("Service") \/ (Done("Start") /\ did.legacy) => outcome = DirectOutcome
  /\ Done("GetReply") /\ ~did.legacy =>
       outcome = IF did.refusal = Success
                   THEN DirectOutcome
                   ELSE [result |-> did.refusal, output |-> EmptyValue]

\* GetApplicationProtocolInfo through a client gives what it gives of the protocol
\* itself, and the protocol recognizes the request for it as such.
InfoIsTransparent ==
  /\ Done("Info") => outcome = InfoOf(DirectOutcome)
  /\ \A info \in HandleApplicationProtocolInfo({}, EmptyValue, "type", "1.0") :
       Done("Info") /\ ~did.threw /\ did.result = info.result /\ did.output = info.output
         => outcome = [type |-> "type", version |-> "1.0"]
  /\ op = "Info" =>
       IsApplicationProtocolRequestPayload(Payload(request, "service", PacketEncoding(request)))

\* The client learns its identifier and whether the reply is ready, as the table
\* gave them (Start, PollOnce, CreateAsyncRPCNewRequestReply, CreateAsyncRPCPollReply).
AsyncAnswersUnderstood ==
  /\ Done("Start") /\ ~did.legacy => outcome = [result |-> Success, id |-> did.id]
  /\ Done("PollOnce") /\ ~did.legacy /\ did.refusal = Success =>
       outcome = [result |-> Success, ready |-> did.ready]

\* Whatever arrives, the answer is a reply that both kinds of client accept, and its
\* payload can be decoded as it says; a packet that is not a proper request never
\* reaches the protocol or the table: its answer is one of the server's errors.
StrangersAreAnswered ==
  (op = "none" /\ did # Nothing) =>
    /\ CheckReplyFormat(reply) /\ CheckServiceReplyFormat(reply)
    /\ HasPacketEncoding(reply)
    /\ Has(reply, "reply") => HasPayload(reply, "reply", PacketEncoding(reply))
    /\ ~CheckRequestFormat(request) /\ ~CheckServiceRequest(request) =>
         ExtractedResult(reply) \in {ServerTransportDecodingError,
                                     ServerUnsupportedPayloadEncodingError}

=============================================================================
