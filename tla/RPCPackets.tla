----------------------------- MODULE RPCPackets -----------------------------
(***************************************************************************)
(* The packets that client and server exchange: how they are composed,     *)
(* checked and taken apart (base/protocol_rpc.cpp, protocol_encodings.cpp, *)
(* anyvalue_utils.cpp).                                                    *)
(*                                                                         *)
(* An AnyValue is a record with one field, named for its type; of strings  *)
(* only the origin matters, so [string |-> [base64 |-> v]] is the text     *)
(* that encodes v.  A packet is a struct: a function from the names of its *)
(* fields to AnyValues.                                                    *)
(*                                                                         *)
(* An operator named Bug_X is X with a plausible mistake in it; it is not  *)
(* part of the model and serves to show that the properties notice it.     *)
(***************************************************************************)
EXTENDS ProtocolResults

Is(v, t) == t \in DOMAIN v

EmptyValue == [empty |-> 0]

Struct(f) == [struct |-> f]

Has(p, m) == m \in DOMAIN p

\* The fields of a struct with one field.
Member(m, v) == [n \in {m} |-> v]

\* The fields of p, and those of q whose names p does not have: AddMember.
With(p, q) == [n \in DOMAIN p \union DOMAIN q |-> IF n \in DOMAIN p THEN p[n] ELSE q[n]]

ValidateMemberType(p, m, t) == Has(p, m) /\ Is(p[m], t)

ValidateMemberTypeIfPresent(p, m, t) == Has(p, m) => Is(p[m], t)

\* TryAssignIfEmptyOrConvert of sup-dto: what a variable that holds v may hold after the
\* assignment of w; nothing if it is refused.  An empty variable takes any value as it is;
\* another keeps its type.  What converts to what is up to sup-dto: a conversion says that
\* a variable that holds into can take from, and holds to afterwards.
TryAssign(conversions, v, w) ==
  IF Is(v, "empty") THEN {w} ELSE {c.to : c \in {d \in conversions : d.into = v /\ d.from = w}}

-----------------------------------------------------------------------------
(* Payload encodings: 0 is kNone and 1 is kBase64. *)

kNone == 0
kBase64 == 1

IsSupportedPayloadEncoding(e) == e \in {kNone, kBase64}

Encode(v, e) == IF e = kNone THEN v ELSE [string |-> [base64 |-> v]]

\* Decode does not throw.
Decodes(v, e) == e = kBase64 => Is(v, "string") /\ "base64" \in DOMAIN v.string

Decode(v, e) == IF e = kNone THEN v ELSE v.string.base64

\* TryGetPacketEncoding: whether the encoding is understood, and which it is.
HasPacketEncoding(p) ==
  Has(p, "encoding") => Is(p["encoding"], "int32") /\ IsSupportedPayloadEncoding(p["encoding"].int32)

PacketEncoding(p) == IF Has(p, "encoding") THEN p["encoding"].int32 ELSE kNone

\* Forgets to say how the payload is encoded.
Bug_AddRPCPayload(p, v, m, e) == With(p, Member(m, Encode(v, e)))

AddRPCPayload(p, v, m, e) ==
  With(With(p, Member(m, Encode(v, e))), IF e = kNone THEN << >> ELSE Member("encoding", [int32 |-> e]))

\* TryExtractRPCPayload: whether member m holds a payload, and the payload.
HasPayload(p, m, e) == Has(p, m) /\ Decodes(p[m], e)

Payload(p, m, e) == Decode(p[m], e)

\* TryExtractId, ExtractAsyncRequestId and TryExtractReadyStatus of a payload.
HasMember(v, m, t) == Is(v, "struct") /\ ValidateMemberType(v.struct, m, t)

-----------------------------------------------------------------------------
(* Requests *)

\* AsyncCommand
kInitialRequest == 0
kPoll == 1
kGetReply == 2
kInvalidate == 3

CheckRequestFormat(p) ==
  /\ ValidateMemberTypeIfPresent(p, "timestamp", "uint64")
  /\ ValidateMemberTypeIfPresent(p, "encoding", "int32")
  /\ ValidateMemberTypeIfPresent(p, "async", "uint32")
  /\ Has(p, "query")

CheckServiceRequest(p) ==
  /\ ValidateMemberTypeIfPresent(p, "encoding", "int32")
  /\ Has(p, "service")

IsAsync(p) == ValidateMemberType(p, "async", "uint32")

CreateRPCRequest(v, e) == AddRPCPayload(<< >>, v, "query", e)

AsyncField(c) == Member("async", [uint32 |-> c])

CreateAsyncRPCRequest(v, e) == With(CreateRPCRequest(v, e), AsyncField(kInitialRequest))

RequestIdPayload(id) == Struct(Member("id", [uint64 |-> id]))

\* CreateAsyncRPCPoll, CreateAsyncRPCGetReply and CreateAsyncRPCInvalidate.
CreateAsyncRPCCommand(id, e, c) == With(CreateRPCRequest(RequestIdPayload(id), e), AsyncField(c))

CreateServiceRequest(v, e) == AddRPCPayload(<< >>, v, "service", e)

-----------------------------------------------------------------------------
(* The application protocol info, which Service asks for *)

CreateApplicationProtocolRequestPayload == [string |-> [plain |-> "application_protocol_info"]]

IsApplicationProtocolRequestPayload(v) == v = CreateApplicationProtocolRequestPayload

\* For GetApplicationProtocolInfo.
CheckApplicationProtocolReplyPayload(v) ==
  HasMember(v, "application_type", "string") /\ HasMember(v, "application_version", "string")

\* Mixes up the two names.
Bug_CreateApplicationProtocolReplyPayload(type, version) ==
  Struct(With(Member("application_type", [string |-> [plain |-> version]]),
              Member("application_version", [string |-> [plain |-> type]])))

CreateApplicationProtocolReplyPayload(type, version) ==
  Struct(With(Member("application_type", [string |-> [plain |-> type]]),
              Member("application_version", [string |-> [plain |-> version]])))

\* What the Service of an application may return for this request, with an output that
\* holds v, and the conversions of sup-dto.
HandleApplicationProtocolInfo(conversions, v, type, version) ==
  LET taken == TryAssign(conversions, v, CreateApplicationProtocolReplyPayload(type, version))
  IN  IF taken = {}
        THEN {[result |-> ServerProtocolEncodingError, output |-> v]}
        ELSE {[result |-> Success, output |-> o] : o \in taken}

-----------------------------------------------------------------------------
(* Replies *)

CheckReplyFormat(p) ==
  /\ ValidateMemberType(p, "result", "uint32")
  /\ ValidateMemberTypeIfPresent(p, "timestamp", "uint64")
  /\ ValidateMemberTypeIfPresent(p, "encoding", "int32")
  /\ ValidateMemberTypeIfPresent(p, "reason", "string")
  /\ ValidateMemberTypeIfPresent(p, "async", "uint32")

CheckServiceReplyFormat(p) ==
  /\ ValidateMemberType(p, "result", "uint32")
  /\ ValidateMemberTypeIfPresent(p, "encoding", "int32")

\* TryExtractProtocolResult: whether there is a result, and the result.
HasProtocolResult(p) == ValidateMemberType(p, "result", "uint32")

ExtractedResult(p) == p["result"].uint32

ResultField(r) == Member("result", [uint32 |-> r])

\* An empty payload is left out.
CreateRPCReply(r, v, e) ==
  IF Is(v, "empty") THEN ResultField(r) ELSE AddRPCPayload(ResultField(r), v, "reply", e)

\* The fields have the same names as those of other replies.
CreateServiceReply(r, v, e) ==
  IF Is(v, "empty") THEN ResultField(r) ELSE AddRPCPayload(ResultField(r), v, "reply", e)

ErrorReply(r) == CreateRPCReply(r, EmptyValue, kNone)

\* Forgets the command.
Bug_CreateAsyncRPCReply(r, v, e, c) == CreateRPCReply(r, v, e)

CreateAsyncRPCReply(r, v, e, c) == With(CreateRPCReply(r, v, e), AsyncField(c))

CreateAsyncRPCNewRequestReply(id, e) ==
  CreateAsyncRPCReply(Success, Struct(Member("id", [uint64 |-> id])), e, kInitialRequest)

CreateAsyncRPCPollReply(ready, e) ==
  CreateAsyncRPCReply(Success, Struct(Member("ready", [bool |-> ready])), e, kPoll)

=============================================================================
