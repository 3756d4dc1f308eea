------------------------- MODULE RPCExchange_proofs -------------------------
(***************************************************************************)
(* Proofs about RPCExchange: what a client understands of an answer is     *)
(* what the protocol and the table said, for any payload, identifier,      *)
(* result and encoding, and any packet of a stranger is answered by a      *)
(* reply that can be read.                                                 *)
(***************************************************************************)
EXTENDS RPCExchange, TLAPS

Encodings == {kNone, kBase64}

\* Packet q brings payload v in its member m, encoded as e.
Carries(q, m, v, e) ==
  /\ HasPacketEncoding(q) /\ PacketEncoding(q) = e
  /\ HasPayload(q, m, e) /\ Payload(q, m, e) = v
  /\ ValidateMemberTypeIfPresent(q, "encoding", "int32")

\* Nothing but the payload and its encoding is added to packet p.
Extends(q, p, m) ==
  /\ DOMAIN p \subseteq DOMAIN q
  /\ DOMAIN q \subseteq DOMAIN p \union {m, "encoding"}
  /\ \A n \in DOMAIN p : q[n] = p[n]

-----------------------------------------------------------------------------
(* Packets *)

\* An encoded value is decoded (encoding::Encode, encoding::Decode).
LEMMA EncodedIsDecoded ==
  ASSUME NEW v, NEW e \in Encodings
  PROVE  Decodes(Encode(v, e), e) /\ Decode(Encode(v, e), e) = v
  BY DEF Encodings, Decodes, Decode, Encode, Is, kNone, kBase64

\* A payload that is added to a packet is in it, whatever else is
\* (utils::AddRPCPayload, TryExtractRPCPayload).
LEMMA AddedIsCarried ==
  ASSUME NEW p, NEW v, NEW m, NEW e \in Encodings,
         m # "encoding", m \notin DOMAIN p, "encoding" \notin DOMAIN p
  PROVE  /\ Carries(AddRPCPayload(p, v, m, e), m, v, e)
         /\ Extends(AddRPCPayload(p, v, m, e), p, m)
<1> DEFINE x == Encode(v, e)
           q == AddRPCPayload(p, v, m, e)
<1>1. Decodes(x, e) /\ Decode(x, e) = v
  BY EncodedIsDecoded
<1> HIDE DEF x
<1>2. CASE e = kNone
  <2>1. q = With(With(p, Member(m, x)), << >>)
    BY <1>2 DEF AddRPCPayload, x
  <2>2. DOMAIN q = DOMAIN p \union {m} /\ q[m] = x /\ \A n \in DOMAIN p : q[n] = p[n]
    BY <2>1 DEF With, Member
  <2> HIDE DEF q
  <2>3. Carries(q, m, v, e)
    BY <1>1, <1>2, <2>2 DEF Carries, HasPacketEncoding, PacketEncoding, HasPayload, Payload, Has,
                            ValidateMemberTypeIfPresent, Encodings
  <2> QED BY <2>2, <2>3 DEF Extends, q
<1>3. CASE e # kNone
  <2>1. q = With(With(p, Member(m, x)), Member("encoding", [int32 |-> e]))
    BY <1>3 DEF AddRPCPayload, x
  <2>2. /\ DOMAIN q = DOMAIN p \union {m, "encoding"}
        /\ q[m] = x /\ q["encoding"] = [int32 |-> e] /\ \A n \in DOMAIN p : q[n] = p[n]
    BY <2>1 DEF With, Member
  <2> HIDE DEF q
  <2>3. Carries(q, m, v, e)
    BY <1>1, <2>2 DEF Carries, HasPacketEncoding, PacketEncoding, HasPayload, Payload, Has, Is,
                      ValidateMemberTypeIfPresent, IsSupportedPayloadEncoding, Encodings, kNone, kBase64
  <2> QED BY <2>2, <2>3 DEF Extends, q
<1> QED BY <1>2, <1>3

\* The field async changes nothing else.
LEMMA CommandIsAdded ==
  ASSUME NEW p, NEW c, "async" \notin DOMAIN p
  PROVE  LET q == With(p, AsyncField(c))
         IN  /\ DOMAIN q = DOMAIN p \union {"async"}
             /\ \A n \in DOMAIN p : q[n] = p[n]
             /\ IsAsync(q) /\ q["async"].uint32 = c
             /\ \A m, v, e : Carries(p, m, v, e) => Carries(q, m, v, e)
<1> DEFINE q == With(p, AsyncField(c))
<1>1. /\ DOMAIN q = DOMAIN p \union {"async"} /\ q["async"] = [uint32 |-> c]
      /\ \A n \in DOMAIN p : q[n] = p[n]
  BY DEF With, AsyncField, Member
<1> HIDE DEF q
<1>2. IsAsync(q) /\ q["async"].uint32 = c
  BY <1>1 DEF IsAsync, ValidateMemberType, Has, Is
<1>3. \A m, v, e : Carries(p, m, v, e) => Carries(q, m, v, e)
  <2> SUFFICES ASSUME NEW m, NEW v, NEW e, Carries(p, m, v, e) PROVE Carries(q, m, v, e)
    OBVIOUS
  <2>1. Has(q, "encoding") <=> Has(p, "encoding")
    BY <1>1 DEF Has
  <2>2. Has(p, "encoding") => q["encoding"] = p["encoding"]
    BY <1>1 DEF Has
  <2>3. HasPayload(q, m, e) /\ Payload(q, m, e) = v
    BY <1>1 DEF Carries, HasPayload, Payload, Has
  <2> QED BY <2>1, <2>2, <2>3 DEF Carries, HasPacketEncoding, PacketEncoding, ValidateMemberTypeIfPresent
<1> QED BY <1>1, <1>2, <1>3 DEF q

-----------------------------------------------------------------------------
(* Requests *)

LEMMA PlainRequest ==
  ASSUME NEW v, NEW e \in Encodings
  PROVE  LET p == CreateRPCRequest(v, e)
         IN  /\ Carries(p, "query", v, e) /\ "query" \in DOMAIN p
             /\ DOMAIN p \subseteq {"query", "encoding"}
<1> DEFINE p == CreateRPCRequest(v, e)
<1>1. Carries(p, "query", v, e) /\ Extends(p, << >>, "query")
  BY AddedIsCarried DEF CreateRPCRequest
<1> HIDE DEF p
<1>2. "query" \in DOMAIN p
  BY <1>1 DEF Carries, HasPayload, Has
<1>3. DOMAIN << >> = {}
  OBVIOUS
<1>4. DOMAIN p \subseteq {"query", "encoding"}
  BY <1>1, <1>3 DEF Extends
<1> QED BY <1>1, <1>2, <1>4 DEF p

\* A request for Invoke is one, and no other (CheckRequestFormat, CheckServiceRequest,
\* GetAsyncInfo).
LEMMA InvokeIsRequested ==
  ASSUME NEW v, NEW e \in Encodings
  PROVE  LET p == CreateRPCRequest(v, e)
         IN  /\ Carries(p, "query", v, e)
             /\ CheckRequestFormat(p) /\ ~CheckServiceRequest(p) /\ ~IsAsync(p)
<1> DEFINE p == CreateRPCRequest(v, e)
<1>1. Carries(p, "query", v, e) /\ "query" \in DOMAIN p /\ DOMAIN p \subseteq {"query", "encoding"}
  BY PlainRequest
<1> HIDE DEF p
<1>2. CheckRequestFormat(p) /\ ~CheckServiceRequest(p) /\ ~IsAsync(p)
  BY <1>1 DEF CheckRequestFormat, CheckServiceRequest, IsAsync, ValidateMemberType,
              ValidateMemberTypeIfPresent, Has, Carries
<1> QED BY <1>1, <1>2 DEF p

\* So is one for an asynchronous operation (CreateAsyncRPCRequest, CreateAsyncRPCPoll...).
LEMMA OperationIsRequested ==
  ASSUME NEW v, NEW e \in Encodings, NEW c
  PROVE  LET p == With(CreateRPCRequest(v, e), AsyncField(c))
         IN  /\ Carries(p, "query", v, e)
             /\ CheckRequestFormat(p) /\ ~CheckServiceRequest(p) /\ IsAsync(p)
             /\ p["async"].uint32 = c
<1> DEFINE q == CreateRPCRequest(v, e)
           p == With(q, AsyncField(c))
<1>1. Carries(q, "query", v, e) /\ "query" \in DOMAIN q /\ DOMAIN q \subseteq {"query", "encoding"}
  BY PlainRequest
<1> HIDE DEF q
<1>2. /\ DOMAIN p = DOMAIN q \union {"async"} /\ IsAsync(p) /\ p["async"].uint32 = c
      /\ Carries(p, "query", v, e)
  BY <1>1, CommandIsAdded
<1> HIDE DEF p
<1>3. CheckRequestFormat(p) /\ ~CheckServiceRequest(p)
  BY <1>1, <1>2 DEF CheckRequestFormat, CheckServiceRequest, IsAsync, ValidateMemberType,
                    ValidateMemberTypeIfPresent, Has, Carries
<1> QED BY <1>2, <1>3 DEF p, q

\* And one for Service (CreateServiceRequest, CheckServiceRequest).
LEMMA ServiceIsRequested ==
  ASSUME NEW v, NEW e \in Encodings
  PROVE  LET p == CreateServiceRequest(v, e)
         IN  Carries(p, "service", v, e) /\ CheckServiceRequest(p)
<1> DEFINE p == CreateServiceRequest(v, e)
<1>1. Carries(p, "service", v, e)
  BY AddedIsCarried DEF CreateServiceRequest
<1> HIDE DEF p
<1>2. CheckServiceRequest(p)
  BY <1>1 DEF CheckServiceRequest, Carries, HasPayload, Has
<1> QED BY <1>1, <1>2 DEF p

-----------------------------------------------------------------------------
(* Replies *)

\* Packet p is a reply with result r and output v, encoded as e.
Answers(p, r, v, e) ==
  /\ "result" \in DOMAIN p /\ p["result"] = [uint32 |-> r]
  /\ DOMAIN p \subseteq {"result", "reply", "encoding", "async"}
  /\ ValidateMemberTypeIfPresent(p, "async", "uint32")
  /\ IF Is(v, "empty") THEN "reply" \notin DOMAIN p /\ "encoding" \notin DOMAIN p
     ELSE Carries(p, "reply", v, e)

LEMMA ReplyAnswers ==
  ASSUME NEW r, NEW v, NEW e \in Encodings
  PROVE  Answers(CreateRPCReply(r, v, e), r, v, e) /\ "async" \notin DOMAIN CreateRPCReply(r, v, e)
<1> DEFINE f == ResultField(r)
           p == CreateRPCReply(r, v, e)
<1>1. DOMAIN f = {"result"} /\ f["result"] = [uint32 |-> r]
  BY DEF ResultField, Member
<1> HIDE DEF f
<1>2. CASE Is(v, "empty")
  <2>1. p = f
    BY <1>2 DEF CreateRPCReply, f
  <2> HIDE DEF p
  <2>2. Answers(p, r, v, e) /\ "async" \notin DOMAIN p
    BY <1>1, <1>2, <2>1 DEF Answers, ValidateMemberTypeIfPresent, Has
  <2> QED BY <2>2 DEF p
<1>3. CASE ~Is(v, "empty")
  <2>1. p = AddRPCPayload(f, v, "reply", e)
    BY <1>3 DEF CreateRPCReply, f
  <2>2. Carries(p, "reply", v, e) /\ Extends(p, f, "reply")
    BY <1>1, <2>1, AddedIsCarried
  <2> HIDE DEF p
  <2>3. Answers(p, r, v, e) /\ "async" \notin DOMAIN p
    BY <1>1, <1>3, <2>2 DEF Answers, Extends, ValidateMemberTypeIfPresent, Has
  <2> QED BY <2>3 DEF p
<1> QED BY <1>2, <1>3

LEMMA ServiceReplyAnswers ==
  ASSUME NEW r, NEW v, NEW e \in Encodings
  PROVE  Answers(CreateServiceReply(r, v, e), r, v, e)
<1>1. CreateServiceReply(r, v, e) = CreateRPCReply(r, v, e)
  BY DEF CreateServiceReply, CreateRPCReply
<1> QED BY <1>1, ReplyAnswers

LEMMA AsyncReplyAnswers ==
  ASSUME NEW r, NEW v, NEW e \in Encodings, NEW c
  PROVE  Answers(CreateAsyncRPCReply(r, v, e, c), r, v, e) /\ IsAsync(CreateAsyncRPCReply(r, v, e, c))
<1> DEFINE q == CreateRPCReply(r, v, e)
           p == CreateAsyncRPCReply(r, v, e, c)
<1>1. Answers(q, r, v, e) /\ "async" \notin DOMAIN q
  BY ReplyAnswers
<1>2. p = With(q, AsyncField(c))
  BY DEF CreateAsyncRPCReply
<1> HIDE DEF q
<1>3. /\ DOMAIN p = DOMAIN q \union {"async"} /\ IsAsync(p)
      /\ \A n \in DOMAIN q : p[n] = q[n]
      /\ Carries(q, "reply", v, e) => Carries(p, "reply", v, e)
  <2>1. LET w == With(q, AsyncField(c))
        IN  /\ DOMAIN w = DOMAIN q \union {"async"} /\ IsAsync(w)
            /\ \A n \in DOMAIN q : w[n] = q[n]
            /\ Carries(q, "reply", v, e) => Carries(w, "reply", v, e)
    BY <1>1, CommandIsAdded
  <2> QED BY <1>2, <2>1
<1> HIDE DEF p
<1>4. Answers(p, r, v, e)
  BY <1>1, <1>3 DEF Answers, IsAsync, ValidateMemberType, ValidateMemberTypeIfPresent
<1> QED BY <1>3, <1>4 DEF p, q

\* Both kinds of client accept a reply, and its payload can be decoded as it says
\* (CheckReplyFormat, CheckServiceReplyFormat).
LEMMA AnswerIsProper ==
  ASSUME NEW p, NEW r, NEW v, NEW e \in Encodings, Answers(p, r, v, e)
  PROVE  /\ CheckReplyFormat(p) /\ CheckServiceReplyFormat(p)
         /\ HasProtocolResult(p) /\ ExtractedResult(p) = r
         /\ HasPacketEncoding(p)
         /\ Has(p, "reply") => HasPayload(p, "reply", PacketEncoding(p))
<1>1. ValidateMemberTypeIfPresent(p, "encoding", "int32")
  BY DEF Answers, Carries, ValidateMemberTypeIfPresent, Has
<1>2. HasProtocolResult(p) /\ ExtractedResult(p) = r
  BY DEF Answers, HasProtocolResult, ExtractedResult, ValidateMemberType, Has, Is
<1>3. CheckReplyFormat(p) /\ CheckServiceReplyFormat(p)
  BY <1>1, <1>2 DEF Answers, CheckReplyFormat, CheckServiceReplyFormat, HasProtocolResult,
                    ValidateMemberTypeIfPresent, Has
<1>4. HasPacketEncoding(p) /\ (Has(p, "reply") => HasPayload(p, "reply", PacketEncoding(p)))
  BY DEF Answers, Carries, HasPacketEncoding, Has
<1> QED BY <1>2, <1>3, <1>4

\* What a client whose output takes a payload, or does not, makes of result r and
\* output v.
Understood(r, v) ==
  IF r # Success THEN [result |-> r, output |-> EmptyValue]
  ELSE IF ~fits /\ v # EmptyValue THEN DecodingError
  ELSE [result |-> Success, output |-> v]

\* DecodeReply of the clients.
LEMMA AnswerIsDecoded ==
  ASSUME NEW p, NEW r, NEW v \in Output, NEW e \in Encodings, Answers(p, r, v, e)
  PROVE  DecodeReply(p) = Understood(r, v)
<1>1. HasProtocolResult(p) /\ ExtractedResult(p) = r
  BY AnswerIsProper
<1>2. Is(v, "empty") <=> v = EmptyValue
  BY OutputAssumption DEF Is, EmptyValue
<1>3. CASE v = EmptyValue
  <2>1. ~Has(p, "reply")
    BY <1>2, <1>3 DEF Answers, Has
  <2> QED BY <1>1, <1>3, <2>1 DEF DecodeReply, Unusable, Understood
<1>4. CASE v # EmptyValue
  <2>1. Carries(p, "reply", v, e)
    BY <1>2, <1>4 DEF Answers
  <2>2. Has(p, "reply") /\ HasPacketEncoding(p) /\ HasPayload(p, "reply", PacketEncoding(p))
        /\ Payload(p, "reply", PacketEncoding(p)) = v
    BY <2>1 DEF Carries, HasPayload
  <2>3. Unusable(p) <=> ~fits
    BY <1>2, <1>4, <2>2 DEF Unusable
  <2> QED BY <1>1, <1>4, <2>2, <2>3 DEF DecodeReply, Understood
<1> QED BY <1>3, <1>4

\* The client finds a member of the payload (TryExtractId, TryExtractReadyStatus).
LEMMA MemberArrives ==
  ASSUME NEW p, NEW r, NEW m, NEW t, NEW x, NEW e \in Encodings, t \in DOMAIN x,
         Answers(p, r, Struct(Member(m, x)), e)
  PROVE  HasReplyMember(p, m, t) /\ ReplyMember(p, m) = x
<1> DEFINE v == Struct(Member(m, x))
<1>1. ~Is(v, "empty") /\ HasMember(v, m, t) /\ v.struct[m] = x
  BY DEF Is, Struct, Member, HasMember, ValidateMemberType, Has
<1> HIDE DEF v
<1>2. Carries(p, "reply", v, e)
  BY <1>1 DEF Answers, v
<1> QED BY <1>1, <1>2 DEF Carries, HasReplyMember, ReplyMember

-----------------------------------------------------------------------------
(* What the server answers to proper requests (ProtocolRPCServer::operator()) *)

LEMMA InvokeIsServed ==
  ASSUME NEW p, NEW v, NEW e \in Encodings, NEW d,
         Carries(p, "query", v, e), CheckRequestFormat(p), ~CheckServiceRequest(p),
         ~IsAsync(p) \/ d.legacy
  PROVE  ReplyTo(p, d) = DirectReply(e, d)
  BY DEF ReplyTo, HandleInvokeRequest, Carries

LEMMA OperationIsServed ==
  ASSUME NEW p, NEW v, NEW e \in Encodings, NEW d,
         Carries(p, "query", v, e), CheckRequestFormat(p), ~CheckServiceRequest(p),
         IsAsync(p), ~d.legacy
  PROVE  ReplyTo(p, d) = HandleInvoke(v, e, p["async"].uint32, d)
  BY DEF ReplyTo, HandleInvokeRequest, Carries

LEMMA ServiceIsServed ==
  ASSUME NEW p, NEW v, NEW e \in Encodings, NEW d,
         Carries(p, "service", v, e), CheckServiceRequest(p)
  PROVE  ReplyTo(p, d) = IF d.threw
                           THEN CreateServiceReply(ServerProtocolException, EmptyValue, kNone)
                           ELSE CreateServiceReply(d.result, d.output, e)
  BY DEF ReplyTo, HandleServiceRequest, Carries

\* An operation on an entry finds its identifier.
LEMMA EntryIsAsked ==
  ASSUME NEW id, NEW e, NEW c \in {kPoll, kGetReply, kInvalidate}, NEW d
  PROVE  HandleInvoke(RequestIdPayload(id), e, c, d) =
           IF d.refusal # Success
             THEN CreateAsyncRPCReply(d.refusal, EmptyValue, kNone, c)
             ELSE CASE c = kPoll -> CreateAsyncRPCPollReply(d.ready, e)
                    [] c = kGetReply ->
                         IF d.threw
                           THEN CreateAsyncRPCReply(ServerProtocolException, EmptyValue, e, c)
                           ELSE CreateAsyncRPCReply(d.result, d.output, e, c)
                    [] c = kInvalidate -> CreateAsyncRPCReply(Success, EmptyValue, kNone, c)
<1>1. HasMember(RequestIdPayload(id), "id", "uint64")
  BY DEF HasMember, RequestIdPayload, Struct, Member, Is, ValidateMemberType, Has
<1>2. c # kInitialRequest
  BY DEF kInitialRequest, kPoll, kGetReply, kInvalidate
<1> QED BY <1>1, <1>2 DEF HandleInvoke

-----------------------------------------------------------------------------
(* What became of an exchange *)

\* The client has sent a request of one of its operations.
Asked ==
  /\ op \in Operation /\ fits \in BOOLEAN /\ (op = "Info" => fits)
  /\ \E v \in Input, id \in Id, e \in Encodings : request = RequestOf(op, v, id, e)

\* The invariant: each participant works on what the one before it has made.
IInv ==
  /\ step \in {"client", "server", "answer", "end"}
  /\ step = "client" => op = "none"
  /\ step \in {"client", "server"} => did = Nothing
  /\ op # "none" => Asked
  /\ step \in {"answer", "end"} => did \in Did /\ reply = ReplyTo(request, did)
  /\ op # "none" /\ step = "end" => outcome = OutcomeOf(op, reply)

LEMMA Invariant == Spec => []IInv
<1>1. Init => IInv
  BY DEF Init, IInv
<1>2. IInv /\ [Next]_vars => IInv'
  <2> SUFFICES ASSUME IInv, [Next]_vars PROVE IInv'
    OBVIOUS
  <2>1. CASE Compose
    <3>1. PICK o \in Operation, v \in Input, id \in Id, e \in {kNone, kBase64} :
            Send(o, RequestOf(o, v, id, e)) /\ fits' \in IF o = "Info" THEN {TRUE} ELSE BOOLEAN
      BY <2>1 DEF Compose
    <3>2. step' = "server" /\ op' = o /\ request' = RequestOf(o, v, id, e) /\ did' = Nothing
      BY <3>1 DEF Send, IInv
    <3>3. Asked'
      BY <3>1, <3>2 DEF Asked, Encodings
    <3> QED BY <3>2, <3>3 DEF IInv
  <2>2. CASE Strange
    BY <2>2 DEF Strange, Send, IInv
  <2>3. CASE Serve
    <3>1. PICK d \in Did : did' = d /\ reply' = ReplyTo(request, d)
      BY <2>3 DEF Serve
    <3>2. /\ step = "server" /\ step' = IF op = "none" THEN "end" ELSE "answer"
          /\ UNCHANGED <<op, fits, request, outcome>>
      BY <2>3 DEF Serve
    <3>3. op # "none" => Asked'
      BY <3>2 DEF IInv, Asked
    <3> QED BY <3>1, <3>2, <3>3 DEF IInv
  <2>4. CASE Receive
    <3>1. /\ step = "answer" /\ step' = "end" /\ outcome' = OutcomeOf(op, reply)
          /\ UNCHANGED <<op, fits, request, reply, did>>
      BY <2>4 DEF Receive
    <3>2. outcome' = OutcomeOf(op, reply)'
      BY <3>1 DEF OutcomeOf, AsyncDecodeReply, StartOutcome, PollOutcome, ServiceOutcome, DecodeReply,
                  Unusable
    <3>3. op # "none" => Asked'
      BY <3>1 DEF IInv, Asked
    <3>4. did' \in Did /\ reply' = ReplyTo(request', did')
      BY <3>1 DEF IInv
    <3> QED BY <3>1, <3>2, <3>3, <3>4 DEF IInv
  <2>5. CASE UNCHANGED vars
    <3>1. UNCHANGED <<step, op, fits, request, reply, did, outcome>>
      BY <2>5 DEF vars
    <3>2. OutcomeOf(op, reply)' = OutcomeOf(op, reply)
      BY <3>1 DEF OutcomeOf, AsyncDecodeReply, StartOutcome, PollOutcome, ServiceOutcome, DecodeReply,
                  Unusable
    <3>3. op # "none" => Asked'
      BY <3>1 DEF IInv, Asked
    <3> QED BY <3>1, <3>2, <3>3 DEF IInv
  <2> QED BY <2>1, <2>2, <2>3, <2>4, <2>5 DEF Next
<1> QED BY <1>1, <1>2, PTL DEF Spec

-----------------------------------------------------------------------------
(* Transparency of the calls *)

\* A synchronous answer tells what a direct call would have (HandleSyncInvoke).
LEMMA DirectReplyDecoded ==
  ASSUME NEW e \in Encodings, did \in Did
  PROVE  LET p == DirectReply(e, did)
         IN  ~IsAsync(p) /\ CheckReplyFormat(p) /\ DecodeReply(p) = DirectOutcome
<1>1. did.output \in Output /\ EmptyValue \in Output /\ kNone \in Encodings
  BY EmptyAssumption DEF Did, Encodings
<1>2. CASE did.threw
  <2> DEFINE p == CreateRPCReply(ServerProtocolException, EmptyValue, kNone)
  <2>1. DirectReply(e, did) = p
    BY <1>2 DEF DirectReply, ErrorReply
  <2>2. Answers(p, ServerProtocolException, EmptyValue, kNone) /\ "async" \notin DOMAIN p
    BY <1>1, ReplyAnswers
  <2> HIDE DEF p
  <2>3. CheckReplyFormat(p) /\ DecodeReply(p) = Understood(ServerProtocolException, EmptyValue)
    BY <1>1, <2>2, AnswerIsProper, AnswerIsDecoded
  <2>4. ~IsAsync(p)
    BY <2>2 DEF IsAsync, ValidateMemberType, Has
  <2> QED BY <1>2, <2>1, <2>3, <2>4 DEF DirectOutcome, Understood, ServerProtocolException, Success
<1>3. CASE ~did.threw
  <2> DEFINE p == CreateRPCReply(did.result, did.output, e)
  <2>1. DirectReply(e, did) = p
    BY <1>3 DEF DirectReply
  <2>2. Answers(p, did.result, did.output, e) /\ "async" \notin DOMAIN p
    BY ReplyAnswers
  <2> HIDE DEF p
  <2>3. CheckReplyFormat(p) /\ DecodeReply(p) = Understood(did.result, did.output)
    BY <1>1, <2>2, AnswerIsProper, AnswerIsDecoded
  <2>4. ~IsAsync(p)
    BY <2>2 DEF IsAsync, ValidateMemberType, Has
  <2> QED BY <1>3, <2>1, <2>3, <2>4 DEF DirectOutcome, Understood
<1> QED BY <1>2, <1>3

\* So does the answer to a service request (HandleService).
LEMMA ServiceReplyDecoded ==
  ASSUME NEW p, NEW v, NEW e \in Encodings, did \in Did,
         Carries(p, "service", v, e), CheckServiceRequest(p)
  PROVE  ServiceOutcome(ReplyTo(p, did)) = DirectOutcome
<1>1. did.output \in Output /\ EmptyValue \in Output /\ kNone \in Encodings
  BY EmptyAssumption DEF Did, Encodings
<1>2. CASE did.threw
  <2> DEFINE q == CreateServiceReply(ServerProtocolException, EmptyValue, kNone)
  <2>1. ReplyTo(p, did) = q
    BY <1>2, ServiceIsServed
  <2>2. Answers(q, ServerProtocolException, EmptyValue, kNone)
    BY <1>1, ServiceReplyAnswers
  <2> HIDE DEF q
  <2>3. CheckServiceReplyFormat(q) /\ DecodeReply(q) = Understood(ServerProtocolException, EmptyValue)
    BY <1>1, <2>2, AnswerIsProper, AnswerIsDecoded
  <2> QED BY <1>2, <2>1, <2>3 DEF ServiceOutcome, DirectOutcome, Understood, ServerProtocolException, Success
<1>3. CASE ~did.threw
  <2> DEFINE q == CreateServiceReply(did.result, did.output, e)
  <2>1. ReplyTo(p, did) = q
    BY <1>3, ServiceIsServed
  <2>2. Answers(q, did.result, did.output, e)
    BY ServiceReplyAnswers
  <2> HIDE DEF q
  <2>3. CheckServiceReplyFormat(q) /\ DecodeReply(q) = Understood(did.result, did.output)
    BY <1>1, <2>2, AnswerIsProper, AnswerIsDecoded
  <2> QED BY <1>3, <2>1, <2>3 DEF ServiceOutcome, DirectOutcome, Understood
<1> QED BY <1>2, <1>3

\* GetReply tells what the table said (AsyncInvokeServer::HandleInvoke,
\* AsyncInvocation::GetReply).
LEMMA EntryReplyDecoded ==
  ASSUME NEW id, NEW e \in Encodings, did \in Did
  PROVE  DecodeReply(HandleInvoke(RequestIdPayload(id), e, kGetReply, did))
           = IF did.refusal = Success THEN DirectOutcome ELSE [result |-> did.refusal, output |-> EmptyValue]
<1> DEFINE p == HandleInvoke(RequestIdPayload(id), e, kGetReply, did)
<1>1. did.output \in Output /\ EmptyValue \in Output /\ kNone \in Encodings
  BY EmptyAssumption DEF Did, Encodings
<1>2. p = IF did.refusal # Success THEN CreateAsyncRPCReply(did.refusal, EmptyValue, kNone, kGetReply)
          ELSE IF did.threw
            THEN CreateAsyncRPCReply(ServerProtocolException, EmptyValue, e, kGetReply)
            ELSE CreateAsyncRPCReply(did.result, did.output, e, kGetReply)
  BY EntryIsAsked DEF kPoll, kGetReply, kInvalidate
<1> HIDE DEF p
<1>3. \A r : \A v \in Output : \A f \in Encodings :
        p = CreateAsyncRPCReply(r, v, f, kGetReply) => DecodeReply(p) = Understood(r, v)
  BY AsyncReplyAnswers, AnswerIsDecoded
<1>4. CASE did.refusal # Success
  <2>1. DecodeReply(p) = Understood(did.refusal, EmptyValue)
    BY <1>1, <1>2, <1>3, <1>4
  <2> QED BY <1>4, <2>1 DEF Understood, p
<1>5. CASE did.refusal = Success /\ did.threw
  <2>1. DecodeReply(p) = Understood(ServerProtocolException, EmptyValue)
    BY <1>1, <1>2, <1>3, <1>5
  <2> QED BY <1>5, <2>1 DEF Understood, DirectOutcome, ServerProtocolException, Success, p
<1>6. CASE did.refusal = Success /\ ~did.threw
  <2>1. DecodeReply(p) = Understood(did.result, did.output)
    BY <1>1, <1>2, <1>3, <1>6
  <2> QED BY <1>6, <2>1 DEF Understood, DirectOutcome, p
<1> QED BY <1>4, <1>5, <1>6

\* What a client receives that is done.
LEMMA DoneIsAnswered ==
  ASSUME IInv, NEW o \in Operation, Done(o)
  PROVE  /\ op = o /\ did \in Did /\ outcome = OutcomeOf(o, ReplyTo(request, did))
         /\ \E v \in Input, id \in Id, e \in Encodings : request = RequestOf(o, v, id, e)
<1>1. o # "none"
  BY DEF Operation
<1> QED BY <1>1 DEF IInv, Done, Asked

\* A call through the two packets gives what the direct call would give
\* (ProtocolRPCClient::Invoke and Service, AsyncInvocation::GetReply).
THEOREM CallsThroughPacketsAreTransparent == Spec => []CallsAreTransparent
<1>1. IInv => CallsAreTransparent
  <2> SUFFICES ASSUME IInv PROVE CallsAreTransparent
    OBVIOUS
  <2>1. ASSUME Done("Invoke") PROVE outcome = DirectOutcome
    <3>1. did \in Did /\ outcome = OutcomeOf("Invoke", ReplyTo(request, did))
      BY <2>1, DoneIsAnswered DEF Operation
    <3>2. PICK v \in Input, id \in Id, e \in Encodings : request = RequestOf("Invoke", v, id, e)
      BY <2>1, DoneIsAnswered DEF Operation
    <3>3. request = CreateRPCRequest(v, e)
      BY <3>2 DEF RequestOf
    <3>4. ReplyTo(request, did) = DirectReply(e, did)
      BY <3>3, InvokeIsRequested, InvokeIsServed
    <3> QED BY <3>1, <3>4, DirectReplyDecoded DEF OutcomeOf
  <2>2. ASSUME Done("Service") PROVE outcome = DirectOutcome
    <3>1. did \in Did /\ outcome = OutcomeOf("Service", ReplyTo(request, did))
      BY <2>2, DoneIsAnswered DEF Operation
    <3>2. PICK v \in Input, id \in Id, e \in Encodings : request = RequestOf("Service", v, id, e)
      BY <2>2, DoneIsAnswered DEF Operation
    <3>3. request = CreateServiceRequest(v, e)
      BY <3>2 DEF RequestOf
    <3>4. ServiceOutcome(ReplyTo(request, did)) = DirectOutcome
      BY <3>1, <3>3, ServiceIsRequested, ServiceReplyDecoded
    <3> QED BY <3>1, <3>4 DEF OutcomeOf
  <2>3. ASSUME Done("Start"), did.legacy PROVE outcome = DirectOutcome
    <3>1. did \in Did /\ outcome = OutcomeOf("Start", ReplyTo(request, did))
      BY <2>3, DoneIsAnswered DEF Operation
    <3>2. PICK v \in Input, id \in Id, e \in Encodings : request = RequestOf("Start", v, id, e)
      BY <2>3, DoneIsAnswered DEF Operation
    <3>3. request = With(CreateRPCRequest(v, e), AsyncField(kInitialRequest))
      BY <3>2 DEF RequestOf, CreateAsyncRPCRequest
    <3>4. Carries(request, "query", v, e) /\ CheckRequestFormat(request) /\ ~CheckServiceRequest(request)
      BY <3>3, OperationIsRequested
    <3>5. ReplyTo(request, did) = DirectReply(e, did)
      BY <2>3, <3>4, InvokeIsServed
    <3> QED BY <3>1, <3>5, DirectReplyDecoded DEF OutcomeOf, StartOutcome, AsyncDecodeReply
  <2>4. ASSUME Done("GetReply"), ~did.legacy
        PROVE  outcome = IF did.refusal = Success
                           THEN DirectOutcome ELSE [result |-> did.refusal, output |-> EmptyValue]
    <3>1. did \in Did /\ outcome = OutcomeOf("GetReply", ReplyTo(request, did))
      BY <2>4, DoneIsAnswered DEF Operation
    <3>2. PICK v \in Input, id \in Id, e \in Encodings : request = RequestOf("GetReply", v, id, e)
      BY <2>4, DoneIsAnswered DEF Operation
    <3>3. request = With(CreateRPCRequest(RequestIdPayload(id), e), AsyncField(kGetReply))
      BY <3>2 DEF RequestOf, CreateAsyncRPCCommand
    <3>4. /\ Carries(request, "query", RequestIdPayload(id), e)
          /\ CheckRequestFormat(request) /\ ~CheckServiceRequest(request)
          /\ IsAsync(request) /\ request["async"].uint32 = kGetReply
      BY <3>3, OperationIsRequested
    <3>5. ReplyTo(request, did) = HandleInvoke(RequestIdPayload(id), e, kGetReply, did)
      BY <2>4, <3>4, OperationIsServed
    <3> QED BY <3>1, <3>5, EntryReplyDecoded DEF OutcomeOf
  <2> QED BY <2>1, <2>2, <2>3, <2>4 DEF CallsAreTransparent
<1> QED BY Invariant, <1>1, PTL

\* GetApplicationProtocolInfo through a client gives what it gives of the protocol
\* itself (HandleApplicationProtocolInfo, IsApplicationProtocolRequestPayload).
THEOREM InfoThroughPacketsIsTransparent == Spec => []InfoIsTransparent
<1> DEFINE asks == CreateApplicationProtocolRequestPayload
<1>1. ASSUME IInv, op = "Info"
      PROVE  /\ fits
             /\ \E e \in Encodings : Carries(request, "service", asks, e) /\ CheckServiceRequest(request)
  <2>1. fits /\ \E v \in Input, id \in Id, e \in Encodings : request = RequestOf("Info", v, id, e)
    BY <1>1 DEF IInv, Asked
  <2>2. PICK e \in Encodings : request = CreateServiceRequest(asks, e)
    BY <2>1 DEF RequestOf
  <2> QED BY <2>1, <2>2, ServiceIsRequested
<1> HIDE DEF asks
<1>2. ASSUME IInv, Done("Info") PROVE outcome = InfoOf(DirectOutcome)
  <2>1. did \in Did /\ outcome = InfoOf(ServiceOutcome(ReplyTo(request, did)))
    BY <1>2, DoneIsAnswered DEF Operation, OutcomeOf
  <2>2. op = "Info"
    BY <1>2 DEF Done
  <2>3. ServiceOutcome(ReplyTo(request, did)) = DirectOutcome
    BY <1>1, <1>2, <2>1, <2>2, ServiceReplyDecoded
  <2> QED BY <2>1, <2>3
<1>3. ASSUME IInv, NEW info \in HandleApplicationProtocolInfo({}, EmptyValue, "type", "1.0"),
             Done("Info"), ~did.threw, did.result = info.result, did.output = info.output
      PROVE  outcome = [type |-> "type", version |-> "1.0"]
  <2> DEFINE names == CreateApplicationProtocolReplyPayload("type", "1.0")
  <2>1. did.result = Success /\ did.output = names
    BY <1>3 DEF HandleApplicationProtocolInfo, TryAssign, Is, EmptyValue
  <2>2. /\ CheckApplicationProtocolReplyPayload(names)
        /\ names.struct["application_type"].string.plain = "type"
        /\ names.struct["application_version"].string.plain = "1.0"
    BY DEF CreateApplicationProtocolReplyPayload, CheckApplicationProtocolReplyPayload, Struct, Member,
           With, HasMember, ValidateMemberType, Has, Is
  <2> HIDE DEF names
  <2>3. op = "Info"
    BY <1>3 DEF Done
  <2>4. DirectOutcome = [result |-> Success, output |-> names]
    BY <1>1, <1>3, <2>1, <2>3 DEF DirectOutcome
  <2>5. InfoOf(DirectOutcome) = [type |-> "type", version |-> "1.0"]
    BY <2>2, <2>4 DEF InfoOf
  <2> QED BY <1>2, <1>3, <2>5
<1>4. ASSUME IInv, op = "Info"
      PROVE  IsApplicationProtocolRequestPayload(Payload(request, "service", PacketEncoding(request)))
  BY <1>1, <1>4 DEF Carries, IsApplicationProtocolRequestPayload, asks
<1>5. IInv => InfoIsTransparent
  BY <1>2, <1>3, <1>4 DEF InfoIsTransparent
<1> QED BY Invariant, <1>5, PTL

\* The client learns its identifier and whether the reply is ready, as the table gave
\* them (AsyncInvocation::Start and PollOnce).
THEOREM ClientsUnderstandTheTable == Spec => []AsyncAnswersUnderstood
<1>1. ASSUME IInv, Done("Start"), ~did.legacy
      PROVE  outcome = [result |-> Success, id |-> did.id]
  <2>1. did \in Did /\ outcome = StartOutcome(ReplyTo(request, did))
    BY <1>1, DoneIsAnswered DEF Operation, OutcomeOf
  <2>2. PICK v \in Input, id \in Id, e \in Encodings : request = RequestOf("Start", v, id, e)
    BY <1>1, DoneIsAnswered DEF Operation
  <2>3. request = With(CreateRPCRequest(v, e), AsyncField(kInitialRequest))
    BY <2>2 DEF RequestOf, CreateAsyncRPCRequest
  <2>4. /\ Carries(request, "query", v, e) /\ CheckRequestFormat(request)
        /\ ~CheckServiceRequest(request) /\ IsAsync(request)
        /\ request["async"].uint32 = kInitialRequest
    BY <2>3, OperationIsRequested
  <2> DEFINE x == [uint64 |-> did.id]
             p == CreateAsyncRPCReply(Success, Struct(Member("id", x)), e, kInitialRequest)
  <2>5. ReplyTo(request, did) = p
    BY <1>1, <2>4, OperationIsServed DEF HandleInvoke, CreateAsyncRPCNewRequestReply
  <2>6. Answers(p, Success, Struct(Member("id", x)), e) /\ IsAsync(p)
    BY AsyncReplyAnswers
  <2>7. x.uint64 = did.id /\ "uint64" \in DOMAIN x /\ did.id # 0
    BY <2>1, IdAssumption DEF Did
  <2> HIDE DEF p, x
  <2>8. HasReplyMember(p, "id", "uint64") /\ ReplyMember(p, "id") = x
    BY <2>6, <2>7, MemberArrives
  <2> QED BY <2>1, <2>5, <2>6, <2>7, <2>8 DEF StartOutcome
<1>2. ASSUME IInv, Done("PollOnce"), ~did.legacy, did.refusal = Success
      PROVE  outcome = [result |-> Success, ready |-> did.ready]
  <2>1. did \in Did /\ outcome = PollOutcome(ReplyTo(request, did))
    BY <1>2, DoneIsAnswered DEF Operation, OutcomeOf
  <2>2. PICK v \in Input, id \in Id, e \in Encodings : request = RequestOf("PollOnce", v, id, e)
    BY <1>2, DoneIsAnswered DEF Operation
  <2>3. request = With(CreateRPCRequest(RequestIdPayload(id), e), AsyncField(kPoll))
    BY <2>2 DEF RequestOf, CreateAsyncRPCCommand
  <2>4. /\ Carries(request, "query", RequestIdPayload(id), e) /\ CheckRequestFormat(request)
        /\ ~CheckServiceRequest(request) /\ IsAsync(request) /\ request["async"].uint32 = kPoll
    BY <2>3, OperationIsRequested
  <2> DEFINE x == [bool |-> did.ready]
             p == CreateAsyncRPCReply(Success, Struct(Member("ready", x)), e, kPoll)
  <2>5. ReplyTo(request, did) = HandleInvoke(RequestIdPayload(id), e, kPoll, did)
    BY <1>2, <2>4, OperationIsServed
  <2>6. HandleInvoke(RequestIdPayload(id), e, kPoll, did) = p
    BY <1>2, EntryIsAsked DEF CreateAsyncRPCPollReply, kPoll, kGetReply, kInvalidate
  <2>7. Answers(p, Success, Struct(Member("ready", x)), e)
    BY AsyncReplyAnswers
  <2>8. x.bool = did.ready /\ "bool" \in DOMAIN x
    OBVIOUS
  <2> HIDE DEF p, x
  <2>9. HasReplyMember(p, "ready", "bool") /\ ReplyMember(p, "ready") = x
    BY <2>7, <2>8, MemberArrives
  <2> QED BY <2>1, <2>5, <2>6, <2>8, <2>9 DEF PollOutcome
<1>3. IInv => AsyncAnswersUnderstood
  BY <1>1, <1>2 DEF AsyncAnswersUnderstood
<1> QED BY Invariant, <1>3, PTL

-----------------------------------------------------------------------------
(* Strangers *)

\* Packet p can be read as a reply.
Readable(p) == \E r, v : \E e \in Encodings : Answers(p, r, v, e)

\* Whatever arrives, each handler answers it with a proper reply.
LEMMA AnythingIsAnswered ==
  ASSUME NEW p, NEW d
  PROVE  /\ Readable(ReplyTo(p, d))
         /\ ~CheckRequestFormat(p) /\ ~CheckServiceRequest(p) =>
              \E r \in {ServerTransportDecodingError, ServerUnsupportedPayloadEncodingError} :
                ReplyTo(p, d) = ErrorReply(r)
<1> DEFINE e == PacketEncoding(p)
<1>1. \A r, v : \A f \in Encodings : Readable(CreateRPCReply(r, v, f))
  BY ReplyAnswers DEF Readable
<1>2. \A r, v : \A f \in Encodings : Readable(CreateServiceReply(r, v, f))
  BY ServiceReplyAnswers DEF Readable
<1>3. \A r, v, c : \A f \in Encodings : Readable(CreateAsyncRPCReply(r, v, f, c))
  BY AsyncReplyAnswers DEF Readable
<1>4. kNone \in Encodings
  BY DEF Encodings
<1>5. \A r : Readable(ErrorReply(r))
  BY <1>1, <1>4 DEF ErrorReply
<1>6. CASE ~HasPacketEncoding(p)
  BY <1>5, <1>6 DEF ReplyTo
<1>7. CASE HasPacketEncoding(p)
  <2>1. e \in Encodings
    BY <1>7 DEF HasPacketEncoding, PacketEncoding, IsSupportedPayloadEncoding, Encodings, kNone, kBase64
  <2> HIDE DEF e
  <2>2. CASE CheckServiceRequest(p)
    <3>1. ReplyTo(p, d) = HandleServiceRequest(p, e, d)
      BY <1>7, <2>2 DEF ReplyTo, e
    <3>2. Readable(HandleServiceRequest(p, e, d))
      BY <1>2, <1>4, <1>5, <2>1 DEF HandleServiceRequest
    <3> QED BY <2>2, <3>1, <3>2
  <2>3. CASE ~CheckServiceRequest(p)
    <3> DEFINE v == Payload(p, "query", e)
               c == p["async"].uint32
    <3>1. ReplyTo(p, d) = HandleInvokeRequest(p, e, d)
      BY <1>7, <2>3 DEF ReplyTo, e
    <3>2. Readable(DirectReply(e, d))
      BY <1>1, <1>5, <2>1 DEF DirectReply
    <3> HIDE DEF v, c
    <3>3. Readable(HandleInvoke(v, e, c, d))
      <4>1. Readable(CreateAsyncRPCNewRequestReply(d.id, e)) /\ Readable(CreateAsyncRPCPollReply(d.ready, e))
        BY <1>3, <2>1 DEF CreateAsyncRPCNewRequestReply, CreateAsyncRPCPollReply
      <4> QED BY <1>3, <1>4, <2>1, <4>1 DEF HandleInvoke, kPoll, kGetReply, kInvalidate
    <3>4. Readable(HandleInvokeRequest(p, e, d))
      BY <1>5, <3>2, <3>3 DEF HandleInvokeRequest, v, c
    <3>5. ~CheckRequestFormat(p) => ReplyTo(p, d) = ErrorReply(ServerTransportDecodingError)
      BY <3>1 DEF HandleInvokeRequest
    <3> QED BY <3>1, <3>4, <3>5
  <2> QED BY <2>2, <2>3
<1> QED BY <1>6, <1>7

\* Whatever arrives, the answer is a reply that both kinds of client can read, and a
\* packet that is not a proper request is answered by an error of the server
\* (ProtocolRPCServer::operator(), AsyncInvokeServer::HandleInvoke).
THEOREM AnybodyIsAnswered == Spec => []StrangersAreAnswered
<1>1. ASSUME IInv, op = "none", did # Nothing PROVE reply = ReplyTo(request, did)
  BY <1>1 DEF IInv
<1>2. ASSUME NEW p, Readable(p)
      PROVE  /\ CheckReplyFormat(p) /\ CheckServiceReplyFormat(p) /\ HasPacketEncoding(p)
             /\ Has(p, "reply") => HasPayload(p, "reply", PacketEncoding(p))
  BY <1>2, AnswerIsProper DEF Readable
<1>3. ASSUME NEW r PROVE ExtractedResult(ErrorReply(r)) = r
  <2>1. Answers(ErrorReply(r), r, EmptyValue, kNone) /\ kNone \in Encodings
    BY ReplyAnswers DEF ErrorReply, Encodings
  <2> QED BY <2>1, AnswerIsProper
<1>4. IInv => StrangersAreAnswered
  BY <1>1, <1>2, <1>3, AnythingIsAnswered DEF StrangersAreAnswered
<1> QED BY Invariant, <1>4, PTL

=============================================================================
