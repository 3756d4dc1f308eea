---------------------------- MODULE MCRPCExchange ----------------------------
(* Model checking of RPCExchange: every field of a strange packet is absent, of *)
(* the right type or of a wrong one.                                            *)
EXTENDS RPCExchange

Text(s) == [string |-> [plain |-> s]]
IdPayload == RequestIdPayload(1)
MistypedId == Struct(Member("id", [string |-> [plain |-> "one"]]))

Fields(m, values) == {Member(m, v) : v \in values} \union {<< >>}

MCInput == {Text("in"), IdPayload}
MCOutput == {EmptyValue, Text("out"), Struct(Member("ready", [bool |-> TRUE])),
             CreateApplicationProtocolReplyPayload("type", "1.0"),
             Struct(Member("application_type", Text("type")))}
MCPayload == {Text("in"), IdPayload, MistypedId, EmptyValue, Encode(IdPayload, kBase64)}

MCStrangePacket ==
  {With(With(With(With(p, q), r), s), t) :
     p \in Fields("encoding", {[int32 |-> 0], [int32 |-> 1], [int32 |-> 2], [uint32 |-> 1]}),
     q \in Fields("timestamp", {[uint64 |-> 1], Text("now")}),
     r \in Fields("async", {[uint32 |-> c] : c \in 0 .. 4} \union {[int32 |-> 0]}),
     s \in Fields("query", MCPayload),
     t \in Fields("service", {Text("in"), Encode(Text("in"), kBase64)})}

=============================================================================
