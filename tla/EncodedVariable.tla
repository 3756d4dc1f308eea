--------------------------- MODULE EncodedVariable ---------------------------
(***************************************************************************)
(* EncodedProcessVariable with the Base64VariableCodec                     *)
(* (encoded_variable_t.h, factory/base64_variable_codec.cpp), and the      *)
(* helpers GetVariableValue and SetVariableValue                           *)
(* (factory/process_variable.cpp).  An application uses a network variable *)
(* through the decorator, while others write it, through the same codec or *)
(* any other way, and while it is connected and disconnected.  The         *)
(* variable answers a call and calls back on a thread of its own, so that  *)
(* the value may be another one by then.                                   *)
(*                                                                         *)
(* An operator named Bug_X is X with a plausible mistake in it; it is not  *)
(* part of the model and serves to show that the properties notice it.     *)
(***************************************************************************)
EXTENDS RPCPackets, Sequences

CONSTANTS
  Value,     \* AnyValues of applications
  RawValue,  \* other AnyValues that the variable may hold, which the codec did not make
  MaxUpdates \* bound: updates that the variable did not call back for yet

VARIABLES
  raw,       \* the network variable: whether it is available, and its value
  holds,     \* history: the AnyValue of an application it holds, if any, as a set
  call,      \* the operation of the application, or "none"
  value,     \* the value it sets
  got,       \* the answer of the network variable, once there is one
  outcome,   \* what the last operation returned
  seen,      \* history: the values of holds since the operation began
  monitored, \* whether the callback is set
  updates,   \* updates the network variable has to call back for, with holds of the time
  told,      \* what the callback was called with last
  meant      \* history: holds at the update it was called for

vars == <<raw, holds, call, value, got, outcome, seen, monitored, updates, told, meant>>

-----------------------------------------------------------------------------
(* The codec *)

kEncodingField == "encoding"
kBase64Encoding == [plain |-> "base64"]
kValueField == "value"

\* Encode does not fail.
CodecEncode(v) ==
  Struct(With(Member(kEncodingField, [string |-> kBase64Encoding]), Member(kValueField, Encode(v, kBase64))))

ValidateBase64AnyValue(v) ==
  /\ HasMember(v, kEncodingField, "string")
  /\ v.struct[kEncodingField].string = kBase64Encoding
  /\ HasMember(v, kValueField, "string")

\* What Decode returns; the text may not be base64, or not that of an AnyValue.
CodecDecode(v) ==
  IF ValidateBase64AnyValue(v) /\ Decodes(v.struct[kValueField], kBase64)
    THEN [first |-> TRUE, second |-> Decode(v.struct[kValueField], kBase64)]
    ELSE [first |-> FALSE, second |-> EmptyValue]

NoAnswer == [first |-> FALSE, second |-> EmptyValue]

\* Assumed: what the codec did not make, it does not decode.
RawValueAssumption ==
  \A v \in RawValue \ {CodecEncode(w) : w \in Value} : ~CodecDecode(v).first

-----------------------------------------------------------------------------

Init ==
  /\ raw = NoAnswer /\ holds = {}
  /\ call = "none" /\ value = EmptyValue /\ got = {} /\ outcome = NoAnswer
  /\ seen = {}
  /\ monitored = FALSE /\ updates = << >>
  /\ told = NoAnswer /\ meant = {}

\* The network variable gets another value, or another availability.
Change(r, h) ==
  /\ Len(updates) < MaxUpdates
  /\ raw' = r
  /\ holds' = h
  /\ seen' = IF call = "none" THEN {} ELSE seen \union {h}
  /\ updates' = IF monitored THEN Append(updates, [raw |-> r, holds |-> h]) ELSE updates

\* Somebody else writes it: through the codec, or in another way.
WriteEncoded(v) == Change([first |-> TRUE, second |-> CodecEncode(v)], {v})
WriteRaw(v) == Change([first |-> TRUE, second |-> v], {})

\* It keeps its value while it is disconnected, and may tell it.
Disconnect == raw.first /\ Change([raw EXCEPT !.first = FALSE], {})

Foreign ==
  /\ \/ \E v \in Value : WriteEncoded(v)
     \/ \E v \in RawValue \ {CodecEncode(w) : w \in Value} : WriteRaw(v)
     \/ Disconnect
  /\ UNCHANGED <<call, value, got, outcome, monitored, told, meant>>

-----------------------------------------------------------------------------
(* Calls of the application.  Each one is a call of the network variable, with the *)
(* timeout; IsAvailable is WaitForAvailable without a timeout, GetVariableValue is *)
(* GetValue and SetVariableValue is SetValue without one.                          *)

Reads == {"GetValue", "GetVariableValue", "WaitForAvailable", "IsAvailable"}
Writes == {"SetValue", "SetVariableValue"}

Begin(o, v) ==
  /\ call = "none"
  /\ call' = o
  /\ value' = v
  /\ seen' = {holds}
  /\ outcome' = NoAnswer
  /\ UNCHANGED <<raw, holds, got, monitored, updates, told, meant>>

\* GetValue of the network variable: its value as soon as it is available, or failure
\* when the timeout ends.
NetworkGetValue ==
  /\ call \in Reads /\ got = {}
  /\ got' = {IF raw.first THEN raw ELSE NoAnswer}
  /\ UNCHANGED <<raw, holds, call, value, outcome, seen, monitored, updates, told, meant>>

\* SetValue of the network variable, which fails if it does not become available.
NetworkSetValue ==
  /\ call \in Writes /\ got = {}
  /\ \/ /\ raw.first
        /\ Change([first |-> TRUE, second |-> CodecEncode(value)], {value})
        /\ got' = {[first |-> TRUE, second |-> EmptyValue]}
     \/ /\ ~raw.first
        /\ got' = {NoAnswer}
        /\ UNCHANGED <<raw, holds, seen, updates>>
  /\ UNCHANGED <<call, value, outcome, monitored, told, meant>>

\* Answers with the value as it is, if the decoding fails.
Bug_Decoded(a) ==
  IF a.first /\ ~CodecDecode(a.second).first THEN a ELSE CodecDecode(a.second)

\* GetValue: what the application gets for answer a.
Decoded(a) == IF a.first THEN CodecDecode(a.second) ELSE NoAnswer

\* The operation returns; GetVariableValue throws VariableUnavailableException when
\* outcome says that there is no value.
Return ==
  \E a \in got :
    /\ outcome' = CASE call \in Writes -> a
                    [] call \in {"GetValue", "GetVariableValue"} -> Decoded(a)
                    [] OTHER -> [Decoded(a) EXCEPT !.second = EmptyValue]
    /\ call' = "none"
    /\ got' = {}
    /\ UNCHANGED <<raw, holds, value, seen, monitored, updates, told, meant>>

-----------------------------------------------------------------------------
(* The callback *)

\* The network variable calls back for the updates from now on.
SetMonitorCallback ==
  /\ ~monitored
  /\ monitored' = TRUE
  /\ UNCHANGED <<raw, holds, call, value, got, outcome, seen, updates, told, meant>>

\* Passes on the availability of the network variable.
Bug_WrappedCallback(value_, available) ==
  [first |-> available, second |-> CodecDecode(value_).second]

\* What the application's function is called with.
WrappedCallback(value_, available) ==
  [first |-> available /\ CodecDecode(value_).first, second |-> CodecDecode(value_).second]

CallBack ==
  /\ updates # << >>
  /\ told' = WrappedCallback(Head(updates).raw.second, Head(updates).raw.first)
  /\ meant' = Head(updates).holds
  /\ updates' = Tail(updates)
  /\ UNCHANGED <<raw, holds, call, value, got, outcome, seen, monitored>>

-----------------------------------------------------------------------------

Next ==
  \/ Foreign
  \/ \E o \in Reads : Begin(o, EmptyValue)
  \/ \E o \in Writes, v \in Value : Begin(o, v)
  \/ NetworkGetValue \/ NetworkSetValue \/ Return
  \/ SetMonitorCallback \/ CallBack

Spec == Init /\ [][Next]_vars

-----------------------------------------------------------------------------
(* Properties *)

CurrentRead ==
  call' = "none" /\ call \in Reads =>
    /\ outcome'.first => \E h \in seen : h # {}
    /\ outcome'.first /\ call \in {"GetValue", "GetVariableValue"} => {outcome'.second} \in seen
    /\ outcome'.first \/ {} \in seen

\* GetValue gives the value of an application that the variable really held during the
\* call, whoever wrote it, and never anything else that was in the variable; when it
\* or WaitForAvailable fail, there was a moment without such a value (GetValue,
\* Base64VariableCodec).
ReadsAreCurrent == [][CurrentRead]_vars

\* The callback is told what the application would have read just after the update:
\* the value if and only if the variable held a value of an application and was
\* connected (SetMonitorCallback).
CallbackTellsValue ==
  IF told.first THEN meant = {told.second} ELSE meant = {}

=============================================================================
