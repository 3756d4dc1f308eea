---------------------------- MODULE Configuration ----------------------------
(***************************************************************************)
(* The configurations of client and server, their validation, the parsing  *)
(* of an encoding (base/protocol_rpc_client_config.cpp,                    *)
(* base/protocol_rpc_server_config.cpp, factory/protocol_factory_utils.cpp)*)
(* and the conversion of durations (base/timing_utils.cpp).  Nothing in    *)
(* the library calls the two validation functions; applications may.       *)
(*                                                                         *)
(* Durations in seconds are integers here, in quarters of a nanosecond;    *)
(* 64-bit integers are of 2 * Half values.  The clock counts from its      *)
(* epoch, and is not set back.                                             *)
(***************************************************************************)
EXTENDS Integers, RPCPackets

CONSTANTS
  Half,        \* 2^63
  MaxTime,     \* bound: the last instant
  Duration     \* durations that applications configure

ASSUME HalfAssumption == Half \in Nat \ {0}
ASSUME TimeAssumption == MaxTime \in Nat /\ MaxTime < Half
ASSUME DurationAssumption == Duration \subseteq Int

VARIABLE now   \* utils::GetCurrentTimestamp

Tick == now < MaxTime /\ now' = now + 1

-----------------------------------------------------------------------------
(* Conversions *)

UInt64 == 0 .. 2 * Half - 1

\* lround: the nearest integer to d / u, or of the two nearest the one farther from 0.
LRound(d, u) ==
  IF d >= 0 THEN (2 * d + u) \div (2 * u) ELSE -((-2 * d + u) \div (2 * u))

InRange(d, u) == LRound(d, u) \in -Half .. Half - 1

Unsigned(n) == IF n < 0 THEN n + 2 * Half ELSE n
Signed(n) == IF n >= Half THEN n - 2 * Half ELSE n

\* Of d, in units of 1/u nanosecond; lround of a value out of range is any value.
ToNanoseconds(d, u) == IF InRange(d, u) THEN {Unsigned(LRound(d, u))} ELSE UInt64

-----------------------------------------------------------------------------
(* Configurations *)

HasField(c, m) == Is(c, "struct") /\ Has(c.struct, m)

\* It does not throw.
ValidateConfigurationField(c, m, t) == HasMember(c, m, t)

\* ParsePayloadEncoding: whether it does not throw, and what it returns.
Parses(c) ==
  HasField(c, "Encoding") =>
    /\ ValidateConfigurationField(c, "Encoding", "string")
    /\ c.struct["Encoding"].string.plain \in {"None", "Base64"}

ParsePayloadEncoding(c) ==
  IF HasField(c, "Encoding") /\ c.struct["Encoding"].string.plain = "None" THEN kNone ELSE kBase64

SyncConfig(e) == [m_encoding |-> e, m_async |-> FALSE, m_timeout_sec |-> 0, m_polling_interval_sec |-> 0]

AsyncConfig(e, t, i) ==
  [m_encoding |-> e, m_async |-> TRUE, m_timeout_sec |-> t, m_polling_interval_sec |-> i]

ValidateProtocolRPCClientConfig(c) ==
  /\ IsSupportedPayloadEncoding(c.m_encoding)
  /\ c.m_async => c.m_timeout_sec > 0 /\ c.m_polling_interval_sec > 0

ValidateProtocolRPCServerConfig(x) == x > 0

Lesser(a, b) == IF a < b THEN a ELSE b

=============================================================================
