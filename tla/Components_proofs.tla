-------------------------- MODULE Components_proofs --------------------------
(***************************************************************************)
(* Proofs about the components that Components puts together.  Each part   *)
(* is about one of them alone; the last one is about Components.           *)
(* WaitsAsConfigured of ClientTiming and AbandonedAreReclaimed of          *)
(* ServerTiming hold for integers of any width, any configuration and any  *)
(* time; the properties of the others for any values, names, results and   *)
(* number of calls.                                                        *)
(***************************************************************************)
EXTENDS Components, TLAPS

-----------------------------------------------------------------------------
(* Conversion of durations *)

\* Rounding to nanoseconds is off by half a nanosecond at most (lround), for the
\* configured time and for the half of it.
LEMMA LRoundOfPositive ==
  ASSUME NEW d \in Int, d > 0
  PROVE  /\ LRound(d, 4) \in Nat /\ 4 * LRound(d, 4) <= d + 2 /\ 4 * LRound(d, 4) > d - 2
         /\ LRound(d, 8) \in Nat /\ 8 * LRound(d, 8) <= d + 4
<1>1. LRound(d, 4) = (2 * d + 4) \div 8 /\ LRound(d, 8) = (2 * d + 8) \div 16
  <2>1. 2 * 4 = 8 /\ 2 * 8 = 16
    OBVIOUS
  <2> QED BY <2>1 DEF LRound
<1>2. PICK q \in Int : q = (2 * d + 4) \div 8
  OBVIOUS
<1>3. PICK r \in Int : r = (2 * d + 8) \div 16
  OBVIOUS
<1>4. 8 * q <= 2 * d + 4 /\ 2 * d + 4 < 8 * q + 8
  BY <1>2
<1>5. 16 * r <= 2 * d + 8 /\ 2 * d + 8 < 16 * r + 16
  BY <1>3
<1> QED BY <1>1, <1>2, <1>3, <1>4, <1>5

\* So is the conversion of a positive duration that fits into 64 bits
\* (utils::ToNanoseconds).
LEMMA NanosecondsOfPositive ==
  ASSUME NEW d \in Int, d > 0, InRange(d, 4)
  PROVE  /\ \A n \in ToNanoseconds(d, 4) :
              n \in Nat /\ n < Half /\ 4 * n <= d + 2 /\ 4 * n > d - 2
         /\ \A n \in ToNanoseconds(d, 8) : n \in Nat /\ 8 * n <= d + 4
<1> DEFINE e == LRound(d, 4)
           c == LRound(d, 8)
<1>1. e \in Nat /\ 4 * e <= d + 2 /\ 4 * e > d - 2 /\ c \in Nat /\ 8 * c <= d + 4
  BY LRoundOfPositive
<1>2. e < Half /\ Half \in Nat
  BY HalfAssumption DEF InRange
<1>3. c <= e
  <2> HIDE DEF e, c
  <2> SUFFICES ASSUME c >= e + 1 PROVE FALSE
    BY <1>1
  <2> QED BY <1>1
<1>4. InRange(d, 8)
  <2>1. LRound(d, 8) \in Nat /\ LRound(d, 8) < Half
    BY <1>1, <1>2, <1>3
  <2> QED BY <2>1, <1>2 DEF InRange
<1>5. ToNanoseconds(d, 4) = {e} /\ ToNanoseconds(d, 8) = {c}
  BY <1>1, <1>4 DEF ToNanoseconds, Unsigned
<1> QED BY <1>1, <1>2, <1>5

-----------------------------------------------------------------------------
(* The client *)

\* The configuration is one that the constructors make, and an accepted one is valid.
ConfigOK ==
  /\ cfg.m_async \in BOOLEAN
  /\ cfg.m_timeout_sec \in Int
  /\ cfg.m_polling_interval_sec \in Int
  /\ client_accepted /\ cfg.m_async => cfg.m_timeout_sec > 0 /\ cfg.m_polling_interval_sec > 0

\* Outside of "idle", the handler holds the converted durations of the configuration.
HandlerOK ==
  stage # "idle" =>
    /\ cfg.m_async
    /\ m_timeout_duration_ns \in ToNanoseconds(cfg.m_timeout_sec, 4)
    /\ m_polling_interval_ns \in ToNanoseconds(cfg.m_polling_interval_sec, 4)

\* The clock only moves forward.
ClockOK ==
  /\ now \in Nat /\ now <= MaxTime
  /\ m_start_timestamp \in Nat /\ m_start_timestamp <= now

ClientIInv == ConfigOK /\ HandlerOK /\ ClockOK /\ WaitsAsConfigured

LEMMA InitClientIInv == ClientInit => ClientIInv
  BY TimeAssumption
     DEF ClientInit, ClientIInv, ConfigOK, HandlerOK, ClockOK, WaitsAsConfigured, SyncConfig

\* The step that decides: it keeps to the configuration.
LEMMA WaitKeepsToConfig ==
  ASSUME ClientIInv, Wait
  PROVE  WaitsAsConfigured'
<1> SUFFICES ASSUME client_accepted, Fits
             PROVE  WaitsAsConfigured'
  BY DEF Wait, WaitsAsConfigured, Fits, InRange
<1> DEFINE t == cfg.m_timeout_sec
           i == cfg.m_polling_interval_sec
           tn == m_timeout_duration_ns
           in == m_polling_interval_ns
<1>1. t \in Int /\ i \in Int /\ t > 0 /\ i > 0
  BY DEF ClientIInv, ConfigOK, HandlerOK, Wait
<1>2. tn \in Nat /\ tn < Half /\ 4 * tn <= t + 2 /\ 4 * tn > t - 2
  BY <1>1, NanosecondsOfPositive DEF ClientIInv, HandlerOK, Wait, Fits
<1>3. in \in Nat /\ in < Half /\ 4 * in <= i + 2
  BY <1>1, NanosecondsOfPositive DEF ClientIInv, HandlerOK, Wait, Fits
<1>4. now \in Nat /\ m_start_timestamp \in Nat /\ m_start_timestamp <= now
  BY DEF ClientIInv, ClockOK
<1>5. passed_ns = now - m_start_timestamp /\ passed_ns \in Nat
  BY <1>4 DEF passed_ns, Unsigned
<1>6. CASE passed_ns > tn
  <2>1. stage' = "gave_up" /\ asked' = now /\ m_start_timestamp' = m_start_timestamp /\ cfg' = cfg
    BY <1>6 DEF Wait, handler
  <2>2. 4 * (now - m_start_timestamp) > t
    BY <1>1, <1>2, <1>4, <1>5, <1>6
  <2> QED BY <2>1, <2>2 DEF WaitsAsConfigured
<1>7. CASE ~(passed_ns > tn)
  <2> DEFINE n == Lesser(in, tn - passed_ns)
  <2>1. n \in Nat /\ n <= in /\ n <= tn - passed_ns /\ n < Half
    <3> DEFINE left == tn - passed_ns
    <3>1. left \in Nat /\ left < Half
      BY <1>2, <1>5, <1>7, HalfAssumption
    <3>2. (n = in /\ in < left) \/ (n = left /\ ~(in < left))
      BY DEF Lesser
    <3> HIDE DEF n, left, in, tn
    <3>3. n \in Nat /\ n <= in /\ n <= left /\ n < Half
      BY <1>3, <3>1, <3>2, HalfAssumption
    <3> QED BY <3>3 DEF left
  <2>2. SleepUntil(n) = now + n
    BY <2>1, <1>4, HalfAssumption DEF SleepUntil, Signed
  <2>3. /\ stage' = "asleep" /\ asked' = now /\ wake' = now + n
        /\ m_start_timestamp' = m_start_timestamp /\ cfg' = cfg
    BY <1>7, <2>2 DEF Wait, handler
  <2>4. 4 * ((now + n) - now) <= i + 2 /\ 4 * ((now + n) - m_start_timestamp) <= t + 2
    BY <1>1, <1>2, <1>3, <1>4, <1>5, <2>1
  <2> QED BY <2>3, <2>4 DEF WaitsAsConfigured
<1> QED BY <1>6, <1>7

LEMMA NextClientIInv == ClientIInv /\ [ClientNext]_<<now, clientVars>> => ClientIInv'
<1> SUFFICES ASSUME ClientIInv, [ClientNext]_<<now, clientVars>>
             PROVE  ClientIInv'
  OBVIOUS
<1> USE DEF ClientIInv
<1>1. CASE ConfigureClient
  <2>1. ConfigOK'
    <3>1. PICK e : \/ cfg' = SyncConfig(e)
                   \/ \E t \in Duration, i \in Duration : cfg' = AsyncConfig(e, t, i)
      BY <1>1 DEF ConfigureClient
    <3>2. client_accepted' = FALSE
      BY <1>1 DEF ConfigureClient
    <3>3. CASE cfg' = SyncConfig(e)
      BY <3>2, <3>3 DEF ConfigOK, SyncConfig
    <3>4. CASE \E t \in Duration, i \in Duration : cfg' = AsyncConfig(e, t, i)
      BY <3>2, <3>4, DurationAssumption DEF ConfigOK, AsyncConfig
    <3> QED BY <3>1, <3>3, <3>4
  <2> QED BY <1>1, <2>1 DEF ConfigureClient, HandlerOK, ClockOK, WaitsAsConfigured, handler
<1>2. CASE ValidateClient
  <2>1. ConfigOK'
    BY <1>2 DEF ConfigOK, ValidateClient, ValidateProtocolRPCClientConfig
  <2> QED BY <1>2, <2>1 DEF ValidateClient, HandlerOK, ClockOK, WaitsAsConfigured, handler
<1>3. CASE Start
  <2>1. ConfigOK'
    BY <1>3 DEF Start, ConfigOK
  <2>2. HandlerOK'
    BY <1>3 DEF Start, HandlerOK
  <2>3. ClockOK'
    <3>1. m_start_timestamp' = now /\ now' = now
      BY <1>3 DEF Start
    <3> QED BY <3>1 DEF ClockOK
  <2>4. WaitsAsConfigured'
    BY <1>3 DEF Start, WaitsAsConfigured
  <2> QED BY <2>1, <2>2, <2>3, <2>4
<1>4. CASE Ready \/ GiveUp
  BY <1>4 DEF Ready, GiveUp, Return, ConfigOK, HandlerOK, ClockOK, WaitsAsConfigured
<1>5. CASE Wait
  <2>1. ConfigOK' /\ HandlerOK' /\ ClockOK'
    BY <1>5 DEF Wait, ConfigOK, HandlerOK, ClockOK, handler
  <2> QED BY <1>5, <2>1, WaitKeepsToConfig
<1>6. CASE WakeUp
  BY <1>6 DEF WakeUp, ConfigOK, HandlerOK, ClockOK, WaitsAsConfigured, handler
<1>7. CASE ClientTick
  BY <1>7, TimeAssumption
     DEF ClientTick, Tick, ConfigOK, HandlerOK, ClockOK, WaitsAsConfigured, Fits, InRange, handler
<1>8. CASE UNCHANGED <<now, clientVars>>
  BY <1>8 DEF clientVars, ConfigOK, HandlerOK, ClockOK, WaitsAsConfigured, Fits, InRange, handler
<1> QED BY <1>1, <1>2, <1>3, <1>4, <1>5, <1>6, <1>7, <1>8 DEF ClientNext

\* With an accepted configuration that fits into 64 bits, of whatever width, the client
\* polls as often as it was told to, does not sleep past its timeout and does not give
\* up before it.
THEOREM ClientWaitsAsConfigured == ClientSpec => []WaitsAsConfigured
<1>1. ClientSpec => []ClientIInv
  BY InitClientIInv, NextClientIInv, PTL DEF ClientSpec
<1> QED BY <1>1, PTL DEF ClientIInv

-----------------------------------------------------------------------------
(* The server *)

\* The table and the expiration handler hold the converted durations; an accepted
\* configuration is valid.
DurationsOK ==
  /\ m_expiration_sec \in Int
  /\ server_accepted => m_expiration_sec > 0
  /\ built => /\ m_expiration_time_ns \in ToNanoseconds(m_expiration_sec, 4)
              /\ m_cleanup_ns \in ToNanoseconds(m_expiration_sec, 8)

\* Everything happened in the past, and the last sweep was with the last packet or
\* before it.
TimesOK ==
  /\ now \in Nat /\ now <= MaxTime
  /\ m_last_timestamp \in Nat /\ packet \in Nat /\ m_last_access \in Nat /\ finished \in Nat
  /\ m_last_timestamp <= packet /\ packet <= now /\ m_last_access <= now
  /\ ~built => request = "none" /\ packet = 0

\* A configuration whose times mean what they say.
Proper == built /\ server_accepted /\ InRange(m_expiration_sec, 4)

\* The last packet found a sweep due, or was within the interval of one.
SweptInTime == Proper => packet - m_last_timestamp <= m_cleanup_ns

\* What a sweep found finished and left, was not expired then.
SpareNoExpired ==
  Proper /\ request = "finished" /\ finished < m_last_timestamp =>
    m_last_timestamp - m_last_access <= m_expiration_time_ns

ServerIInv == DurationsOK /\ TimesOK /\ SweptInTime /\ SpareNoExpired

LEMMA InitServerIInv == ServerInit => ServerIInv
  BY TimeAssumption
     DEF ServerInit, ServerIInv, DurationsOK, TimesOK, Proper, SweptInTime, SpareNoExpired

\* The two converted durations of a proper configuration.
LEMMA ProperDurations ==
  ASSUME DurationsOK, Proper
  PROVE  /\ m_expiration_sec \in Int /\ m_expiration_sec > 0
         /\ m_expiration_time_ns \in Nat /\ 4 * m_expiration_time_ns <= m_expiration_sec + 2
         /\ m_cleanup_ns \in Nat /\ 8 * m_cleanup_ns <= m_expiration_sec + 4
  BY NanosecondsOfPositive DEF DurationsOK, Proper

\* What the invariant is for.
LEMMA ServerIInvSuffices == ServerIInv => AbandonedAreReclaimed
<1> SUFFICES ASSUME ServerIInv, server_accepted, InRange(m_expiration_sec, 4),
                    request = "finished", finished <= packet
             PROVE  \/ 8 * (packet - m_last_access) <= 3 * m_expiration_sec + 8
                    \/ 8 * (packet - finished) <= m_expiration_sec + 4
  BY DEF AbandonedAreReclaimed
<1>1. Proper
  BY DEF ServerIInv, TimesOK, Proper
<1>2. /\ m_expiration_sec \in Int
      /\ m_expiration_time_ns \in Nat /\ 4 * m_expiration_time_ns <= m_expiration_sec + 2
      /\ m_cleanup_ns \in Nat /\ 8 * m_cleanup_ns <= m_expiration_sec + 4
  BY <1>1, ProperDurations DEF ServerIInv
<1>3. m_last_timestamp \in Nat /\ packet \in Nat /\ m_last_access \in Nat /\ finished \in Nat
  BY DEF ServerIInv, TimesOK
<1>4. packet - m_last_timestamp <= m_cleanup_ns
  BY <1>1 DEF ServerIInv, SweptInTime
<1>5. CASE finished < m_last_timestamp
  <2>1. m_last_timestamp - m_last_access <= m_expiration_time_ns
    BY <1>1, <1>5 DEF ServerIInv, SpareNoExpired
  <2> QED BY <2>1, <1>2, <1>3, <1>4
<1>6. CASE ~(finished < m_last_timestamp)
  BY <1>2, <1>3, <1>4, <1>6
<1> QED BY <1>5, <1>6

\* A packet is handled after the sweep, if one was due.
LEMMA PacketSweepsInTime ==
  ASSUME ServerIInv, NEW r, NEW a \in Nat, a <= now, Packet(r, a), finished' \in Nat
  PROVE  DurationsOK' /\ TimesOK' /\ SweptInTime'
<1>1. /\ built /\ built' = built /\ m_expiration_sec' = m_expiration_sec
      /\ server_accepted' = server_accepted /\ m_cleanup_ns' = m_cleanup_ns
      /\ m_expiration_time_ns' = m_expiration_time_ns
      /\ now' = now /\ packet' = now /\ m_last_access' = a
      /\ m_last_timestamp' = IF IsCleanUpNeeded THEN now ELSE m_last_timestamp
  BY DEF Packet, config
<1>2. DurationsOK'
  BY <1>1 DEF ServerIInv, DurationsOK
<1>3. TimesOK'
  BY <1>1 DEF ServerIInv, TimesOK
<1>4. SweptInTime'
  <2> SUFFICES ASSUME Proper PROVE now - m_last_timestamp' <= m_cleanup_ns
    BY <1>1 DEF SweptInTime, Proper
  <2>1. m_cleanup_ns \in Nat
    BY ProperDurations DEF ServerIInv
  <2>2. now - m_last_timestamp \in Nat
    BY DEF ServerIInv, TimesOK
  <2>3. CASE IsCleanUpNeeded
    BY <1>1, <2>1, <2>3 DEF ServerIInv, TimesOK
  <2>4. CASE ~IsCleanUpNeeded
    BY <1>1, <2>1, <2>2, <2>4 DEF IsCleanUpNeeded, Unsigned
  <2> QED BY <2>3, <2>4
<1> QED BY <1>2, <1>3, <1>4

\* What a packet leaves finished was finished before, and the sweep spared it.
LEMMA PacketSparesNoExpired ==
  ASSUME ServerIInv, NEW a \in Nat, m_last_access <= a, Packet(Swept, a), finished' = finished
  PROVE  SpareNoExpired'
<1> SUFFICES ASSUME Proper, Swept = "finished", finished < m_last_timestamp'
             PROVE  m_last_timestamp' - a <= m_expiration_time_ns
  BY DEF SpareNoExpired, Proper, Packet, config
<1>1. m_last_timestamp' = IF IsCleanUpNeeded THEN now ELSE m_last_timestamp
  BY DEF Packet
<1>2. request = "finished" /\ ~(IsCleanUpNeeded /\ IsExpired)
  BY DEF Swept
<1>3. m_expiration_time_ns \in Nat
  BY ProperDurations DEF ServerIInv
<1>4. now \in Nat /\ m_last_access \in Nat /\ m_last_timestamp \in Nat /\ m_last_access <= now
  BY DEF ServerIInv, TimesOK
<1>5. CASE IsCleanUpNeeded
  <2>1. now - m_last_access <= m_expiration_time_ns
    BY <1>2, <1>3, <1>4, <1>5 DEF IsExpired, Unsigned
  <2> QED BY <1>1, <1>3, <1>4, <1>5, <2>1
<1>6. CASE ~IsCleanUpNeeded
  <2>1. m_last_timestamp - m_last_access <= m_expiration_time_ns
    BY <1>1, <1>2, <1>6 DEF ServerIInv, SpareNoExpired
  <2> QED BY <1>1, <1>3, <1>4, <1>6, <2>1
<1> QED BY <1>5, <1>6

LEMMA NextServerIInv == ServerIInv /\ [ServerNext]_<<now, serverVars>> => ServerIInv'
<1> SUFFICES ASSUME ServerIInv, [ServerNext]_<<now, serverVars>>
             PROVE  ServerIInv'
  OBVIOUS
<1>0. /\ now \in Nat /\ m_last_access \in Nat /\ finished \in Nat /\ m_last_timestamp \in Nat
      /\ m_last_access <= now /\ m_last_timestamp <= now
  BY DEF ServerIInv, TimesOK
<1>1. CASE ConfigureServer
  <2>1. DurationsOK'
    BY <1>1, DurationAssumption DEF ServerIInv, DurationsOK, ConfigureServer, ValidateProtocolRPCServerConfig
  <2>2. TimesOK' /\ SweptInTime' /\ SpareNoExpired'
    BY <1>1 DEF ServerIInv, TimesOK, SweptInTime, SpareNoExpired, Proper, ConfigureServer
  <2> QED BY <2>1, <2>2 DEF ServerIInv
<1>2. CASE ProtocolRPCServer
  <2>1. DurationsOK' /\ TimesOK'
    BY <1>2 DEF ServerIInv, DurationsOK, TimesOK, ProtocolRPCServer
  <2>2. SweptInTime'
    <3> SUFFICES ASSUME Proper' PROVE 0 <= m_cleanup_ns'
      BY <1>2 DEF ServerIInv, TimesOK, SweptInTime, ProtocolRPCServer
    <3> QED BY <2>1, NanosecondsOfPositive DEF DurationsOK, Proper
  <2>3. SpareNoExpired'
    BY <1>2 DEF ServerIInv, TimesOK, SpareNoExpired, ProtocolRPCServer
  <2> QED BY <2>1, <2>2, <2>3 DEF ServerIInv
<1>3. CASE NewRequest
  <2>1. Packet("running", now) /\ finished' = 0
    BY <1>3 DEF NewRequest
  <2>2. SpareNoExpired'
    BY <2>1 DEF Packet, SpareNoExpired
  <2> QED BY <1>0, <2>1, <2>2, PacketSweepsInTime DEF ServerIInv
<1>4. CASE GetReply
  <2>1. Packet("none", m_last_access) /\ finished' = finished
    BY <1>4 DEF GetReply
  <2>2. SpareNoExpired'
    BY <2>1 DEF Packet, SpareNoExpired
  <2> QED BY <1>0, <2>1, <2>2, PacketSweepsInTime DEF ServerIInv
<1>5. CASE OtherPacket
  <2>1. Packet(Swept, m_last_access) /\ finished' = finished
    BY <1>5 DEF OtherPacket
  <2> QED BY <1>0, <2>1, PacketSweepsInTime, PacketSparesNoExpired DEF ServerIInv
<1>6. CASE Poll
  <2>1. PICK a \in {m_last_access, now} : Packet(Swept, a) /\ finished' = finished
    BY <1>6 DEF Poll
  <2> QED BY <1>0, <2>1, PacketSweepsInTime, PacketSparesNoExpired DEF ServerIInv
<1>7. CASE Finish
  BY <1>0, <1>7 DEF Finish, config, ServerIInv, DurationsOK, TimesOK, SweptInTime, SpareNoExpired, Proper
<1>8. CASE ServerTick
  BY <1>8, TimeAssumption
     DEF ServerTick, Tick, config, ServerIInv, DurationsOK, TimesOK, SweptInTime, SpareNoExpired, Proper
<1>9. CASE UNCHANGED <<now, serverVars>>
  BY <1>9 DEF serverVars, config, ServerIInv, DurationsOK, TimesOK, SweptInTime, SpareNoExpired, Proper
<1> QED BY <1>1, <1>2, <1>3, <1>4, <1>5, <1>6, <1>7, <1>8, <1>9 DEF ServerNext

\* With an accepted configuration that fits into 64 bits, of whatever width, a finished
\* request that nobody asks for is gone with the first packet that arrives one and a
\* half times the configured time after its last access.
THEOREM ServerReclaimsAbandoned == ServerSpec => []AbandonedAreReclaimed
<1>1. ServerSpec => []ServerIInv
  BY InitServerIInv, NextServerIInv, PTL DEF ServerSpec
<1> QED BY <1>1, ServerIInvSuffices, PTL

-----------------------------------------------------------------------------
(* Loggers: where exceptions go *)

NetworkParts == {"network", "client_network", "server_network"}
ProtocolParts == {"protocol", "server_input", "server_output"}
OwnLoggers == {"client_input", "client_output"}

\* The result of an application is none of the layers between.
LEMMA AppResultIsOwn ==
  ASSUME Stacks!AppResultAssumption, NEW r \in AppResult
  PROVE  r \notin {Stacks!ClientTransportException, Stacks!ServerProtocolException,
                   Stacks!ClientTransportEncodingError, Stacks!AsynchronousProtocolTimeout}
  BY DEF Stacks!AppResultAssumption, Stacks!GENERIC_APPLICATION_ERROR_START, Stacks!Success,
         Stacks!ClientTransportException, Stacks!ServerProtocolException,
         Stacks!ClientTransportEncodingError, Stacks!AsynchronousProtocolTimeout

\* A stack of functors throws if anything throws, and has no protocol.
FunctorThrows == stack = "functor" => inner = "none" /\ (pc = "threw" <=> threw # {})

\* In a stack of protocols, the exceptions of the application's own loggers end the
\* call, those of the network become its result...
NetworkThrows ==
  stack = "protocol" =>
    /\ pc = "threw" <=> \E w \in OwnLoggers : w \in threw
    /\ result = Stacks!ClientTransportException <=> \E w \in NetworkParts : w \in threw
    /\ (\E w \in NetworkParts : w \in threw) => pc \in {"output", "returned", "threw"}
    /\ message.result # Stacks!ClientTransportException

\* ...and those of the server's protocol that of the packet.
ProtocolThrows ==
  LET throws == \E w \in ProtocolParts : w \in threw
  IN  stack = "protocol" =>
        /\ inner = "threw" => throws
        /\ message.result = Stacks!ServerProtocolException => throws
        /\ result = Stacks!ServerProtocolException => throws
        /\ inner_result \in AppResult \union {Stacks!Success}

StacksIInv == stack \in {"protocol", "functor"} /\ FunctorThrows /\ NetworkThrows /\ ProtocolThrows

LEMMA StacksInit == Stacks!Init => StacksIInv
  BY DEF Stacks!Init, Stacks!Request, StacksIInv, FunctorThrows, NetworkThrows, ProtocolThrows,
         Stacks!Success, Stacks!ClientTransportException, Stacks!ServerProtocolException,
         NetworkParts, ProtocolParts, OwnLoggers

\* A functor of the client throws, in the network or in a logger of its own.
LEMMA FunctorThrowsContained ==
  ASSUME StacksIInv, NEW who \in NetworkParts, Stacks!FunctorThrows(who),
         UNCHANGED <<Stacks!stacks, Stacks!protocol>>, pc # "threw"
  PROVE  StacksIInv'
<1> USE DEF Stacks!FunctorThrows, Stacks!GoTo, Stacks!stacks, Stacks!protocol
<1>1. who \notin ProtocolParts /\ who \notin OwnLoggers
  BY DEF NetworkParts, ProtocolParts, OwnLoggers
<1>2. FunctorThrows'
  BY DEF StacksIInv, FunctorThrows
<1>3. NetworkThrows'
  BY <1>1 DEF StacksIInv, NetworkThrows
<1>4. ProtocolThrows'
  BY <1>1 DEF StacksIInv, ProtocolThrows, Stacks!ClientTransportException, Stacks!ServerProtocolException
<1> QED BY <1>2, <1>3, <1>4 DEF StacksIInv

\* The call goes on, and nothing throws.
LEMMA GoesOnContained ==
  ASSUME StacksIInv, NEW to, Stacks!GoTo(to), to # "threw", pc \notin {"threw", "returned", "output"},
         UNCHANGED <<Stacks!stacks, Stacks!protocol, threw>>
  PROVE  StacksIInv'
  BY DEF Stacks!GoTo, Stacks!stacks, Stacks!protocol, StacksIInv, FunctorThrows, NetworkThrows,
         ProtocolThrows

LEMMA NetworkContained ==
  ASSUME StacksIInv, NEW from, NEW to, from \notin {"threw", "returned", "output"}, to # "threw",
         \/ Stacks!Network(from, to)
         \/ \E d : \E l \in {"client_network", "server_network"} : Stacks!LogPacket(from, l, d, to)
  PROVE  StacksIInv'
<1>1. /\ pc = from /\ UNCHANGED <<Stacks!stacks, Stacks!protocol>>
      /\ \/ Stacks!GoTo(to) /\ UNCHANGED threw
         \/ \E who \in NetworkParts : Stacks!FunctorThrows(who)
  BY DEF Stacks!Network, Stacks!LogPacket, NetworkParts
<1> QED BY <1>1, FunctorThrowsContained, GoesOnContained

\* What becomes of the protocol is its result, or an exception.
LEMMA OutcomeFits ==
  ASSUME Stacks!AppResultAssumption, StacksIInv, stack = "protocol"
  PROVE  /\ Stacks!Outcome # Stacks!ClientTransportException
         /\ Stacks!Outcome = Stacks!ServerProtocolException => \E w \in ProtocolParts : w \in threw
<1>1. inner_result # Stacks!ClientTransportException /\ inner_result # Stacks!ServerProtocolException
  BY AppResultIsOwn DEF StacksIInv, ProtocolThrows, Stacks!Success, Stacks!ClientTransportException,
                        Stacks!ServerProtocolException
<1> QED BY <1>1 DEF Stacks!Outcome, StacksIInv, ProtocolThrows, Stacks!ClientTransportException,
                    Stacks!ServerProtocolException

LEMMA ServerContained ==
  ASSUME Stacks!AppResultAssumption, StacksIInv,
         Stacks!ServerInput \/ Stacks!Protocol \/ Stacks!ServerOutput \/ Stacks!Serve \/ Stacks!Answer
  PROVE  StacksIInv'
<1> USE DEF StacksIInv, FunctorThrows, NetworkThrows, ProtocolThrows, Stacks!stacks, Stacks!outer, Stacks!protocol
<1>1. ASSUME Stacks!ServerInput \/ Stacks!Protocol \/ Stacks!ServerOutput
      PROVE  /\ stack = "protocol" /\ UNCHANGED <<stack, pc, message, result>>
             /\ inner # "threw" /\ inner_result' \in AppResult \union {Stacks!Success}
             /\ \/ inner' # "threw" /\ threw' = threw
                \/ inner' = "threw" /\ \E who \in ProtocolParts : threw' = threw \union {who}
  BY <1>1 DEF Stacks!ServerInput, Stacks!Protocol, Stacks!ServerOutput, Stacks!InnerThrows, ProtocolParts
<1>2. CASE Stacks!ServerInput \/ Stacks!Protocol \/ Stacks!ServerOutput
  <2>1. \A who \in ProtocolParts : who \notin NetworkParts /\ who \notin OwnLoggers
    BY DEF NetworkParts, ProtocolParts, OwnLoggers
  <2> QED BY <1>1, <1>2, <2>1
<1>3. ASSUME Stacks!Serve \/ Stacks!Answer
      PROVE  /\ stack = "protocol" /\ UNCHANGED <<stack, result, threw, inner_result>>
             /\ pc \notin {"threw", "returned", "output"} /\ pc' \in {"protocol", "server_reply"}
             /\ message'.result \in {message.result, Stacks!Success, Stacks!Outcome}
             /\ inner' \in {inner, "input"}
  BY <1>3 DEF Stacks!Serve, Stacks!Answer, Stacks!Ended, Stacks!Reply, Stacks!Begins, Stacks!BeginsNot
<1>4. CASE Stacks!Serve \/ Stacks!Answer
  BY <1>3, <1>4, OutcomeFits DEF Stacks!Success, Stacks!ClientTransportException, Stacks!ServerProtocolException
<1> QED BY <1>2, <1>4

LEMMA ClientContained ==
  ASSUME StacksIInv,
         Stacks!ClientInput \/ Stacks!ClientOutput \/ Stacks!Call \/ Stacks!Receive \/ Stacks!Functor
  PROVE  StacksIInv'
<1> USE DEF StacksIInv, FunctorThrows, NetworkThrows, ProtocolThrows, Stacks!stacks, Stacks!outer, Stacks!protocol
<1>1. CASE Stacks!ClientInput \/ Stacks!ClientOutput
  <2>1. /\ UNCHANGED <<stack, message, result, inner, inner_result>> /\ pc \in {"input", "output"}
        /\ \/ pc' \in {"client", "returned"} /\ threw' = threw /\ (pc = "output" => pc' = "returned")
           \/ pc' = "threw" /\ \E who \in OwnLoggers : threw' = threw \union {who}
    BY <1>1 DEF Stacks!ClientInput, Stacks!ClientOutput, Stacks!GoTo, OwnLoggers
  <2>2. \A who \in OwnLoggers : who \notin NetworkParts /\ who \notin ProtocolParts
    BY DEF NetworkParts, ProtocolParts, OwnLoggers
  <2> QED BY <2>1, <2>2
<1>2. CASE Stacks!Call \/ Stacks!Receive
  <2>1. /\ UNCHANGED <<stack, inner, inner_result, threw>> /\ pc \in {"client", "client_reply"}
        /\ \/ pc' = "functor" /\ result' = result /\ message'.result = Stacks!Success
           \/ /\ pc' = "output" /\ message' = message
              /\ result' \in {message.result, Stacks!ClientTransportEncodingError,
                              Stacks!AsynchronousProtocolTimeout}
    BY <1>2 DEF Stacks!Call, Stacks!Receive, Stacks!Yields, Stacks!Send, Stacks!Request
  <2> QED BY <2>1 DEF Stacks!Success, Stacks!ClientTransportException, Stacks!ServerProtocolException,
                      Stacks!ClientTransportEncodingError, Stacks!AsynchronousProtocolTimeout
<1>3. CASE Stacks!Functor
  BY <1>3 DEF Stacks!Functor, Stacks!FunctorThrows, Stacks!GoTo
<1> QED BY <1>1, <1>2, <1>3

LEMMA StacksNext ==
  ASSUME Stacks!AppResultAssumption, StacksIInv, [Stacks!Next]_(Stacks!vars)
  PROVE  StacksIInv'
<1>1. CASE Stacks!ClientFunctorInput \/ Stacks!ServerFunctorInput \/ Stacks!ServerFunctorOutput
           \/ Stacks!ClientFunctorOutput
  <2>1. PICK from \in {"functor", "arrived", "server_reply", "functor_reply"},
             to \in {"request", "server", "reply", "returned", "client_reply"},
             l \in {"client_network", "server_network"}, d \in {"kInput", "kOutput"} :
               Stacks!LogPacket(from, l, d, to)
    BY <1>1 DEF Stacks!ClientFunctorInput, Stacks!ServerFunctorInput, Stacks!ServerFunctorOutput,
                Stacks!ClientFunctorOutput
  <2> QED BY <2>1, NetworkContained
<1>2. CASE Stacks!Network("request", "arrived") \/ Stacks!Network("reply", "functor_reply")
  BY <1>2, NetworkContained
<1>3. CASE Stacks!ClientInput \/ Stacks!ClientOutput \/ Stacks!Call \/ Stacks!Receive \/ Stacks!Functor
  BY <1>3, ClientContained
<1>4. CASE Stacks!ServerInput \/ Stacks!Protocol \/ Stacks!ServerOutput \/ Stacks!Serve \/ Stacks!Answer
  BY <1>4, ServerContained
<1>5. CASE UNCHANGED Stacks!vars
  BY <1>5 DEF Stacks!vars, Stacks!stacks, Stacks!outer, Stacks!protocol, StacksIInv, FunctorThrows,
              NetworkThrows, ProtocolThrows
<1> QED BY <1>1, <1>2, <1>3, <1>4, <1>5 DEF Stacks!Next

\* LoggedStacks alone has the property of theorem ExceptionsStayContained.
LEMMA StacksContainExceptions ==
  ASSUME Stacks!AppResultAssumption
  PROVE  Stacks!Spec => []Stacks!ExceptionsAreContained
<1>1. StacksIInv => Stacks!ExceptionsAreContained
  BY DEF Stacks!ExceptionsAreContained, StacksIInv, FunctorThrows, NetworkThrows, ProtocolThrows,
         NetworkParts, ProtocolParts, OwnLoggers
<1>2. StacksIInv /\ [Stacks!Next]_(Stacks!vars) => StacksIInv'
  BY StacksNext
<1> QED BY <1>1, <1>2, StacksInit, PTL DEF Stacks!Spec

-----------------------------------------------------------------------------
(* Loggers: they tell the same call *)

Asking == {"functor", "request", "arrived", "server"}
Answering == {"server_reply", "reply", "functor_reply", "client_reply"}

\* Only parts of the stacks throw, and the protocol has ended if one of its did.
PartsThrow ==
  /\ threw \subseteq OwnLoggers \union NetworkParts \union ProtocolParts
  /\ (\E w \in ProtocolParts : w \in threw) => inner = "threw"

\* A request to begin finds the protocol not begun, and is for the operation that the
\* application called; what the client gets is what became of the protocol.
CallFits ==
  /\ op \in {"Invoke", "Service"}
  /\ pc \in {"input", "client"} => inner = "none"
  /\ inner # "none" => inner_op = op
  /\ pc \in Asking /\ message.command \in {"plain", "service", "new"} =>
       inner = "none" /\ Stacks!Asked(message) = op
  /\ pc \in Asking /\ message.command = "get" => Stacks!Ended
  /\ pc = "protocol" => message.command \in {"plain", "service"}
  /\ pc \in Answering =>
       /\ message.command = "poll" /\ message.ready => Stacks!Ended
       /\ message.command \in {"plain", "service", "get"} => Stacks!Ended /\ message.result = Stacks!Outcome
  /\ pc \in {"output", "returned"} /\ result \in AppResult => inner = "returned" /\ inner_result = result

\* The loggers of the server's protocol.
ServerLogs ==
  /\ inner \in {"none", "input"} => log["server_input"] = << >>
  /\ inner \in {"none", "input", "protocol"} => invoked = << >>
  /\ inner \notin {"returned", "threw"} => log["server_output"] = << >>
  /\ inner \in {"protocol", "output", "returned"} => Stacks!Tells("server_input", inner_op)
  /\ inner \in {"output", "returned"} => invoked = <<inner_op>>
  /\ inner = "returned" => Stacks!Tells("server_output", <<inner_op, inner_result>>)

\* The loggers of the client's protocol.
ClientLogs ==
  /\ pc = "input" => log["client_input"] = << >>
  /\ pc \notin {"input", "threw"} => Stacks!Tells("client_input", op)
  /\ pc \notin {"returned", "threw"} => log["client_output"] = << >>
  /\ pc = "returned" => Stacks!Tells("client_output", <<op, result>>)

\* The loggers of the two networks differ by the packet under way, until one is lost.
NetworkLogs ==
  LET client == log["client_network"]
      server == log["server_network"]
  IN  {"client_network", "server_network"} \subseteq loggers =>
        /\ pc \in {"request", "arrived"} => client = Append(server, <<"kInput", message>>)
        /\ pc \in {"reply", "functor_reply"} => server = Append(client, <<"kOutput", message>>)
        /\ \/ pc \in {"input", "client", "functor", "server", "protocol", "server_reply", "client_reply"}
           \/ pc \in {"output", "returned"} /\ result # Stacks!ClientTransportException
           => client = server

LogsIInv ==
  /\ DOMAIN log = Stacks!Logger
  /\ stack = "protocol" => PartsThrow /\ CallFits /\ ServerLogs /\ ClientLogs /\ NetworkLogs

LEMMA LogsInit == Stacks!Init => LogsIInv
<1> SUFFICES ASSUME Stacks!Init, stack = "protocol" PROVE LogsIInv
  BY DEF Stacks!Init, LogsIInv
<1> USE DEF Stacks!Init
<1>1. pc = "input"
  OBVIOUS
<1>2. CallFits
  BY <1>1 DEF CallFits, Asking, Answering
<1>3. \A l \in Stacks!Logger : log[l] = << >>
  OBVIOUS
<1>4. ServerLogs /\ ClientLogs /\ NetworkLogs
  BY <1>1, <1>3 DEF ServerLogs, ClientLogs, NetworkLogs, Stacks!Logger
<1> QED BY <1>2, <1>4 DEF LogsIInv, PartsThrow

\* A logger adds to its own log.
LEMMA LoggerLogs ==
  ASSUME DOMAIN log = Stacks!Logger, NEW k \in Stacks!Logger, NEW what
  PROVE  /\ DOMAIN Stacks!Logged(k, what) = Stacks!Logger
         /\ \A l \in Stacks!Logger : l # k => Stacks!Logged(k, what)[l] = log[l]
         /\ Stacks!Logged(k, what)[k] = IF k \in loggers THEN Append(log[k], what) ELSE log[k]
  BY DEF Stacks!Logged

LEMMA FirstLog ==
  ASSUME DOMAIN log = Stacks!Logger, NEW k \in Stacks!Logger, NEW what, log[k] = << >>, k \in loggers
  PROVE  Stacks!Logged(k, what)[k] = <<what>>
<1>1. Stacks!Logged(k, what)[k] = Append(<< >>, what)
  BY LoggerLogs
<1> QED BY <1>1

LEMMA ServerSideLogs ==
  ASSUME LogsIInv, stack = "protocol", Stacks!ServerInput \/ Stacks!Protocol \/ Stacks!ServerOutput
  PROVE  LogsIInv'
<1> DEFINE others == Stacks!Logger \ {"server_input", "server_output"}
<1>1. /\ UNCHANGED <<stack, m_async, loggers, op, pc, message, result, inner_op>>
      /\ inner \in {"input", "protocol", "output"}
      /\ inner' \in {"protocol", "output", "returned", "threw"}
  BY DEF Stacks!ServerInput, Stacks!Protocol, Stacks!ServerOutput, Stacks!InnerThrows, Stacks!stacks, Stacks!outer
<1>2. /\ DOMAIN log' = Stacks!Logger /\ \A l \in others : log'[l] = log[l]
      /\ {"client_input", "client_output", "client_network", "server_network"} \subseteq others
  BY LoggerLogs DEF LogsIInv, Stacks!Logger, Stacks!ServerInput, Stacks!Protocol, Stacks!ServerOutput,
                    Stacks!InnerThrows
<1>3. ClientLogs' /\ NetworkLogs'
  BY <1>1, <1>2 DEF LogsIInv, ClientLogs, NetworkLogs, Stacks!Tells
<1>4. PartsThrow'
  BY DEF LogsIInv, PartsThrow, Stacks!ServerInput, Stacks!Protocol, Stacks!ServerOutput,
         Stacks!InnerThrows, OwnLoggers, NetworkParts, ProtocolParts
<1>5. CallFits'
  BY <1>1 DEF LogsIInv, CallFits, Stacks!Ended, Stacks!Asked
<1>6. ServerLogs'
  <2>1. CASE Stacks!ServerInput
    <3>1. /\ inner = "input" /\ invoked' = invoked
          /\ \/ inner' = "threw"
             \/ inner' = "protocol" /\ log' = Stacks!Logged("server_input", inner_op)
      BY <2>1 DEF Stacks!ServerInput, Stacks!InnerThrows
    <3>2. ASSUME log' = Stacks!Logged("server_input", inner_op), "server_input" \in loggers
          PROVE  log'["server_input"] = <<inner_op>>
      <4>1. log["server_input"] = << >> /\ "server_input" \in Stacks!Logger
        BY <3>1 DEF LogsIInv, ServerLogs, Stacks!Logger
      <4> QED BY <3>2, <4>1, FirstLog DEF LogsIInv
    <3>3. ASSUME log' = Stacks!Logged("server_input", inner_op)
          PROVE  \A l \in Stacks!Logger \ {"server_input"} : log'[l] = log[l]
      BY <3>3, LoggerLogs DEF LogsIInv, Stacks!Logger
    <3> QED BY <1>1, <3>1, <3>2, <3>3 DEF LogsIInv, ServerLogs, Stacks!Tells, Stacks!Logger
  <2>2. CASE Stacks!Protocol
    BY <1>1, <2>2 DEF LogsIInv, ServerLogs, Stacks!Tells, Stacks!Protocol, Stacks!InnerThrows
  <2>3. CASE Stacks!ServerOutput
    <3>1. /\ inner = "output" /\ UNCHANGED <<invoked, inner_result>>
          /\ \/ inner' = "threw"
             \/ inner' = "returned" /\ log' = Stacks!Logged("server_output", <<inner_op, inner_result>>)
      BY <2>3 DEF Stacks!ServerOutput, Stacks!InnerThrows
    <3>2. ASSUME log' = Stacks!Logged("server_output", <<inner_op, inner_result>>), "server_output" \in loggers
          PROVE  log'["server_output"] = <<<<inner_op, inner_result>>>>
      <4>1. log["server_output"] = << >> /\ "server_output" \in Stacks!Logger
        BY <3>1 DEF LogsIInv, ServerLogs, Stacks!Logger
      <4> QED BY <3>2, <4>1, FirstLog DEF LogsIInv
    <3>3. ASSUME log' = Stacks!Logged("server_output", <<inner_op, inner_result>>)
          PROVE  \A l \in Stacks!Logger \ {"server_output"} : log'[l] = log[l]
      BY <3>3, LoggerLogs DEF LogsIInv, Stacks!Logger
    <3> QED BY <1>1, <3>1, <3>2, <3>3 DEF LogsIInv, ServerLogs, Stacks!Tells, Stacks!Logger
  <2> QED BY <2>1, <2>2, <2>3
<1> QED BY <1>1, <1>2, <1>3, <1>4, <1>5, <1>6 DEF LogsIInv

LEMMA ClientSideLogs ==
  ASSUME LogsIInv, stack = "protocol", Stacks!ClientInput \/ Stacks!ClientOutput
  PROVE  LogsIInv'
<1> DEFINE others == Stacks!Logger \ {"client_input", "client_output"}
<1>1. /\ UNCHANGED <<stack, m_async, loggers, op, message, result, inner, inner_op, inner_result, invoked>>
      /\ \/ pc = "input" /\ pc' \in {"client", "threw"}
         \/ pc = "output" /\ pc' \in {"returned", "threw"}
  BY DEF Stacks!ClientInput, Stacks!ClientOutput, Stacks!GoTo, Stacks!stacks, Stacks!protocol
<1>2. /\ DOMAIN log' = Stacks!Logger /\ \A l \in others : log'[l] = log[l]
      /\ {"server_input", "server_output", "client_network", "server_network"} \subseteq others
  BY LoggerLogs DEF LogsIInv, Stacks!Logger, Stacks!ClientInput, Stacks!ClientOutput
<1>3. ServerLogs' /\ NetworkLogs'
  BY <1>1, <1>2 DEF LogsIInv, ServerLogs, NetworkLogs, Stacks!Tells
<1>4. PartsThrow'
  BY <1>1 DEF LogsIInv, PartsThrow, Stacks!ClientInput, Stacks!ClientOutput, OwnLoggers, ProtocolParts
<1>5. CallFits'
  BY <1>1 DEF LogsIInv, CallFits, Stacks!Ended, Stacks!Asked, Asking, Answering
<1>6. ClientLogs'
  <2>1. CASE Stacks!ClientInput
    <3>1. /\ pc = "input"
          /\ \/ pc' = "threw"
             \/ pc' = "client" /\ log' = Stacks!Logged("client_input", op)
      BY <2>1 DEF Stacks!ClientInput, Stacks!GoTo
    <3>2. ASSUME log' = Stacks!Logged("client_input", op), "client_input" \in loggers
          PROVE  log'["client_input"] = <<op>>
      <4>1. log["client_input"] = << >> /\ "client_input" \in Stacks!Logger
        BY <3>1 DEF LogsIInv, ClientLogs, Stacks!Logger
      <4> QED BY <3>2, <4>1, FirstLog DEF LogsIInv
    <3>3. ASSUME log' = Stacks!Logged("client_input", op)
          PROVE  \A l \in Stacks!Logger \ {"client_input"} : log'[l] = log[l]
      BY <3>3, LoggerLogs DEF LogsIInv, Stacks!Logger
    <3> QED BY <1>1, <3>1, <3>2, <3>3 DEF LogsIInv, ClientLogs, Stacks!Tells, Stacks!Logger
  <2>2. CASE Stacks!ClientOutput
    <3>1. /\ pc = "output"
          /\ \/ pc' = "threw"
             \/ pc' = "returned" /\ log' = Stacks!Logged("client_output", <<op, result>>)
      BY <2>2 DEF Stacks!ClientOutput, Stacks!GoTo
    <3>2. ASSUME log' = Stacks!Logged("client_output", <<op, result>>), "client_output" \in loggers
          PROVE  log'["client_output"] = <<<<op, result>>>>
      <4>1. log["client_output"] = << >> /\ "client_output" \in Stacks!Logger
        BY <3>1 DEF LogsIInv, ClientLogs, Stacks!Logger
      <4> QED BY <3>2, <4>1, FirstLog DEF LogsIInv
    <3>3. ASSUME log' = Stacks!Logged("client_output", <<op, result>>)
          PROVE  \A l \in Stacks!Logger \ {"client_output"} : log'[l] = log[l]
      BY <3>3, LoggerLogs DEF LogsIInv, Stacks!Logger
    <3> QED BY <1>1, <3>1, <3>2, <3>3 DEF LogsIInv, ClientLogs, Stacks!Tells, Stacks!Logger
  <2> QED BY <2>1, <2>2
<1> QED BY <1>1, <1>2, <1>3, <1>4, <1>5, <1>6 DEF LogsIInv

\* A packet is lost: the loggers need not agree any more.
LEMMA LossLogs ==
  ASSUME Stacks!AppResultAssumption, LogsIInv, stack = "protocol", pc \in Asking \union Answering,
         NEW who \in NetworkParts, Stacks!FunctorThrows(who),
         UNCHANGED <<Stacks!stacks, Stacks!protocol, log>>
  PROVE  LogsIInv'
<1>1. /\ UNCHANGED <<stack, m_async, loggers, op, message, inner, inner_op, inner_result, invoked, log>>
      /\ pc' = "output" /\ result' = Stacks!ClientTransportException /\ threw' = threw \union {who}
  BY DEF Stacks!FunctorThrows, Stacks!stacks, Stacks!protocol
<1>2. ServerLogs' /\ NetworkLogs'
  BY <1>1 DEF LogsIInv, ServerLogs, NetworkLogs, Stacks!Tells
<1>3. ClientLogs'
  BY <1>1 DEF LogsIInv, ClientLogs, Stacks!Tells, Asking, Answering
<1>4. PartsThrow'
  BY <1>1 DEF LogsIInv, PartsThrow, NetworkParts, ProtocolParts
<1>5. CallFits'
  <2>1. Stacks!ClientTransportException \notin AppResult
    BY AppResultIsOwn
  <2> QED BY <1>1, <2>1 DEF LogsIInv, CallFits, Asking, Answering
<1> QED BY <1>1, <1>2, <1>3, <1>4, <1>5 DEF LogsIInv

\* A packet goes on, and a network logger may tell of it.
LEMMA PacketLogs ==
  ASSUME LogsIInv, stack = "protocol",
         \/ pc \in Asking /\ pc' \in Asking
         \/ pc \in Answering /\ pc' \in Answering,
         UNCHANGED <<Stacks!stacks, Stacks!protocol, message, result, polls, threw>>,
         DOMAIN log' = Stacks!Logger,
         \A l \in Stacks!Logger \ {"client_network", "server_network"} : log'[l] = log[l],
         NetworkLogs'
  PROVE  LogsIInv'
<1>1. UNCHANGED <<stack, m_async, loggers, op, message, result, inner, inner_op, inner_result, invoked>>
  BY DEF Stacks!stacks, Stacks!protocol
<1>2. {"client_input", "client_output", "server_input", "server_output"}
        \subseteq Stacks!Logger \ {"client_network", "server_network"}
  BY DEF Stacks!Logger
<1>3. ServerLogs'
  BY <1>1, <1>2 DEF LogsIInv, ServerLogs, Stacks!Tells
<1>4. ClientLogs'
  BY <1>1, <1>2 DEF LogsIInv, ClientLogs, Stacks!Tells, Asking, Answering
<1>5. PartsThrow'
  BY <1>1 DEF LogsIInv, PartsThrow
<1>6. CallFits'
  BY <1>1 DEF LogsIInv, CallFits, Stacks!Ended, Stacks!Asked, Stacks!Outcome, Asking, Answering
<1> QED BY <1>1, <1>3, <1>4, <1>5, <1>6 DEF LogsIInv

LEMMA NetworkSideLogs ==
  ASSUME Stacks!AppResultAssumption, LogsIInv, stack = "protocol",
         \/ Stacks!ClientFunctorInput \/ Stacks!ServerFunctorInput
         \/ Stacks!ServerFunctorOutput \/ Stacks!ClientFunctorOutput
         \/ Stacks!Network("request", "arrived") \/ Stacks!Network("reply", "functor_reply")
  PROVE  LogsIInv'
<1>1. CASE \E who \in NetworkParts : Stacks!FunctorThrows(who) /\ UNCHANGED log
  <2>1. pc \in Asking \union Answering /\ UNCHANGED <<Stacks!stacks, Stacks!protocol>>
    BY DEF Stacks!ClientFunctorInput, Stacks!ServerFunctorInput, Stacks!ServerFunctorOutput,
           Stacks!ClientFunctorOutput, Stacks!Network, Stacks!LogPacket, Asking, Answering
  <2> QED BY <1>1, <2>1, LossLogs
<1>2. CASE ~ \E who \in NetworkParts : Stacks!FunctorThrows(who) /\ UNCHANGED log
  <2> DEFINE client == log["client_network"]
             server == log["server_network"]
             logs(l, d) == log' = Stacks!Logged(l, <<d, message>>)
  <2>1. /\ UNCHANGED <<Stacks!stacks, Stacks!protocol, message, result, polls, threw>>
        /\ \/ pc = "functor" /\ pc' = "request" /\ logs("client_network", "kInput")
           \/ pc = "request" /\ pc' = "arrived" /\ log' = log
           \/ pc = "arrived" /\ pc' = "server" /\ logs("server_network", "kInput")
           \/ pc = "server_reply" /\ pc' = "reply" /\ logs("server_network", "kOutput")
           \/ pc = "reply" /\ pc' = "functor_reply" /\ log' = log
           \/ pc = "functor_reply" /\ pc' = "client_reply" /\ logs("client_network", "kOutput")
    BY <1>2 DEF Stacks!ClientFunctorInput, Stacks!ServerFunctorInput, Stacks!ServerFunctorOutput,
                Stacks!ClientFunctorOutput, Stacks!Network, Stacks!LogPacket, Stacks!GoTo, NetworkParts
  <2>2. "client_network" \in Stacks!Logger /\ "server_network" \in Stacks!Logger
    BY DEF Stacks!Logger
  <2>3. /\ DOMAIN log' = Stacks!Logger
        /\ \A l \in Stacks!Logger \ {"client_network", "server_network"} : log'[l] = log[l]
    BY <2>1, <2>2, LoggerLogs DEF LogsIInv
  <2>4. NetworkLogs'
    <3> SUFFICES ASSUME {"client_network", "server_network"} \subseteq loggers PROVE NetworkLogs'
      BY <2>1 DEF NetworkLogs, Stacks!stacks
    <3>1. ASSUME NEW d, logs("client_network", d)
          PROVE  log'["client_network"] = Append(client, <<d, message>>) /\ log'["server_network"] = server
      <4> DEFINE what == <<d, message>>
      <4> HIDE DEF what
      <4>1. log' = Stacks!Logged("client_network", what) /\ DOMAIN log = Stacks!Logger
        BY <3>1 DEF LogsIInv, what
      <4>2. Stacks!Logged("client_network", what)["client_network"] = Append(client, what)
        BY <2>2, <4>1, LoggerLogs
      <4>3. Stacks!Logged("client_network", what)["server_network"] = server
        BY <2>2, <4>1, LoggerLogs
      <4> QED BY <4>1, <4>2, <4>3 DEF what
    <3>2. ASSUME NEW d, logs("server_network", d)
          PROVE  log'["server_network"] = Append(server, <<d, message>>) /\ log'["client_network"] = client
      <4> DEFINE what == <<d, message>>
      <4> HIDE DEF what
      <4>1. log' = Stacks!Logged("server_network", what) /\ DOMAIN log = Stacks!Logger
        BY <3>2 DEF LogsIInv, what
      <4>2. Stacks!Logged("server_network", what)["server_network"] = Append(server, what)
        BY <2>2, <4>1, LoggerLogs
      <4>3. Stacks!Logged("server_network", what)["client_network"] = client
        BY <2>2, <4>1, LoggerLogs
      <4> QED BY <4>1, <4>2, <4>3 DEF what
    <3> HIDE DEF logs
    <3> QED BY <2>1, <3>1, <3>2 DEF LogsIInv, NetworkLogs
  <2>5. (pc \in Asking /\ pc' \in Asking) \/ (pc \in Answering /\ pc' \in Answering)
    BY <2>1 DEF Asking, Answering
  <2> QED BY <2>1, <2>3, <2>4, <2>5, PacketLogs
<1> QED BY <1>1, <1>2

\* Serve, Answer, Call and Receive log nothing.
LEMMA SilentLogs ==
  ASSUME Stacks!AppResultAssumption, StacksIInv, LogsIInv, stack = "protocol",
         Stacks!Serve \/ Stacks!Answer \/ Stacks!Call \/ Stacks!Receive
  PROVE  LogsIInv'
<1>1. /\ UNCHANGED <<stack, m_async, loggers, op, log, threw, inner_result, invoked>>
      /\ UNCHANGED <<inner, inner_op>> \/ (Stacks!Serve /\ inner' = "input")
      /\ pc \in {"client", "server", "protocol", "client_reply"}
      /\ pc' \in {"functor", "protocol", "server_reply", "output"}
  BY DEF Stacks!Serve, Stacks!Answer, Stacks!Call, Stacks!Receive, Stacks!Yields, Stacks!Send, Stacks!Begins,
         Stacks!BeginsNot, Stacks!stacks, Stacks!protocol
<1>2. ClientLogs' /\ NetworkLogs'
  BY <1>1 DEF LogsIInv, ClientLogs, NetworkLogs, Stacks!Tells
<1>3. (Stacks!Serve /\ inner' = "input") \/ UNCHANGED <<inner, inner_op>>
  BY <1>1
<1>4. ASSUME Stacks!Serve, inner' = "input", ~UNCHANGED <<inner, inner_op>> 
      PROVE  inner = "none" /\ inner_op' = op
  BY <1>4 DEF Stacks!Serve, Stacks!Begins, Stacks!BeginsNot, LogsIInv, CallFits, Asking
<1>5. ServerLogs'
  BY <1>1, <1>4 DEF LogsIInv, ServerLogs, Stacks!Tells
<1>6. PartsThrow'
  BY <1>1, <1>4 DEF LogsIInv, PartsThrow
<1>7. CallFits'
  <2>1. CASE Stacks!Serve
    <3> USE DEF CallFits, Asking, Answering, Stacks!Ended, Stacks!Asked
    <3>1. CallFits /\ pc = "server" /\ UNCHANGED <<op, result, inner_result>>
      BY <1>1, <2>1 DEF LogsIInv, Stacks!Serve
    <3>2. CASE /\ message.command \in {"plain", "service"} /\ Stacks!Begins /\ pc' = "protocol"
               /\ message' = message
      BY <3>1, <3>2 DEF Stacks!Begins
    <3>3. CASE /\ message.command = "new" /\ Stacks!Begins /\ pc' = "server_reply"
               /\ message' = Stacks!Reply("new", Stacks!Success, FALSE)
      BY <3>1, <3>3 DEF Stacks!Begins, Stacks!Reply
    <3>4. CASE /\ message.command = "poll" /\ Stacks!BeginsNot /\ pc' = "server_reply"
               /\ message' = Stacks!Reply("poll", Stacks!Success, Stacks!Ended)
      BY <3>1, <3>4 DEF Stacks!BeginsNot, Stacks!Reply
    <3>5. CASE /\ message.command = "get" /\ Stacks!BeginsNot /\ pc' = "server_reply"
               /\ message' = Stacks!Reply("get", Stacks!Outcome, TRUE)
      <4>1. Stacks!Outcome' = Stacks!Outcome
        BY <3>1, <3>5 DEF Stacks!BeginsNot, Stacks!Outcome
      <4> QED BY <3>1, <3>5, <4>1 DEF Stacks!BeginsNot, Stacks!Reply
    <3> QED BY <2>1, <3>2, <3>3, <3>4, <3>5 DEF Stacks!Serve
  <2>2. CASE Stacks!Answer
    BY <1>1, <2>2 DEF LogsIInv, CallFits, Stacks!Answer, Stacks!Reply, Stacks!Ended, Stacks!Outcome,
                      Stacks!protocol, Asking, Answering
  <2>3. CASE Stacks!Call
    <3>1. Stacks!ClientTransportEncodingError \notin AppResult
      BY AppResultIsOwn
    <3> QED BY <1>1, <2>3, <3>1 DEF LogsIInv, CallFits, Stacks!Call, Stacks!Yields, Stacks!Send, Stacks!Request,
                      Stacks!Asked, Stacks!protocol, Asking, Answering
  <2>4. CASE Stacks!Receive
    <3>1. Stacks!AsynchronousProtocolTimeout \notin AppResult /\ Stacks!ServerProtocolException \notin AppResult
      BY AppResultIsOwn
    <3> QED BY <1>1, <2>4, <3>1 DEF LogsIInv, CallFits, Stacks!Receive, Stacks!Yields, Stacks!Send,
                      Stacks!Request, Stacks!Asked, Stacks!Ended, Stacks!Outcome, Stacks!protocol, Asking, Answering
  <2> QED BY <2>1, <2>2, <2>3, <2>4
<1> QED BY <1>1, <1>2, <1>5, <1>6, <1>7 DEF LogsIInv

\* LoggedStacks alone has the property of theorem LoggersAgree.
LEMMA StacksLogsAgree ==
  ASSUME Stacks!AppResultAssumption
  PROVE  Stacks!Spec => []Stacks!LogsAgree
<1>1. StacksIInv /\ LogsIInv /\ [Stacks!Next]_(Stacks!vars) => LogsIInv'
  <2> SUFFICES ASSUME StacksIInv, LogsIInv, [Stacks!Next]_(Stacks!vars) PROVE LogsIInv'
    OBVIOUS
  <2>1. CASE UNCHANGED Stacks!vars
    BY <2>1 DEF Stacks!vars, Stacks!stacks, Stacks!outer, Stacks!protocol, LogsIInv, PartsThrow, CallFits,
                ServerLogs, ClientLogs, NetworkLogs, Stacks!Tells, Stacks!Ended, Stacks!Outcome, Stacks!Asked
  <2>2. CASE Stacks!Next /\ stack = "protocol"
    <3>1. ~Stacks!Functor
      BY <2>2 DEF Stacks!Functor
    <3> QED BY <2>2, <3>1, ServerSideLogs, ClientSideLogs, NetworkSideLogs, SilentLogs DEF Stacks!Next
  <2>3. CASE Stacks!Next /\ stack # "protocol"
    <3>1. stack' = stack
      BY <2>3 DEF Stacks!Next, Stacks!ClientInput, Stacks!Call, Stacks!ClientFunctorInput, Stacks!Network,
                  Stacks!ServerFunctorInput, Stacks!Serve, Stacks!Functor, Stacks!Answer,
                  Stacks!ServerFunctorOutput, Stacks!ClientFunctorOutput, Stacks!Receive,
                  Stacks!ClientOutput, Stacks!ServerInput, Stacks!Protocol, Stacks!ServerOutput,
                  Stacks!LogPacket, Stacks!stacks
    <3>2. DOMAIN log' = Stacks!Logger
      <4>1. \/ log' = log
            \/ \E what : \E k \in Stacks!Logger : log' = Stacks!Logged(k, what)
        BY <2>3 DEF Stacks!Next, Stacks!ClientInput, Stacks!Call, Stacks!ClientFunctorInput, Stacks!Network,
                  Stacks!ServerFunctorInput, Stacks!Serve, Stacks!Functor, Stacks!Answer,
                  Stacks!ServerFunctorOutput, Stacks!ClientFunctorOutput, Stacks!Receive,
                  Stacks!ClientOutput, Stacks!ServerInput, Stacks!Protocol, Stacks!ServerOutput,
                  Stacks!LogPacket, Stacks!InnerThrows, Stacks!Logger
      <4> QED BY <4>1, LoggerLogs DEF LogsIInv
    <3> QED BY <2>3, <3>1, <3>2 DEF LogsIInv
  <2> QED BY <2>1, <2>2, <2>3
<1>2. StacksIInv /\ LogsIInv => Stacks!LogsAgree
  <2> SUFFICES ASSUME StacksIInv, LogsIInv, pc = "returned", stack = "protocol", result \in AppResult
               PROVE  /\ threw = {} /\ invoked = <<op>>
                      /\ Stacks!Tells("client_input", op) /\ Stacks!Tells("server_input", op)
                      /\ Stacks!Tells("client_output", <<op, result>>)
                      /\ Stacks!Tells("server_output", <<op, result>>)
                      /\ {"client_network", "server_network"} \subseteq loggers =>
                           log["client_network"] = log["server_network"]
    BY DEF Stacks!LogsAgree
  <2>1. inner = "returned" /\ inner_result = result /\ inner_op = op
    BY DEF LogsIInv, CallFits
  <2>2. result # Stacks!ClientTransportException
    BY AppResultIsOwn
  <2>3. threw = {}
    BY <2>1, <2>2 DEF StacksIInv, NetworkThrows, LogsIInv, PartsThrow
  <2> QED BY <2>1, <2>2, <2>3 DEF LogsIInv, ServerLogs, ClientLogs, NetworkLogs
<1>3. StacksIInv /\ [Stacks!Next]_(Stacks!vars) => StacksIInv'
  BY StacksNext
<1> QED BY <1>1, <1>2, <1>3, StacksInit, LogsInit, PTL DEF Stacks!Spec

-----------------------------------------------------------------------------
(* Encoded variable *)

\* The AnyValue of an application in what the network variable answers, if any.
Meaning(a) ==
  IF a.first /\ Variable!CodecDecode(a.second).first THEN {Variable!CodecDecode(a.second).second} ELSE {}

\* The codec decodes what it encoded (Base64VariableCodec).
LEMMA CodecDecodesItsOwn ==
  ASSUME NEW v
  PROVE  Variable!CodecDecode(Variable!CodecEncode(v)) = [first |-> TRUE, second |-> v]
<1> DEFINE p == Variable!CodecEncode(v)
<1>1. /\ DOMAIN p = {"struct"} /\ DOMAIN p.struct = {"encoding", "value"}
      /\ p.struct["encoding"] = [string |-> Variable!kBase64Encoding]
      /\ p.struct["value"] = Variable!Encode(v, Variable!kBase64)
  BY DEF Variable!CodecEncode, Variable!Struct, Variable!With, Variable!Member, Variable!kEncodingField,
         Variable!kValueField
<1> HIDE DEF p
<1>2. Variable!Encode(v, Variable!kBase64) = [string |-> [base64 |-> v]]
  BY DEF Variable!Encode, Variable!kBase64, Variable!kNone
<1>3. Variable!ValidateBase64AnyValue(p)
  BY <1>1, <1>2 DEF Variable!ValidateBase64AnyValue, Variable!HasMember, Variable!ValidateMemberType, Variable!Has,
              Variable!Is, Variable!kEncodingField, Variable!kValueField
<1>4. /\ Variable!Decodes(p.struct[Variable!kValueField], Variable!kBase64)
      /\ Variable!Decode(p.struct[Variable!kValueField], Variable!kBase64) = v
  BY <1>1, <1>2 DEF Variable!Decodes, Variable!Decode, Variable!Is, Variable!kValueField, Variable!kBase64, Variable!kNone
<1> QED BY <1>3, <1>4 DEF Variable!CodecDecode, p

\* What the variable may hold, and answer.
Held == {Variable!EmptyValue} \union RawValue \union {Variable!CodecEncode(v) : v \in Value}
Answer == [first : BOOLEAN, second : Held]

\* Updates that tell their meaning.
Update == {u \in [raw : Answer, holds : SUBSET Value] : u.holds = Meaning(u.raw)}

\* The history is about what the variable really held, and the answer that an operation
\* got is of the time of its call.
VariableIInv ==
  /\ raw \in Answer /\ holds = Meaning(raw)
  /\ updates \in Seq(Update)
  /\ call \in Variable!Writes => value \in Value
  /\ call = "none" => got = {}
  /\ call # "none" => holds \in seen
  /\ call \in Variable!Reads => \A a \in got : a \in Answer /\ Meaning(a) \in seen
  /\ meant = IF told.first THEN {told.second} ELSE {}

LEMMA VariableInit == Variable!Init => VariableIInv
  BY DEF Variable!Init, VariableIInv, Variable!NoAnswer, Answer, Held, Meaning, Variable!Writes, Variable!Reads

\* The variable gets a value that is what the history says.
LEMMA ChangeIsMeant ==
  ASSUME VariableIInv, NEW r \in Answer, Variable!Change(r, Meaning(r)), Meaning(r) \subseteq Value,
         UNCHANGED <<call, value, told, meant>>,
         got' = got \/ call \notin Variable!Reads \union {"none"}
  PROVE  VariableIInv'
<1>1. /\ raw' = r /\ holds' = Meaning(r)
      /\ seen' = IF call = "none" THEN {} ELSE seen \union {Meaning(r)}
      /\ updates' = IF monitored THEN Append(updates, [raw |-> r, holds |-> Meaning(r)]) ELSE updates
  BY DEF Variable!Change
<1>2. [raw |-> r, holds |-> Meaning(r)] \in Update
  BY DEF Update
<1>3. updates' \in Seq(Update)
  BY <1>1, <1>2 DEF VariableIInv
<1>4. holds' = Meaning(raw)'
  BY <1>1 DEF Meaning
<1>5. call \in Variable!Reads => \A a \in got : Meaning(a) \in seen'
  BY <1>1 DEF VariableIInv, Variable!Reads
<1> QED BY <1>1, <1>3, <1>4, <1>5 DEF VariableIInv, Variable!Reads, Meaning

LEMMA VariableNext ==
  ASSUME Variable!RawValueAssumption, VariableIInv, [Variable!Next]_(Variable!vars)
  PROVE  VariableIInv'
<1>1. CASE Variable!Foreign
  <2>1. UNCHANGED <<call, value, got, told, meant>>
    BY <1>1 DEF Variable!Foreign
  <2>2. CASE \E v \in Value : Variable!WriteEncoded(v)
    <3>1. PICK v \in Value : Variable!Change([first |-> TRUE, second |-> Variable!CodecEncode(v)], {v})
      BY <2>2 DEF Variable!WriteEncoded
    <3> DEFINE r == [first |-> TRUE, second |-> Variable!CodecEncode(v)]
    <3>2. r \in Answer /\ Meaning(r) = {v}
      BY CodecDecodesItsOwn DEF Answer, Held, Meaning
    <3> HIDE DEF r
    <3> QED BY <2>1, <3>1, <3>2, ChangeIsMeant DEF r
  <2>3. CASE \E v \in RawValue \ {Variable!CodecEncode(w) : w \in Value} : Variable!WriteRaw(v)
    <3>1. PICK v \in RawValue \ {Variable!CodecEncode(w) : w \in Value} :
            Variable!Change([first |-> TRUE, second |-> v], {})
      BY <2>3 DEF Variable!WriteRaw
    <3> DEFINE r == [first |-> TRUE, second |-> v]
    <3>2. r \in Answer /\ Meaning(r) = {}
      BY DEF Answer, Held, Meaning, Variable!RawValueAssumption
    <3> HIDE DEF r
    <3> QED BY <2>1, <3>1, <3>2, ChangeIsMeant DEF r
  <2>4. CASE Variable!Disconnect
    <3> DEFINE r == [raw EXCEPT !.first = FALSE]
    <3>1. Variable!Change(r, {})
      BY <2>4 DEF Variable!Disconnect
    <3>2. r \in Answer /\ Meaning(r) = {}
      BY DEF VariableIInv, Answer, Meaning
    <3> HIDE DEF r
    <3> QED BY <2>1, <3>1, <3>2, ChangeIsMeant
  <2> QED BY <1>1, <2>2, <2>3, <2>4 DEF Variable!Foreign
<1>2. CASE \/ \E o \in Variable!Reads : Variable!Begin(o, Variable!EmptyValue)
           \/ \E o \in Variable!Writes, v \in Value : Variable!Begin(o, v)
  <2>1. /\ call = "none" /\ call' \in Variable!Reads \union Variable!Writes /\ seen' = {holds}
        /\ call' \in Variable!Writes => value' \in Value
        /\ UNCHANGED <<raw, holds, got, updates, told, meant>>
    BY <1>2 DEF Variable!Begin, Variable!Reads, Variable!Writes
  <2> QED BY <2>1 DEF VariableIInv, Meaning, Variable!Reads, Variable!Writes
<1>3. CASE Variable!NetworkGetValue
  <2> DEFINE a == IF raw.first THEN raw ELSE Variable!NoAnswer
  <2>1. /\ call \in Variable!Reads /\ got' = {a}
        /\ UNCHANGED <<raw, holds, call, value, seen, updates, told, meant>>
    BY <1>3 DEF Variable!NetworkGetValue
  <2>2. a \in Answer /\ Meaning(a) = holds
    BY DEF VariableIInv, Meaning, Variable!NoAnswer, Answer, Held
  <2>3. holds \in seen
    BY <2>1 DEF VariableIInv, Variable!Reads
  <2> HIDE DEF a
  <2> QED BY <2>1, <2>2, <2>3 DEF VariableIInv, Meaning, Variable!Reads
<1>4. CASE Variable!NetworkSetValue
  <2>1. /\ call \in Variable!Writes /\ UNCHANGED <<call, value, told, meant>> /\ value \in Value
        /\ call \notin Variable!Reads \union {"none"}
    BY <1>4 DEF Variable!NetworkSetValue, VariableIInv, Variable!Writes, Variable!Reads
  <2>2. CASE raw.first
    <3> DEFINE r == [first |-> TRUE, second |-> Variable!CodecEncode(value)]
    <3>1. Variable!Change(r, {value})
      BY <1>4, <2>2 DEF Variable!NetworkSetValue
    <3>2. r \in Answer /\ Meaning(r) = {value}
      BY <2>1, CodecDecodesItsOwn DEF Answer, Held, Meaning
    <3> HIDE DEF r
    <3> QED BY <2>1, <3>1, <3>2, ChangeIsMeant
  <2>3. CASE ~raw.first
    <3>1. UNCHANGED <<raw, holds, seen, updates>>
      BY <1>4, <2>3 DEF Variable!NetworkSetValue
    <3> QED BY <2>1, <3>1 DEF VariableIInv, Meaning, Variable!Reads
  <2> QED BY <2>2, <2>3
<1>5. CASE Variable!Return
  <2>1. call' = "none" /\ got' = {} /\ UNCHANGED <<raw, holds, value, seen, updates, told, meant>>
    BY <1>5 DEF Variable!Return
  <2> QED BY <2>1 DEF VariableIInv, Meaning, Variable!Reads, Variable!Writes
<1>6. CASE Variable!SetMonitorCallback
  BY <1>6 DEF Variable!SetMonitorCallback, VariableIInv, Meaning
<1>7. CASE Variable!CallBack
  <2>1. /\ updates # << >> /\ updates' = Tail(updates) /\ meant' = Head(updates).holds
        /\ told' = Variable!WrappedCallback(Head(updates).raw.second, Head(updates).raw.first)
        /\ UNCHANGED <<raw, holds, call, value, got, seen>>
    BY <1>7 DEF Variable!CallBack
  <2>2. PICK u \in Update : u = Head(updates)
    BY <2>1 DEF VariableIInv
  <2>3. updates' \in Seq(Update)
    BY <2>1 DEF VariableIInv
  <2>4. meant' = IF told'.first THEN {told'.second} ELSE {}
    BY <2>1, <2>2 DEF Update, Answer, Meaning, Variable!WrappedCallback
  <2> QED BY <2>1, <2>3, <2>4 DEF VariableIInv, Meaning
<1>8. CASE UNCHANGED Variable!vars
  BY <1>8 DEF Variable!vars, VariableIInv, Meaning
<1> QED BY <1>1, <1>2, <1>3, <1>4, <1>5, <1>6, <1>7, <1>8 DEF Variable!Next

\* EncodedVariable alone has the property of theorem CallbackTellsTheValue.
LEMMA VariableTellsValue ==
  ASSUME Variable!RawValueAssumption
  PROVE  Variable!Spec => []Variable!CallbackTellsValue
<1>1. VariableIInv => Variable!CallbackTellsValue
  BY DEF VariableIInv, Variable!CallbackTellsValue
<1>2. VariableIInv /\ [Variable!Next]_(Variable!vars) => VariableIInv'
  BY VariableNext
<1> QED BY <1>1, <1>2, VariableInit, PTL DEF Variable!Spec

\* EncodedVariable alone has the property of theorem ReadsAreOfTheirTime.
LEMMA VariableReadsAreCurrent ==
  ASSUME Variable!RawValueAssumption
  PROVE  Variable!Spec => Variable!ReadsAreCurrent
<1>1. VariableIInv /\ [Variable!Next]_(Variable!vars) => [Variable!CurrentRead]_(Variable!vars)
  <2> SUFFICES ASSUME VariableIInv, Variable!Next, call' = "none", call \in Variable!Reads
               PROVE  /\ outcome'.first => \E h \in seen : h # {}
                      /\ outcome'.first /\ call \in {"GetValue", "GetVariableValue"} => {outcome'.second} \in seen
                      /\ outcome'.first \/ {} \in seen
    BY DEF Variable!CurrentRead
  <2>1. Variable!Return
    BY DEF Variable!Next, Variable!Foreign, Variable!Begin, Variable!NetworkGetValue, Variable!NetworkSetValue,
           Variable!SetMonitorCallback, Variable!CallBack, Variable!Reads, Variable!Writes
  <2>2. PICK a \in got :
          outcome' = CASE call \in Variable!Writes -> a
                       [] call \in {"GetValue", "GetVariableValue"} -> Variable!Decoded(a)
                       [] OTHER -> [Variable!Decoded(a) EXCEPT !.second = Variable!EmptyValue]
    BY <2>1 DEF Variable!Return
  <2>3. a \in Answer /\ Meaning(a) \in seen
    BY DEF VariableIInv
  <2> DEFINE d == Variable!Decoded(a)
  <2>4. /\ d = [first |-> d.first, second |-> d.second]
        /\ d.first \in BOOLEAN /\ Meaning(a) = IF d.first THEN {d.second} ELSE {}
    BY <2>3 DEF Variable!Decoded, Meaning, Answer, Variable!NoAnswer, Variable!CodecDecode
  <2> HIDE DEF d
  <2>5. call \notin Variable!Writes
    BY DEF Variable!Reads, Variable!Writes
  <2>6. CASE call \in {"GetValue", "GetVariableValue"}
    <3>1. outcome' = d
      BY <2>2, <2>5, <2>6 DEF d
    <3> QED BY <2>3, <2>4, <3>1
  <2>7. CASE call \notin {"GetValue", "GetVariableValue"}
    <3>1. outcome'.first = d.first
      BY <2>2, <2>4, <2>5, <2>7 DEF d
    <3> QED BY <2>3, <2>4, <2>7, <3>1
  <2> QED BY <2>6, <2>7
<1>2. VariableIInv /\ [Variable!Next]_(Variable!vars) => VariableIInv'
  BY VariableNext
<1> QED BY <1>1, <1>2, VariableInit, PTL DEF Variable!Spec, Variable!ReadsAreCurrent

-----------------------------------------------------------------------------
(* Function protocol *)

\* What is extracted as a kind, packed again as that kind.
LEMMA FieldOfExtracted ==
  ASSUME NEW f, NEW k \in Fn!Kind, Fn!IsAnyValue(f), Fn!Validate(k, f)
  PROVE  Fn!Field([kind |-> k, value |-> Fn!Extracted(k, f)]) = f
<1>1. PICK t \in DOMAIN f : f = [n \in {t} |-> f[t]]
  BY DEF Fn!IsAnyValue
<1>2. CASE k = "bool"
  <2>1. Fn!Field([kind |-> k, value |-> Fn!Extracted(k, f)]) = [bool |-> f.bool] /\ t = "bool"
    BY <1>1, <1>2 DEF Fn!Field, Fn!Extracted, Fn!Validate, Fn!Is
  <2> QED BY <1>1, <2>1
<1>3. CASE k = "string"
  <2>1. Fn!Field([kind |-> k, value |-> Fn!Extracted(k, f)]) = [string |-> f.string] /\ t = "string"
    BY <1>1, <1>3 DEF Fn!Field, Fn!Extracted, Fn!Validate, Fn!Is
  <2> QED BY <1>1, <2>1
<1>4. CASE k = "string_list"
  <2>1. /\ Fn!Field([kind |-> k, value |-> Fn!Extracted(k, f)])
             = [array |-> [of |-> "string", elements |-> f.array.elements]]
        /\ t = "array" /\ f.array.of = "string"
    BY <1>1, <1>4 DEF Fn!Field, Fn!Extracted, Fn!Validate, Fn!Is
  <2>2. f.array = [of |-> "string", elements |-> f.array.elements]
    BY <1>4, <2>1 DEF Fn!IsAnyValue, Fn!Is
  <2> QED BY <1>1, <2>1, <2>2
<1>5. CASE k = "anyvalue"
  BY <1>5 DEF Fn!Field, Fn!Extracted
<1>6. CASE k = "anytype"
  <2>1. /\ Fn!Field([kind |-> k, value |-> Fn!Extracted(k, f)]) = [string |-> [json |-> f.string.json]]
        /\ t = "string" /\ "json" \in DOMAIN f.string
    BY <1>1, <1>6 DEF Fn!Field, Fn!Extracted, Fn!Validate, Fn!Is
  <2>2. f.string = [json |-> f.string.json]
    BY <1>6, <2>1, <1>1 DEF Fn!IsAnyValue, Fn!Is
  <2> QED BY <1>1, <2>1, <2>2
<1> QED BY <1>2, <1>3, <1>4, <1>5, <1>6 DEF Fn!Kind

\* What was packed as a kind can be extracted as that kind, and is the same.
LEMMA ExtractedOfField ==
  ASSUME NEW a, a.kind \in Fn!Kind
  PROVE  Fn!Validate(a.kind, Fn!Field(a)) /\ Fn!Extracted(a.kind, Fn!Field(a)) = a.value
<1>1. CASE a.kind = "bool"
  BY <1>1 DEF Fn!Validate, Fn!Extracted, Fn!Field, Fn!Is
<1>2. CASE a.kind = "string"
  BY <1>2 DEF Fn!Validate, Fn!Extracted, Fn!Field, Fn!Is
<1>3. CASE a.kind = "string_list"
  BY <1>3 DEF Fn!Validate, Fn!Extracted, Fn!Field, Fn!Is
<1>4. CASE a.kind = "anyvalue"
  BY <1>4 DEF Fn!Validate, Fn!Extracted, Fn!Field, Fn!Is
<1>5. CASE a.kind = "anytype"
  BY <1>5 DEF Fn!Validate, Fn!Extracted, Fn!Field, Fn!Is
<1> QED BY <1>1, <1>2, <1>3, <1>4, <1>5 DEF Fn!Kind

\* The output is not both empty and a structure.
OneType == Fn!Is(output, "empty") => ~Fn!Is(output, "struct")

LEMMA OneTypeInvariant == Fn!Spec => []OneType
<1>1. Fn!Init => OneType
  <2>1. /\ DOMAIN Fn!EmptyValue = {"empty"}
        /\ \A s : DOMAIN Fn!Text(s) = {"string"}
        /\ \A f : DOMAIN Fn!FunctionProtocolInput(f) = {"struct"}
    BY DEF Fn!EmptyValue, Fn!Text, Fn!FunctionProtocolInput, Fn!Struct
  <2> QED BY <2>1 DEF Fn!Init, OneType, Fn!Is
<1>2. OneType /\ [Fn!Next]_(Fn!vars) => OneType'
  <2> SUFFICES ASSUME OneType, [Fn!Next]_(Fn!vars) PROVE OneType'
    OBVIOUS
  <2>1. CASE \E n \in Name, a \in Argument : Fn!FunctionProtocolPack(n, a)
    BY <2>1 DEF Fn!FunctionProtocolPack, OneType, Fn!Is, Fn!Struct
  <2>2. CASE UNCHANGED output
    BY <2>2 DEF OneType, Fn!Is
  <2> QED BY <2>1, <2>2 DEF Fn!Next, Fn!CallFunctionProtocol, Fn!FunctionProtocolExtract, Fn!vars
<1> QED BY <1>1, <1>2, PTL DEF Fn!Spec

\* The structure has AnyValues as its fields, among them one for every argument packed.
FunctionIInv ==
  /\ \A n \in DOMAIN Fn!Members(output) : Fn!IsAnyValue(Fn!Members(output)[n])
  /\ \A n \in DOMAIN packed :
       /\ packed[n] \in Argument
       /\ n \in DOMAIN Fn!Members(output) /\ Fn!Members(output)[n] = Fn!Field(packed[n])
  /\ pc # "end" => wanted = [name |-> "none", kind |-> "none", into |-> Fn!EmptyValue] /\ ~found

LEMMA FunctionInit == Fn!Init => FunctionIInv
<1> SUFFICES ASSUME Fn!Init PROVE FunctionIInv
  OBVIOUS
<1>1. DOMAIN packed = {} /\ wanted = [name |-> "none", kind |-> "none", into |-> Fn!EmptyValue] /\ ~found
  BY DEF Fn!Init
<1>2. CASE output \in {Fn!EmptyValue, Fn!Text("output")}
  BY <1>1, <1>2 DEF FunctionIInv, Fn!Members, Fn!Is, Fn!EmptyValue, Fn!Text
<1>3. CASE \E f \in Function \union {"other"} : output = Fn!FunctionProtocolInput(f)
  <2>1. PICK f \in Function \union {"other"} : output = Fn!FunctionProtocolInput(f)
    BY <1>3
  <2>2. DOMAIN Fn!Members(output) = {"function"} /\ Fn!Members(output)["function"] = Fn!Text(f)
    BY <2>1 DEF Fn!FunctionProtocolInput, Fn!Struct, Fn!Member, Fn!Members, Fn!Is
  <2>3. Fn!IsAnyValue(Fn!Text(f))
    <3>1. DOMAIN Fn!Text(f) = {"string"} /\ DOMAIN Fn!Text(f).string = {"plain"}
      BY DEF Fn!Text
    <3>2. Fn!Text(f) = [n \in {"string"} |-> Fn!Text(f)[n]]
      BY <3>1 DEF Fn!Text
    <3> QED BY <3>1, <3>2 DEF Fn!IsAnyValue, Fn!Is
  <2> QED BY <1>1, <2>2, <2>3 DEF FunctionIInv
<1> QED BY <1>2, <1>3 DEF Fn!Init

\* A pack that does not throw adds a field, and changes no other.
LEMMA PackAdds ==
  ASSUME OneType, NEW n, NEW a, Fn!FunctionProtocolPack(n, a)
  PROVE  \/ UNCHANGED <<output, packed>>
         \/ /\ n \notin DOMAIN Fn!Members(output)
            /\ DOMAIN Fn!Members(output)' = DOMAIN Fn!Members(output) \union {n}
            /\ \A m \in DOMAIN Fn!Members(output) : Fn!Members(output)'[m] = Fn!Members(output)[m]
            /\ Fn!Members(output)'[n] = Fn!Field(a)
            /\ packed' = Fn!With(Fn!Member(n, a), packed)
<1> SUFFICES ASSUME Fn!Prepares(output, n),
                    output' = Fn!Struct(Fn!With(Fn!Member(n, Fn!Field(a)), Fn!Members(output))),
                    packed' = Fn!With(Fn!Member(n, a), packed)
             PROVE  /\ n \notin DOMAIN Fn!Members(output)
                    /\ DOMAIN Fn!Members(output)' = DOMAIN Fn!Members(output) \union {n}
                    /\ \A m \in DOMAIN Fn!Members(output) : Fn!Members(output)'[m] = Fn!Members(output)[m]
                    /\ Fn!Members(output)'[n] = Fn!Field(a)
  BY DEF Fn!FunctionProtocolPack
<1>1. n \notin DOMAIN Fn!Members(output)
  <2>1. DOMAIN << >> = {}
    OBVIOUS
  <2>2. Fn!Is(output, "struct") => n \notin DOMAIN output.struct
    BY DEF Fn!Prepares, Fn!Has, OneType
  <2> QED BY <2>1, <2>2 DEF Fn!Members
<1>2. Fn!Members(output)' = Fn!With(Fn!Member(n, Fn!Field(a)), Fn!Members(output))
  BY DEF Fn!Members, Fn!Struct, Fn!Is
<1> QED BY <1>1, <1>2 DEF Fn!With, Fn!Member

LEMMA FunctionNext ==
  ASSUME Fn!ArgumentAssumption, OneType, FunctionIInv, [Fn!Next]_(Fn!vars)
  PROVE  FunctionIInv'
<1>1. CASE \E n \in Name, a \in Argument : Fn!FunctionProtocolPack(n, a)
  <2>1. PICK n \in Name, a \in Argument : Fn!FunctionProtocolPack(n, a)
    BY <1>1
  <2>2. pc' = pc /\ wanted' = wanted /\ found' = found
    BY <2>1 DEF Fn!FunctionProtocolPack
  <2>3. CASE UNCHANGED <<output, packed>>
    BY <2>2, <2>3 DEF FunctionIInv, Fn!Members
  <2>4. CASE n \notin DOMAIN Fn!Members(output)
    <3> SUFFICES ASSUME ~UNCHANGED <<output, packed>> PROVE FunctionIInv'
      BY <2>3
    <3>1. /\ DOMAIN Fn!Members(output)' = DOMAIN Fn!Members(output) \union {n}
          /\ \A m \in DOMAIN Fn!Members(output) : Fn!Members(output)'[m] = Fn!Members(output)[m]
          /\ Fn!Members(output)'[n] = Fn!Field(a)
          /\ packed' = Fn!With(Fn!Member(n, a), packed)
      BY <2>1, PackAdds
    <3>2. \A m \in DOMAIN Fn!Members(output)' : Fn!IsAnyValue(Fn!Members(output)'[m])
      BY <3>1 DEF FunctionIInv, Fn!ArgumentAssumption
    <3>3. /\ DOMAIN packed' = DOMAIN packed \union {n} /\ packed'[n] = a
          /\ \A m \in DOMAIN packed \ {n} : packed'[m] = packed[m]
      BY <3>1 DEF Fn!With, Fn!Member
    <3>4. \A m \in DOMAIN packed' :
            /\ packed'[m] \in Argument
            /\ m \in DOMAIN Fn!Members(output)' /\ Fn!Members(output)'[m] = Fn!Field(packed'[m])
      BY <3>1, <3>3 DEF FunctionIInv
    <3> QED BY <2>2, <3>2, <3>4 DEF FunctionIInv
  <2> QED BY <2>1, <2>3, <2>4, PackAdds
<1>2. CASE Fn!CallFunctionProtocol
  BY <1>2 DEF Fn!CallFunctionProtocol, FunctionIInv, Fn!Members
<1>3. CASE \E n \in Name, k \in Fn!Kind, v \in Target : Fn!FunctionProtocolExtract(n, k, v)
  BY <1>3 DEF Fn!FunctionProtocolExtract, FunctionIInv, Fn!Members
<1>4. CASE UNCHANGED Fn!vars
  BY <1>4 DEF Fn!vars, FunctionIInv, Fn!Members
<1> QED BY <1>1, <1>2, <1>3, <1>4 DEF Fn!Next

\* Except into an AnyValue with a type of its own, a field is extracted as it is.
LEMMA ExtractionIsValue ==
  ASSUME NEW n, NEW k, NEW v, ~(k = "anyvalue" /\ v # Fn!EmptyValue)
  PROVE  /\ Fn!Extractions(n, k, v) \subseteq {Fn!Extracted(k, output.struct[n])}
         /\ Fn!Has(Fn!Members(output), n) /\ Fn!Validate(k, output.struct[n]) =>
              Fn!Extractions(n, k, v) = {Fn!Extracted(k, output.struct[n])}
<1>1. Fn!TryAssign(Conversion, Fn!EmptyValue, output.struct[n]) = {output.struct[n]}
  BY DEF Fn!TryAssign, Fn!Is, Fn!EmptyValue
<1>2. k = "anyvalue" => Fn!Extracted(k, output.struct[n]) = output.struct[n]
  BY DEF Fn!Extracted
<1> QED BY <1>1, <1>2 DEF Fn!Extractions

LEMMA ExtractionNext ==
  ASSUME Fn!ArgumentAssumption, FunctionIInv, Fn!ExtractedIsField, Fn!PackedIsExtracted, [Fn!Next]_(Fn!vars)
  PROVE  Fn!ExtractedIsField' /\ Fn!PackedIsExtracted'
<1>1. CASE \E n \in Name, a \in Argument : Fn!FunctionProtocolPack(n, a)
  BY <1>1 DEF Fn!FunctionProtocolPack, FunctionIInv, Fn!ExtractedIsField, Fn!PackedIsExtracted
<1>2. CASE Fn!CallFunctionProtocol
  <2>1. wanted' = wanted /\ found' = found /\ packed' = packed /\ ~found /\ wanted.kind = "none"
    BY <1>2 DEF Fn!CallFunctionProtocol, FunctionIInv
  <2>2. \A n \in DOMAIN packed : packed[n].kind # "none"
    BY DEF FunctionIInv, Fn!ArgumentAssumption, Fn!Kind
  <2> QED BY <2>1, <2>2 DEF Fn!ExtractedIsField, Fn!PackedIsExtracted
<1>3. CASE \E n \in Name, k \in Fn!Kind, v \in Target : Fn!FunctionProtocolExtract(n, k, v)
  <2>1. PICK n \in Name, k \in Fn!Kind, v \in Target : Fn!FunctionProtocolExtract(n, k, v)
    BY <1>3
  <2> DEFINE f == output.struct[n]
             taken == Fn!Extractions(n, k, v)
  <2>2. /\ UNCHANGED <<output, packed>>
        /\ wanted'.name = n /\ wanted'.kind = k /\ wanted'.into = v
        /\ found' = (taken # {})
        /\ found' => \E x \in taken : val' = [kind |-> k, value |-> x]
    BY <2>1 DEF Fn!FunctionProtocolExtract
  <2>3. \A m \in DOMAIN Fn!Members(output) : m \in DOMAIN output.struct /\ Fn!Members(output)[m] = output.struct[m]
    BY DEF Fn!Members
  <2>4. Fn!ExtractedIsField'
    <3> SUFFICES ASSUME found'
                 PROVE  /\ n \in DOMAIN output.struct
                        /\ ~(k = "anyvalue" /\ v # Fn!EmptyValue) => Fn!Field(val') = output.struct[n]
      BY <2>2 DEF Fn!ExtractedIsField
    <3>1. n \in DOMAIN Fn!Members(output) /\ Fn!Validate(k, f)
      BY <2>2 DEF Fn!Extractions, Fn!Has
    <3>2. Fn!IsAnyValue(f) /\ n \in DOMAIN output.struct
      BY <2>3, <3>1 DEF FunctionIInv
    <3>3. CASE k = "anyvalue" /\ v # Fn!EmptyValue
      BY <3>2, <3>3
    <3>4. CASE ~(k = "anyvalue" /\ v # Fn!EmptyValue)
      <4>1. val' = [kind |-> k, value |-> Fn!Extracted(k, f)]
        BY <2>2, <3>4, ExtractionIsValue
      <4> QED BY <3>1, <3>2, <4>1, FieldOfExtracted
    <3> QED BY <3>3, <3>4
  <2>5. Fn!PackedIsExtracted'
    <3> SUFFICES ASSUME n \in DOMAIN packed, k = packed[n].kind, v = Fn!EmptyValue
                 PROVE  found' /\ val' = packed[n]
      BY <2>2 DEF Fn!PackedIsExtracted
    <3> DEFINE a == packed[n]
    <3>1. /\ a \in Argument /\ n \in DOMAIN Fn!Members(output) /\ f = Fn!Field(a)
          /\ a = [kind |-> a.kind, value |-> a.value]
      BY <2>3 DEF FunctionIInv, Fn!ArgumentAssumption
    <3>2. Fn!Validate(k, f) /\ Fn!Extracted(k, f) = a.value
      BY <3>1, ExtractedOfField
    <3>3. taken = {Fn!Extracted(k, f)}
      BY <3>1, <3>2, ExtractionIsValue DEF Fn!Has
    <3> QED BY <2>2, <3>1, <3>2, <3>3
  <2> QED BY <2>4, <2>5
<1>4. CASE UNCHANGED Fn!vars
  BY <1>4 DEF Fn!vars, Fn!ExtractedIsField, Fn!PackedIsExtracted
<1> QED BY <1>1, <1>2, <1>3, <1>4 DEF Fn!Next

LEMMA FunctionInvariant ==
  ASSUME Fn!ArgumentAssumption
  PROVE  Fn!Spec => [](FunctionIInv /\ Fn!ExtractedIsField /\ Fn!PackedIsExtracted)
<1>1. Fn!Init => Fn!ExtractedIsField /\ Fn!PackedIsExtracted
  BY DEF Fn!Init, Fn!ExtractedIsField, Fn!PackedIsExtracted
<1>2. Fn!ArgumentAssumption /\ OneType /\ FunctionIInv /\ Fn!ExtractedIsField /\ Fn!PackedIsExtracted /\ [Fn!Next]_(Fn!vars)
        => (FunctionIInv /\ Fn!ExtractedIsField /\ Fn!PackedIsExtracted)'
  BY FunctionNext, ExtractionNext
<1> QED BY <1>1, <1>2, FunctionInit, OneTypeInvariant, PTL DEF Fn!Spec

\* FunctionProtocol alone has the property of theorem PackedArrives.
LEMMA FunctionPackedArrives ==
  ASSUME Fn!ArgumentAssumption
  PROVE  Fn!Spec => []Fn!PackedIsExtracted
BY FunctionInvariant, PTL

\* FunctionProtocol alone has the property of theorem ExtractedIsTheField.
LEMMA FunctionExtractsField ==
  ASSUME Fn!ArgumentAssumption
  PROVE  Fn!Spec => []Fn!ExtractedIsField
BY FunctionInvariant, PTL

\* FunctionProtocol alone has the property of theorem PacksKeepFields.
LEMMA FunctionKeepsFields == Fn!Spec => Fn!FieldsAreKept
<1>1. OneType /\ [Fn!Next]_(Fn!vars) => [Fn!KeepsFields]_(Fn!vars)
  <2> SUFFICES ASSUME OneType, Fn!Next PROVE Fn!KeepsFields \/ UNCHANGED Fn!vars
    OBVIOUS
  <2>1. CASE \E n \in Name, a \in Argument : Fn!FunctionProtocolPack(n, a)
    BY <2>1, PackAdds DEF Fn!KeepsFields, Fn!Members
  <2>2. CASE UNCHANGED output
    BY <2>2 DEF Fn!KeepsFields, Fn!Members
  <2> QED BY <2>1, <2>2 DEF Fn!Next, Fn!CallFunctionProtocol, Fn!FunctionProtocolExtract
<1> QED BY <1>1, OneTypeInvariant, PTL DEF Fn!Spec, Fn!FieldsAreKept

-----------------------------------------------------------------------------
(* Invocation *)

\* What the application was answered last.
Told == answer[App]

Reply == {"Invoked", "ServerProtocolException"}

\* The answer to the call of the functor, of the server's command c.
Response(o, c) == call = o /\ Told.command = c

InvocationTypes ==
  /\ status \in [Invocation!Id -> {"unused", "running", "ready", "gone"}]
  /\ answer = [c \in {App} |-> Told]
  /\ m_id \in Invocation!Id /\ 0 \in Invocation!Id
  /\ m_synchronous \in BOOLEAN /\ ready \in BOOLEAN /\ late \in BOOLEAN /\ given_up \in BOOLEAN
  /\ starts \in Nat
  /\ plainly \in SUBSET (1 .. starts)

\* The operations that call the functor; only Start takes a plain reply.
CallsOfFunctor ==
  /\ call \in Invocation!Operation \union {"none"}
  /\ call = "Start" => starts # 0 /\ ~ready
  /\ call \in {"PollOnce", "GetReply", "Invalidate"} => ~m_synchronous
  /\ call = "Invalidate" => m_id # 0 /\ ~ready
  /\ plain # "none" => call = "Start"

\* The identifiers are issued, each once.
Identifiers ==
  /\ status[0] = "unused"
  /\ m_id # 0 => m_id \in DOMAIN origin
  /\ \A id \in DOMAIN origin : id \in Invocation!Id /\ status[id] # "unused"
  /\ Response("Start", "new") /\ Told.result = "Success" =>
       Told.id \in Invocation!Id \ DOMAIN origin /\ status[Told.id] # "unused"

\* The history of the Starts is what the object has of it.
StartsAreKept ==
  /\ m_synchronous = (plainly # {})
  /\ plainly # {} => m_sync_reply.of = Invocation!Max(plainly)
  /\ plainly = {} /\ m_id # 0 => origin[m_id] = last
  /\ Response("GetReply", "get") /\ Told.result \in Reply => m_id # 0

\* What GetReply returned last.
LastReply ==
  outcome.call = "GetReply" /\ outcome.of # 0 =>
    outcome.of = IF plainly = {} THEN last ELSE Invocation!Max(plainly)

\* The server still has the reply that it announced.
Announced == status[m_id] = "ready" /\ m_id \notin withdrawn

AnnouncementIsKept ==
  /\ m_id \in stale => late
  /\ Response("PollOnce", "poll") /\ Told.result = "Success" =>
       /\ Told.ready \in BOOLEAN
       /\ Told.ready => status[m_id] \in {"ready", "gone"} /\ (late \/ Announced)
  /\ ready /\ ~m_synchronous => status[m_id] \in {"ready", "gone"}
  /\ ready /\ ~m_synchronous /\ ~late =>
       \/ Announced /\ (call = "GetReply" => Told.command = "none")
       \/ Response("GetReply", "get") /\ Told.result \in Reply

\* The server gives no reply of the request.
Abandoned == m_id \in withdrawn \/ status[m_id] = "gone"

GivenUpIsAbandoned ==
  /\ Response("Invalidate", "invalidate") => Abandoned
  /\ given_up => m_synchronous \/ m_id = 0 \/ Abandoned
  /\ Response("GetReply", "get") /\ Told.result \in Reply => ~given_up

InvocationIInv ==
  /\ InvocationTypes
  /\ CallsOfFunctor
  /\ Identifiers
  /\ StartsAreKept
  /\ LastReply
  /\ AnnouncementIsKept
  /\ GivenUpIsAbandoned

\* The last Start is the largest number.
LEMMA LastIsMax ==
  ASSUME NEW s \in Nat, NEW p \in SUBSET (1 .. s)
  PROVE  Invocation!Max(p \union {s}) = s
<1> DEFINE S == p \union {s}
<1>1. s \in S /\ \A y \in S : y \in Nat /\ s >= y
  OBVIOUS
<1>2. Invocation!Max(S) \in S /\ \A y \in S : Invocation!Max(S) >= y
  BY <1>1 DEF Invocation!Max
<1> HIDE DEF S
<1>3. Invocation!Max(S) \in Nat /\ s >= Invocation!Max(S) /\ Invocation!Max(S) >= s
  BY <1>1, <1>2
<1>4. Invocation!Max(S) = s
  BY <1>3
<1> QED BY <1>4 DEF S

LEMMA TellTells ==
  ASSUME answer = [c \in {App} |-> Told], NEW r, Invocation!Server!Tell(App, r)
  PROVE  Told' = r /\ answer' = [c \in {App} |-> Told']
BY DEF Invocation!Server!Tell, Told

LEMMA InvocationInit == Invocation!MaxStartsAssumption /\ Invocation!Init => InvocationIInv
<1> SUFFICES ASSUME Invocation!MaxStartsAssumption, Invocation!Init PROVE InvocationIInv
  OBVIOUS
<1>1. 0 \in Invocation!Id /\ status = [id \in Invocation!Id |-> "unused"] /\ stale = {}
  BY DEF Invocation!MaxStartsAssumption, Invocation!Id, Invocation!Init, Invocation!Server!Init
<1>2. answer = [c \in {App} |-> Told] /\ Told.command = "unknown"
  <2> DEFINE r == Invocation!Server!Says("unknown", 0, "none", FALSE)
  <2>1. r.command = "unknown"
    BY DEF Invocation!Server!Says
  <2>2. answer = [c \in {App} |-> r]
    BY DEF Invocation!Init, Invocation!Server!Init
  <2> HIDE DEF r
  <2> QED BY <2>1, <2>2 DEF Told
<1>3. /\ plain = "none" /\ call = "none" /\ m_id = 0 /\ m_synchronous = FALSE
      /\ starts = 0 /\ outcome.call = "none"
      /\ last = 0 /\ plainly = {} /\ DOMAIN origin = {}
      /\ ready = FALSE /\ late = FALSE /\ given_up = FALSE
  BY DEF Invocation!Init, Invocation!Returns
<1> QED BY <1>1, <1>2, <1>3 DEF InvocationIInv, InvocationTypes, CallsOfFunctor, Identifiers, StartsAreKept, LastReply,
             AnnouncementIsKept, GivenUpIsAbandoned, Response

\* The steps of the application before the functor is called.
LEMMA FunctorCalled ==
  ASSUME InvocationIInv, NEW o \in Invocation!Operation, Invocation!CallFunctor(o)
  PROVE  /\ call = "none" /\ call' = o /\ Told'.command = "none" /\ answer' = [c \in {App} |-> Told']
         /\ UNCHANGED <<status, withdrawn, stale, plain, m_id, m_synchronous, m_sync_reply, outcome, last,
                        plainly, origin, late, given_up>>
<1>1. Invocation!Server!Begin(App)
  BY DEF Invocation!CallFunctor
<1>2. Invocation!Server!Tell(App, Invocation!Server!None) /\ UNCHANGED <<status, withdrawn, stale>>
  BY <1>1 DEF Invocation!Server!Begin
<1>3. Told' = Invocation!Server!None /\ answer' = [c \in {App} |-> Told']
  BY <1>2, TellTells DEF InvocationIInv, InvocationTypes
<1> QED BY <1>2, <1>3 DEF Invocation!CallFunctor, Invocation!members, Invocation!Server!None

LEMMA CallPreserves ==
  ASSUME InvocationIInv, NEW o \in Invocation!Operation, Invocation!CallFunctor(o),
         starts' = starts \/ starts' = starts + 1,
         ready' = ready \/ ready' = FALSE,
         o = "Start" => starts' # 0 /\ ~ready',
         o # "Start" => ~m_synchronous,
         o = "Invalidate" => m_id # 0 /\ ~ready'
  PROVE  InvocationIInv'
<1>1. /\ call = "none" /\ call' = o /\ Told'.command = "none" /\ answer' = [c \in {App} |-> Told']
      /\ UNCHANGED <<status, withdrawn, stale, plain, m_id, m_synchronous, m_sync_reply, outcome, last,
                     plainly, origin, late, given_up>>
  BY FunctorCalled
<1>2. InvocationTypes'
  <2>1. starts \in Nat /\ plainly \in SUBSET (1 .. starts)
    BY DEF InvocationIInv, InvocationTypes
  <2>2. starts' \in Nat /\ 1 .. starts \subseteq 1 .. starts'
    BY <2>1
  <2>3. plainly' \in SUBSET (1 .. starts')
    BY <1>1, <2>1, <2>2
  <2> QED BY <1>1, <2>2, <2>3 DEF InvocationIInv, InvocationTypes
<1>3. CallsOfFunctor'
  BY <1>1 DEF InvocationIInv, CallsOfFunctor, Invocation!Operation
<1>4. Identifiers' /\ StartsAreKept' /\ LastReply'
  BY <1>1 DEF InvocationIInv, Identifiers, StartsAreKept, LastReply, Response
<1>5. AnnouncementIsKept'
  BY <1>1 DEF InvocationIInv, AnnouncementIsKept, Response, Announced
<1>6. GivenUpIsAbandoned'
  BY <1>1 DEF InvocationIInv, GivenUpIsAbandoned, Response, Abandoned
<1> QED BY <1>2, <1>3, <1>4, <1>5, <1>6 DEF InvocationIInv

\* Steps that return at once, and answers of GetReply among them.
LEMMA AtOncePreserves ==
  ASSUME InvocationIInv, NEW o, NEW out, Invocation!AtOnce(o, out),
         out.call = "GetReply" /\ out.of # 0 => m_synchronous /\ out.of = m_sync_reply.of,
         UNCHANGED <<ready, given_up>> \/ (given_up' = TRUE /\ ready' = FALSE /\ (m_synchronous \/ m_id = 0))
  PROVE  InvocationIInv'
<1>1. /\ call = "none" /\ outcome' = out
      /\ UNCHANGED <<status, withdrawn, stale, answer, plain, call, m_id, m_synchronous, m_sync_reply,
                     starts, last, plainly, origin, late>>
  BY DEF Invocation!AtOnce, Invocation!server, Invocation!members
<1>2. InvocationTypes'
  BY <1>1 DEF InvocationIInv, InvocationTypes, Told
<1>3. CallsOfFunctor' /\ Identifiers' /\ StartsAreKept'
  BY <1>1 DEF InvocationIInv, CallsOfFunctor, Identifiers, StartsAreKept, Response, Told
<1>4. LastReply'
  BY <1>1 DEF InvocationIInv, StartsAreKept, LastReply
<1>5. AnnouncementIsKept'
  BY <1>1 DEF InvocationIInv, AnnouncementIsKept, Response, Announced, Told
<1>6. GivenUpIsAbandoned'
  BY <1>1 DEF InvocationIInv, GivenUpIsAbandoned, Response, Abandoned, Told
<1> QED BY <1>2, <1>3, <1>4, <1>5, <1>6 DEF InvocationIInv

LEMMA ApplicationPreserves ==
  ASSUME InvocationIInv,
         \/ Invocation!Start \/ Invocation!StartEmpty \/ Invocation!PollOnce
         \/ Invocation!GetReply \/ Invocation!Invalidate
  PROVE  InvocationIInv'
<1>1. CASE Invocation!Start
  <2>1. Invocation!CallFunctor("Start") /\ starts' = starts + 1 /\ ready' = FALSE
    BY <1>1 DEF Invocation!Start
  <2>2. starts' # 0
    BY <2>1 DEF InvocationIInv, InvocationTypes
  <2> QED BY <2>1, <2>2, CallPreserves DEF Invocation!Operation
<1>2. CASE Invocation!StartEmpty
  BY <1>2, AtOncePreserves DEF Invocation!StartEmpty, Invocation!Returns
<1>3. CASE Invocation!PollOnce
  <2>1. CASE m_synchronous
    <3>1. /\ Invocation!AtOnce("PollOnce", [Invocation!Returns("PollOnce", "Success") EXCEPT !.ready = TRUE])
          /\ UNCHANGED <<ready, given_up>>
      BY <1>3, <2>1 DEF Invocation!PollOnce
    <3>2. [Invocation!Returns("PollOnce", "Success") EXCEPT !.ready = TRUE].call # "GetReply"
      BY DEF Invocation!Returns
    <3> QED BY <3>1, <3>2, AtOncePreserves
  <2>2. CASE ~m_synchronous
    BY <1>3, <2>2, CallPreserves DEF Invocation!PollOnce, Invocation!Operation
  <2> QED BY <2>1, <2>2
<1>4. CASE Invocation!GetReply
  <2>1. CASE m_synchronous
    <3> DEFINE out == [Invocation!Returns("GetReply", m_sync_reply.result) EXCEPT !.of = m_sync_reply.of]
    <3>1. Invocation!AtOnce("GetReply", out) /\ UNCHANGED <<ready, given_up>>
      BY <1>4, <2>1 DEF Invocation!GetReply
    <3>2. out.of = m_sync_reply.of
      BY DEF Invocation!Returns
    <3> HIDE DEF out
    <3> QED BY <2>1, <3>1, <3>2, AtOncePreserves
  <2>2. CASE ~m_synchronous
    BY <1>4, <2>2, CallPreserves DEF Invocation!GetReply, Invocation!Operation
  <2> QED BY <2>1, <2>2
<1>5. CASE Invocation!Invalidate
  <2>1. CASE m_synchronous \/ m_id = 0
    <3>1. /\ Invocation!AtOnce("Invalidate", Invocation!Returns("Invalidate", "done"))
          /\ given_up' = TRUE /\ ready' = FALSE
      BY <1>5, <2>1 DEF Invocation!Invalidate, Invocation!InvalidateAtOnce
    <3>2. Invocation!Returns("Invalidate", "done").call = "Invalidate"
      BY DEF Invocation!Returns
    <3> QED BY <2>1, <3>1, <3>2, AtOncePreserves
  <2>2. CASE ~(m_synchronous \/ m_id = 0)
    BY <1>5, <2>2, CallPreserves DEF Invocation!Invalidate, Invocation!Operation
  <2> QED BY <2>1, <2>2
<1> QED BY <1>1, <1>2, <1>3, <1>4, <1>5

\* What a step of the server leaves alone.
ObjectUnchanged ==
  UNCHANGED <<plain, call, m_id, m_synchronous, m_sync_reply, starts, outcome, last, plainly, origin,
              ready, given_up>>

LEMMA ServeLeaves ==
  ASSUME InvocationIInv, Invocation!Serve
  PROVE  /\ ObjectUnchanged /\ call # "none" /\ plain = "none" /\ Told.command \in {"none", "denied"}
         /\ Told'.command \in {"none", "denied", Invocation!Command[call]}
         /\ late' = (late /\ ~(call = "PollOnce" /\ m_id \in stale \ stale'))
BY DEF Invocation!Serve, Invocation!Unanswered, Told, ObjectUnchanged, Invocation!members

\* The server issues an identifier, or loses one.
LEMMA IssuePreserves ==
  ASSUME InvocationIInv, ObjectUnchanged, call = "Start", late' = late, NEW id \in Invocation!Id \ {0},
         Invocation!Server!Issue(App, id) \/ Invocation!Server!FailIssue(App, id)
  PROVE  InvocationIInv'
<1>1. /\ status[id] = "unused"
      /\ status' = [status EXCEPT ![id] = "running"] \/ status' = [status EXCEPT ![id] = "gone"]
      /\ withdrawn' = withdrawn /\ stale' = stale /\ answer' = [c \in {App} |-> Told']
      /\ \/ Told' = Invocation!Server!Says("new", id, "Success", FALSE)
         \/ Told' = Invocation!Server!Says("new", 0, "thrown", FALSE)
  BY TellTells DEF Invocation!Server!Issue, Invocation!Server!FailIssue, InvocationIInv, InvocationTypes
<1>2. Told'.command = "new" /\ (Told'.result = "Success" => Told'.id = id)
  BY <1>1 DEF Invocation!Server!Says
<1>3. /\ status' \in [Invocation!Id -> {"unused", "running", "ready", "gone"}]
      /\ status'[id] # "unused" /\ \A j \in Invocation!Id \ {id} : status'[j] = status[j]
      /\ id \notin DOMAIN origin /\ id # m_id
  BY <1>1 DEF InvocationIInv, InvocationTypes, Identifiers
<1>4. InvocationTypes'
  BY <1>1, <1>3 DEF InvocationIInv, InvocationTypes, ObjectUnchanged
<1>5. CallsOfFunctor' /\ StartsAreKept' /\ LastReply'
  BY DEF InvocationIInv, ObjectUnchanged, CallsOfFunctor, StartsAreKept, LastReply, Response
<1>6. Identifiers'
  BY <1>2, <1>3 DEF InvocationIInv, InvocationTypes, ObjectUnchanged, Identifiers, Response
<1>7. status'[m_id] = status[m_id]
  BY <1>3 DEF InvocationIInv, InvocationTypes
<1>8. AnnouncementIsKept' /\ GivenUpIsAbandoned'
  BY <1>1, <1>7 DEF InvocationIInv, ObjectUnchanged, AnnouncementIsKept, GivenUpIsAbandoned, Announced, Abandoned,
                    Response
<1> QED BY <1>4, <1>5, <1>6, <1>8 DEF InvocationIInv

\* The server hears of the request, and has not answered yet.
LEMMA ContactPreserves ==
  ASSUME InvocationIInv, ObjectUnchanged, call = "PollOnce", Told.command \in {"none", "denied"},
         late' = (late /\ ~(call = "PollOnce" /\ m_id \in stale \ stale')),
         Invocation!Server!Contact(m_id)
  PROVE  InvocationIInv'
<1>1. /\ status[m_id] \in {"running", "ready"} /\ m_id \notin withdrawn
      /\ stale' = stale \ {m_id} /\ UNCHANGED <<status, withdrawn, answer>> /\ Told' = Told
  BY DEF Invocation!Server!Contact, Invocation!Server!Pending, Told
<1>2. InvocationTypes' /\ CallsOfFunctor' /\ Identifiers' /\ StartsAreKept' /\ LastReply'
  BY <1>1 DEF InvocationIInv, ObjectUnchanged, InvocationTypes, CallsOfFunctor, Identifiers, StartsAreKept,
              LastReply, Response
<1>3. AnnouncementIsKept'
  BY <1>1 DEF InvocationIInv, ObjectUnchanged, AnnouncementIsKept, Announced, Response
<1>4. GivenUpIsAbandoned'
  BY <1>1 DEF InvocationIInv, ObjectUnchanged, GivenUpIsAbandoned, Abandoned, Response
<1> QED BY <1>2, <1>3, <1>4 DEF InvocationIInv

\* The server takes the request back, and has not answered yet.
LEMMA WithdrawPreserves ==
  ASSUME InvocationIInv, ObjectUnchanged, call = "Invalidate", late' = late,
         Invocation!Server!Withdraw(App, m_id)
  PROVE  InvocationIInv'
<1>1. /\ withdrawn' = withdrawn \union {m_id} /\ UNCHANGED <<status, stale>>
      /\ Told' = Invocation!Server!None /\ answer' = [c \in {App} |-> Told']
  BY TellTells DEF Invocation!Server!Withdraw, InvocationIInv, InvocationTypes
<1>2. Told'.command = "none"
  BY <1>1 DEF Invocation!Server!None
<1>3. InvocationTypes' /\ CallsOfFunctor' /\ Identifiers' /\ StartsAreKept' /\ LastReply'
  BY <1>1, <1>2 DEF InvocationIInv, ObjectUnchanged, InvocationTypes, CallsOfFunctor, Identifiers, StartsAreKept,
                    LastReply, Response
<1>4. AnnouncementIsKept'
  BY <1>1, <1>2 DEF InvocationIInv, ObjectUnchanged, AnnouncementIsKept, CallsOfFunctor, Announced, Response
<1>5. GivenUpIsAbandoned'
  BY <1>1, <1>2 DEF InvocationIInv, ObjectUnchanged, GivenUpIsAbandoned, Abandoned, Response
<1> QED BY <1>3, <1>4, <1>5 DEF InvocationIInv

\* An answer to the application, after which the request may be gone.
LEMMA AnswerPreserves ==
  ASSUME InvocationIInv, ObjectUnchanged, call \in {"PollOnce", "GetReply", "Invalidate"}, late' = late,
         Told.command \in {"none", "denied"}, answer' = [c \in {App} |-> Told'],
         \/ UNCHANGED <<status, withdrawn, stale>>
         \/ /\ status[m_id] = "ready" /\ call # "PollOnce"
            /\ status' = [status EXCEPT ![m_id] = "gone"]
            /\ withdrawn' = withdrawn \ {m_id} /\ stale' = stale \ {m_id},
         call = "PollOnce" /\ Told'.command = "poll" /\ Told'.result = "Success" => Told'.ready = Announced,
         call = "GetReply" /\ Announced /\ Told.command = "none" =>
           Told'.command = "get" /\ Told'.result \in Reply,
         call = "GetReply" /\ Told'.command = "get" /\ Told'.result \in Reply => Announced,
         call = "Invalidate" /\ Told'.command = "invalidate" => Abandoned
  PROVE  InvocationIInv'
<1>1. /\ status' \in [Invocation!Id -> {"unused", "running", "ready", "gone"}]
      /\ \A id \in Invocation!Id : status'[id] = "unused" <=> status[id] = "unused"
  BY DEF InvocationIInv, InvocationTypes
<1>2. Abandoned => Abandoned'
  BY DEF Abandoned, InvocationIInv, InvocationTypes, ObjectUnchanged
<1>3. m_id \in stale' => m_id \in stale
  OBVIOUS
<1>4. InvocationTypes'
  BY <1>1 DEF InvocationIInv, InvocationTypes, ObjectUnchanged
<1>5. CallsOfFunctor' /\ LastReply'
  BY DEF InvocationIInv, ObjectUnchanged, CallsOfFunctor, LastReply
<1>6. Identifiers'
  BY <1>1 DEF InvocationIInv, InvocationTypes, ObjectUnchanged, Identifiers, Response
<1>7. StartsAreKept'
  BY DEF InvocationIInv, Identifiers, ObjectUnchanged, StartsAreKept, Response, Announced
<1>8. AnnouncementIsKept'
  <2>1. m_id' \in stale' => late'
    BY <1>3 DEF InvocationIInv, ObjectUnchanged, AnnouncementIsKept
  <2>2. Response("PollOnce", "poll")' /\ Told'.result = "Success" =>
          /\ Told'.ready \in BOOLEAN
          /\ Told'.ready => status'[m_id'] \in {"ready", "gone"} /\ (late' \/ Announced')
    BY DEF ObjectUnchanged, Response, Announced
  <2>3. ready' /\ ~m_synchronous' => status'[m_id'] \in {"ready", "gone"}
    BY DEF InvocationIInv, InvocationTypes, ObjectUnchanged, AnnouncementIsKept
  <2>4. ASSUME ready', ~m_synchronous', ~late'
        PROVE  \/ Announced' /\ (call' = "GetReply" => Told'.command = "none")
               \/ Response("GetReply", "get")' /\ Told'.result \in Reply
    <3>1. Announced /\ (call = "GetReply" => Told.command = "none")
      BY <2>4 DEF InvocationIInv, ObjectUnchanged, AnnouncementIsKept, Response
    <3>2. CASE call = "GetReply"
      BY <3>1, <3>2 DEF ObjectUnchanged, Response
    <3>3. CASE call = "PollOnce"
      BY <3>1, <3>3 DEF ObjectUnchanged, Announced
    <3>4. call # "Invalidate"
      BY <2>4 DEF ObjectUnchanged, InvocationIInv, CallsOfFunctor
    <3> QED BY <3>2, <3>3, <3>4
  <2> QED BY <2>1, <2>2, <2>3, <2>4 DEF AnnouncementIsKept
<1>9. GivenUpIsAbandoned'
  <2>1. Response("Invalidate", "invalidate")' => Abandoned'
    BY <1>2 DEF ObjectUnchanged, Response
  <2>2. given_up' => m_synchronous' \/ m_id' = 0 \/ Abandoned'
    BY <1>2 DEF InvocationIInv, ObjectUnchanged, GivenUpIsAbandoned
  <2>3. ASSUME Response("GetReply", "get")', Told'.result \in Reply
        PROVE  ~given_up'
    <3>1. Announced /\ call = "GetReply"
      BY <2>3 DEF ObjectUnchanged, Response
    <3>2. ~Abandoned /\ m_id # 0 /\ ~m_synchronous
      BY <3>1 DEF Announced, Abandoned, InvocationIInv, Identifiers, CallsOfFunctor
    <3> QED BY <3>2 DEF InvocationIInv, GivenUpIsAbandoned, ObjectUnchanged
  <2> QED BY <2>1, <2>2, <2>3 DEF GivenUpIsAbandoned
<1> QED BY <1>4, <1>5, <1>6, <1>7, <1>8, <1>9 DEF InvocationIInv

\* Answers that leave the request as it is.
LEMMA ForgetIfDisposableIsForget ==
  ASSUME Invocation!Server!ForgetIfDisposable(m_id)
  PROVE  \/ UNCHANGED <<status, withdrawn, stale>>
         \/ /\ status[m_id] = "ready"
            /\ status' = [status EXCEPT ![m_id] = "gone"]
            /\ withdrawn' = withdrawn \ {m_id} /\ stale' = stale \ {m_id}
BY DEF Invocation!Server!ForgetIfDisposable, Invocation!Server!Disposable, Invocation!Server!Forget

LEMMA ServePreserves ==
  ASSUME InvocationIInv, Invocation!Serve
  PROVE  InvocationIInv'
<1>1. /\ ObjectUnchanged /\ Told.command \in {"none", "denied"}
      /\ Told'.command \in {"none", "denied", Invocation!Command[call]}
      /\ late' = (late /\ ~(call = "PollOnce" /\ m_id \in stale \ stale'))
  BY ServeLeaves
<1>2. call \in Invocation!Operation /\ late \in BOOLEAN
  BY ServeLeaves DEF InvocationIInv, InvocationTypes, CallsOfFunctor
<1>3. answer = [c \in {App} |-> Told]
  BY DEF InvocationIInv, InvocationTypes
<1>4. CASE call = "Start" /\ \E id \in Invocation!Id \ {0} :
             Invocation!Server!Issue(App, id) \/ Invocation!Server!FailIssue(App, id)
  <2>1. late' = late
    BY <1>1, <1>2, <1>4
  <2> QED BY <1>1, <1>4, <2>1, IssuePreserves
<1>5. CASE call = "PollOnce" /\ Invocation!Server!Contact(m_id)
  BY <1>1, <1>5, ContactPreserves
<1>6. CASE call = "Invalidate" /\ Invocation!Server!Withdraw(App, m_id)
  BY <1>1, <1>2, <1>6, WithdrawPreserves
<1>7. CASE call = "PollOnce" /\ Invocation!Server!AnswerPoll(App, m_id)
  <2> DEFINE rdy == status[m_id] = "ready" /\ m_id \notin withdrawn
  <2>1. /\ UNCHANGED <<status, withdrawn, stale>>
        /\ \/ Invocation!Server!Tell(App, Invocation!Server!Says("poll", m_id, "Success", rdy))
           \/ Invocation!Server!Tell(App, Invocation!Server!Says("wait", m_id, "none", rdy))
           \/ Invocation!Server!Tell(App, Invocation!Server!Says("poll", m_id, "InvalidAsynchronousOperationError", FALSE))
    BY <1>7 DEF Invocation!Server!AnswerPoll
  <2> HIDE DEF rdy
  <2>2. /\ answer' = [c \in {App} |-> Told']
        /\ \/ Told' = Invocation!Server!Says("poll", m_id, "Success", rdy)
           \/ Told' = Invocation!Server!Says("wait", m_id, "none", rdy)
           \/ Told' = Invocation!Server!Says("poll", m_id, "InvalidAsynchronousOperationError", FALSE)
    BY <1>3, <2>1, TellTells
  <2>3. Told'.command = "poll" /\ Told'.result = "Success" => Told'.ready = rdy
    BY <2>2 DEF Invocation!Server!Says
  <2>4. late' = late
    BY <1>1, <1>2, <2>1
  <2> QED BY <1>1, <1>7, <2>1, <2>2, <2>3, <2>4, AnswerPreserves DEF rdy, Announced
<1>8. CASE call = "GetReply" /\ Invocation!Server!HandOver(App, m_id)
  <2>1. PICK res \in Reply : Invocation!Server!Tell(App, Invocation!Server!Says("get", m_id, res, FALSE))
    BY <1>8 DEF Invocation!Server!HandOver, Reply
  <2>2. Told' = Invocation!Server!Says("get", m_id, res, FALSE) /\ answer' = [c \in {App} |-> Told']
    BY <1>3, <2>1, TellTells
  <2>3. Told'.command = "get" /\ Told'.result \in Reply
    BY <2>2 DEF Invocation!Server!Says
  <2>4. Announced /\ late' = late
    BY <1>1, <1>2, <1>8 DEF Invocation!Server!HandOver, Announced
  <2>5. /\ status[m_id] = "ready"
        /\ status' = [status EXCEPT ![m_id] = "gone"]
        /\ withdrawn' = withdrawn \ {m_id} /\ stale' = stale \ {m_id}
    BY <1>8 DEF Invocation!Server!HandOver, Invocation!Server!Forget
  <2> QED BY <1>1, <1>8, <2>2, <2>3, <2>4, <2>5, AnswerPreserves
<1>9. CASE call = "GetReply" /\ Invocation!Server!Deny(App, m_id)
  <2>1. Told' = Invocation!Server!Denied(m_id) /\ answer' = [c \in {App} |-> Told']
    BY <1>3, <1>9, TellTells DEF Invocation!Server!Deny
  <2>2. Told'.command = "denied"
    BY <2>1 DEF Invocation!Server!Denied
  <2>3. ~Announced /\ late' = late /\ UNCHANGED <<status, withdrawn, stale>>
    BY <1>1, <1>2, <1>9 DEF Invocation!Server!Deny, Announced
  <2> QED BY <1>1, <1>9, <2>1, <2>2, <2>3, AnswerPreserves
<1>10. CASE call = "GetReply" /\ Invocation!Server!Refuse(App, m_id)
  <2>1. /\ Told' = Invocation!Server!Says("get", m_id, "InvalidAsynchronousOperationError", FALSE)
        /\ answer' = [c \in {App} |-> Told']
    BY <1>3, <1>10, TellTells DEF Invocation!Server!Refuse
  <2>2. Told'.result \notin Reply
    BY <2>1 DEF Invocation!Server!Says, Reply
  <2>3. Told.command = "denied"
    BY <1>10 DEF Invocation!Server!Refuse, Invocation!Server!Denied, Told
  <2>4. late' = late /\ Invocation!Server!ForgetIfDisposable(m_id)
    BY <1>1, <1>2, <1>10 DEF Invocation!Server!Refuse
  <2> QED BY <1>1, <1>10, <2>1, <2>2, <2>3, <2>4, AnswerPreserves, ForgetIfDisposableIsForget
<1>11. CASE call = "Invalidate" /\ Invocation!Server!AnswerWithdraw(App, m_id)
  <2>1. answer' = [c \in {App} |-> Told'] /\ Abandoned
    BY <1>3, <1>11, TellTells DEF Invocation!Server!AnswerWithdraw, Abandoned
  <2>2. late' = late /\ Invocation!Server!ForgetIfDisposable(m_id)
    BY <1>1, <1>2, <1>11 DEF Invocation!Server!AnswerWithdraw
  <2> QED BY <1>1, <1>11, <2>1, <2>2, AnswerPreserves, ForgetIfDisposableIsForget
<1>12. CASE Invocation!Server!NotPending(App, m_id)
  <2> DEFINE refusal(cmd) == Invocation!Server!Says(cmd, m_id, "InvalidRequestIdentifierError", FALSE)
  <2>1. /\ UNCHANGED <<status, withdrawn, stale>> /\ status[m_id] \notin {"running", "ready"}
        /\ \/ \E cmd \in {"poll", "get", "invalidate"} : Invocation!Server!Tell(App, refusal(cmd))
           \/ Invocation!Server!Tell(App, Invocation!Server!Says("wait", m_id, "none", FALSE))
    BY <1>12 DEF Invocation!Server!NotPending, Invocation!Server!Pending
  <2> HIDE DEF refusal
  <2>2. /\ answer' = [c \in {App} |-> Told']
        /\ \/ \E cmd \in {"poll", "get", "invalidate"} : Told' = refusal(cmd)
           \/ Told' = Invocation!Server!Says("wait", m_id, "none", FALSE)
    BY <1>3, <2>1, TellTells
  <2>3. /\ Told'.result \notin Reply \union {"Success"}
        /\ Told'.command \in {"poll", "get", "invalidate", "wait"}
    BY <2>2 DEF refusal, Invocation!Server!Says, Reply
  <2>4. late' = late
    BY <1>1, <1>2, <2>1
  <2>5. call # "Start"
    BY <1>1, <2>3 DEF Invocation!Command
  <2>6. call = "Invalidate" => Abandoned
    BY <2>1 DEF InvocationIInv, InvocationTypes, CallsOfFunctor, Identifiers, Abandoned
  <2> QED BY <1>1, <1>2, <2>1, <2>2, <2>3, <2>4, <2>5, <2>6, AnswerPreserves DEF Announced, Invocation!Operation
<1> QED BY <1>4, <1>5, <1>6, <1>7, <1>8, <1>9, <1>10, <1>11, <1>12 DEF Invocation!Serve

\* Other steps of the server: workers and sweeps.
LEMMA EnvironmentPreserves ==
  ASSUME InvocationIInv, Invocation!Environment
  PROVE  InvocationIInv'
<1>1. ObjectUnchanged /\ late' = (late \/ m_id \in stale')
  BY DEF Invocation!Environment, ObjectUnchanged, Invocation!members
<1>2. PICK done \in Invocation!Id :
        /\ answer' = answer
        /\ \/ /\ status[done] = "running" /\ status' = [status EXCEPT ![done] = "ready"]
              /\ UNCHANGED <<withdrawn, stale>>
           \/ /\ status[done] = "ready" /\ done \in withdrawn \union stale
              /\ status' = [status EXCEPT ![done] = "gone"]
              /\ withdrawn' = withdrawn \ {done} /\ stale' = stale \ {done}
           \/ UNCHANGED <<status, withdrawn>>
  <2>1. CASE \E id \in Invocation!Id : Invocation!Server!Complete(id)
    BY <2>1 DEF Invocation!Server!Complete
  <2>2. CASE \E id \in Invocation!Id : Invocation!Server!Drop(id)
    BY <2>2 DEF Invocation!Server!Drop, Invocation!Server!Disposable, Invocation!Server!Forget
  <2>3. CASE Invocation!Server!TimePasses
    BY <2>3 DEF Invocation!Server!TimePasses, InvocationIInv, InvocationTypes
  <2> QED BY <2>1, <2>2, <2>3 DEF Invocation!Environment
<1>3. Told' = Told
  BY <1>2 DEF Told
<1>4. /\ status' \in [Invocation!Id -> {"unused", "running", "ready", "gone"}]
      /\ \A id \in Invocation!Id : status'[id] = "unused" <=> status[id] = "unused"
      /\ status[m_id] \in {"ready", "gone"} => status'[m_id] \in {"ready", "gone"}
      /\ status[m_id] = "gone" => status'[m_id] = "gone"
  BY <1>2 DEF InvocationIInv, InvocationTypes
<1>5. Announced => late' \/ Announced'
  BY <1>1, <1>2 DEF Announced, InvocationIInv, InvocationTypes, AnnouncementIsKept, ObjectUnchanged
<1>6. Abandoned => Abandoned'
  BY <1>1, <1>2, <1>4 DEF Abandoned, InvocationIInv, InvocationTypes, ObjectUnchanged
<1>7. InvocationTypes'
  BY <1>1, <1>2, <1>3, <1>4 DEF InvocationIInv, InvocationTypes, ObjectUnchanged
<1>8. CallsOfFunctor' /\ LastReply' /\ StartsAreKept'
  BY <1>1, <1>3 DEF InvocationIInv, ObjectUnchanged, CallsOfFunctor, LastReply, StartsAreKept, Response
<1>9. Identifiers'
  BY <1>1, <1>3, <1>4 DEF InvocationIInv, InvocationTypes, ObjectUnchanged, Identifiers, Response
<1>10. AnnouncementIsKept'
  <2>1. late => late'
    BY <1>1
  <2>2. late' \in BOOLEAN /\ (m_id' \in stale' => late')
    BY <1>1 DEF ObjectUnchanged
  <2> QED BY <1>1, <1>3, <1>4, <1>5, <2>1, <2>2 DEF InvocationIInv, ObjectUnchanged, AnnouncementIsKept, Response
<1>11. GivenUpIsAbandoned'
  BY <1>1, <1>3, <1>6 DEF InvocationIInv, ObjectUnchanged, GivenUpIsAbandoned, Response
<1> QED BY <1>7, <1>8, <1>9, <1>10, <1>11 DEF InvocationIInv

\* A plain reply is under way.
LEMMA AnswerPlainlyPreserves ==
  ASSUME InvocationIInv, Invocation!AnswerPlainly
  PROVE  InvocationIInv'
<1>1. /\ call = "Start"
      /\ UNCHANGED <<status, withdrawn, stale, answer, call, m_id, m_synchronous, m_sync_reply, starts, outcome,
                     last, plainly, origin, ready, late, given_up>>
  BY DEF Invocation!AnswerPlainly, Invocation!server, Invocation!members, Invocation!history
<1>2. InvocationTypes' /\ CallsOfFunctor' /\ Identifiers' /\ StartsAreKept' /\ LastReply'
  BY <1>1 DEF InvocationIInv, InvocationTypes, CallsOfFunctor, Identifiers, StartsAreKept, LastReply, Response, Told
<1>3. AnnouncementIsKept' /\ GivenUpIsAbandoned'
  BY <1>1 DEF InvocationIInv, AnnouncementIsKept, GivenUpIsAbandoned, Announced, Abandoned, Response, Told
<1> QED BY <1>2, <1>3 DEF InvocationIInv

\* The functor returns: the object is free for the next call.
LEMMA ReturnCollects ==
  ASSUME InvocationIInv, NEW out, Invocation!Return(out)
  PROVE  /\ call' = "none" /\ outcome' = out /\ plain' = "none" /\ starts' = starts
         /\ UNCHANGED <<status, withdrawn, stale>> /\ answer' = [c \in {App} |-> Told']
BY TellTells DEF Invocation!Return, Invocation!Server!Collect, InvocationIInv, InvocationTypes

\* A return that does not change what was started.
LEMMA ReturnPreserves ==
  ASSUME InvocationIInv, NEW out, Invocation!Return(out),
         UNCHANGED <<m_id, m_synchronous, m_sync_reply, last, plainly, origin, late>>,
         out.call = "GetReply" /\ out.of # 0 => plainly = {} /\ out.of = last,
         ready' \in BOOLEAN, given_up' \in BOOLEAN,
         ready' => \/ ready /\ call # "GetReply"
                   \/ status[m_id] \in {"ready", "gone"} /\ (late \/ Announced),
         given_up' => given_up \/ Abandoned
  PROVE  InvocationIInv'
<1>1. /\ call' = "none" /\ outcome' = out /\ plain' = "none" /\ starts' = starts
      /\ UNCHANGED <<status, withdrawn, stale>> /\ answer' = [c \in {App} |-> Told']
  BY ReturnCollects
<1>2. InvocationTypes' /\ CallsOfFunctor'
  BY <1>1 DEF InvocationIInv, InvocationTypes, CallsOfFunctor
<1>3. Identifiers' /\ StartsAreKept' /\ LastReply'
  BY <1>1 DEF InvocationIInv, Identifiers, StartsAreKept, LastReply, Response
<1>4. AnnouncementIsKept'
  BY <1>1 DEF InvocationIInv, AnnouncementIsKept, Announced, Response
<1>5. GivenUpIsAbandoned'
  BY <1>1 DEF InvocationIInv, GivenUpIsAbandoned, Abandoned, Response
<1> QED BY <1>2, <1>3, <1>4, <1>5 DEF InvocationIInv

LEMMA ThrowPreserves ==
  ASSUME InvocationIInv, Invocation!Throw
  PROVE  InvocationIInv'
<1> DEFINE out == Invocation!Returns(call, IF call = "Invalidate" THEN "done" ELSE "ClientTransportException")
<1>1. /\ Invocation!Return(out) /\ ready' = (ready /\ call # "GetReply")
      /\ UNCHANGED <<m_id, m_synchronous, m_sync_reply, last, plainly, origin, late, given_up>>
  BY DEF Invocation!Throw, Invocation!members
<1>2. out.of = 0
  BY DEF Invocation!Returns
<1> HIDE DEF out
<1>3. ready' \in BOOLEAN /\ given_up' \in BOOLEAN
  BY <1>1 DEF InvocationIInv, InvocationTypes
<1> QED BY <1>1, <1>2, <1>3, ReturnPreserves

LEMMA StartPlainPreserves ==
  ASSUME InvocationIInv, Invocation!StartPlain
  PROVE  InvocationIInv'
<1>1. call = "Start" /\ UNCHANGED <<m_id, origin, ready, late, given_up>>
  BY DEF Invocation!StartPlain
<1>2. CASE plain = "malformed"
  <2> DEFINE out == Invocation!Returns("Start", "ClientTransportDecodingError")
  <2>1. Invocation!Return(out) /\ UNCHANGED <<m_synchronous, m_sync_reply, last, plainly>>
    BY <1>2 DEF Invocation!StartPlain
  <2>2. out.of = 0
    BY DEF Invocation!Returns
  <2> HIDE DEF out
  <2>3. ready' \in BOOLEAN /\ given_up' \in BOOLEAN
    BY <1>1 DEF InvocationIInv, InvocationTypes
  <2> QED BY <1>1, <2>1, <2>2, <2>3, ReturnPreserves
<1>3. CASE plain # "malformed"
  <2> DEFINE out == Invocation!Returns("Start", "Success")
  <2>1. /\ Invocation!Return(out) /\ m_synchronous' = TRUE
        /\ m_sync_reply' = [result |-> plain, of |-> starts]
        /\ last' = starts /\ plainly' = plainly \union {starts}
    BY <1>3 DEF Invocation!StartPlain
  <2>2. out.call = "Start"
    BY DEF Invocation!Returns
  <2> HIDE DEF out
  <2>3. /\ call' = "none" /\ outcome' = out /\ plain' = "none" /\ starts' = starts
        /\ UNCHANGED <<status, withdrawn, stale>> /\ answer' = [c \in {App} |-> Told']
    BY <2>1, ReturnCollects
  <2>4. starts \in Nat \ {0} /\ plainly \in SUBSET (1 .. starts)
    BY <1>1 DEF InvocationIInv, InvocationTypes, CallsOfFunctor
  <2>5. Invocation!Max(plainly') = starts /\ m_sync_reply'.of = starts
    BY <2>1, <2>4, LastIsMax
  <2>6. InvocationTypes' /\ CallsOfFunctor'
    <3>1. plainly' \in SUBSET (1 .. starts')
      BY <2>1, <2>3, <2>4
    <3> QED BY <1>1, <2>1, <2>3, <3>1 DEF InvocationIInv, InvocationTypes, CallsOfFunctor
  <2>7. Identifiers' /\ LastReply'
    BY <1>1, <2>1, <2>2, <2>3 DEF InvocationIInv, Identifiers, LastReply, Response
  <2>8. StartsAreKept'
    BY <2>1, <2>3, <2>5 DEF StartsAreKept, Response
  <2>9. AnnouncementIsKept' /\ GivenUpIsAbandoned'
    BY <1>1, <2>1, <2>3 DEF InvocationIInv, AnnouncementIsKept, GivenUpIsAbandoned, Response
  <2> QED BY <2>6, <2>7, <2>8, <2>9 DEF InvocationIInv
<1> QED BY <1>2, <1>3

LEMMA StartAsyncPreserves ==
  ASSUME InvocationIInv, Invocation!StartAsync
  PROVE  InvocationIInv'
<1> DEFINE id == Told.id
           out == Invocation!Returns("Start", "Success")
<1>1. /\ Response("Start", "new") /\ Told.result = "Success" /\ Invocation!Return(out)
      /\ m_id' = id /\ last' = starts
      /\ origin' = [i \in DOMAIN origin \union {id} |-> IF i \in DOMAIN origin THEN origin[i] ELSE starts]
      /\ late' = (id \in stale \/ status[id] = "gone") /\ given_up' = FALSE
      /\ UNCHANGED <<m_synchronous, m_sync_reply, plainly, ready>>
  BY DEF Invocation!StartAsync, Invocation!Answered, Response, Told
<1>2. out.call = "Start"
  BY DEF Invocation!Returns
<1>3. id \in Invocation!Id \ DOMAIN origin /\ status[id] # "unused" /\ id # 0 /\ call = "Start" /\ ~ready
  BY <1>1 DEF InvocationIInv, Identifiers, CallsOfFunctor, Response
<1> HIDE DEF out, id
<1>4. /\ call' = "none" /\ outcome' = out /\ plain' = "none" /\ starts' = starts
      /\ UNCHANGED <<status, withdrawn, stale>> /\ answer' = [c \in {App} |-> Told']
  BY <1>1, ReturnCollects
<1>5. origin'[id] = starts /\ DOMAIN origin' = DOMAIN origin \union {id}
  BY <1>1, <1>3
<1>6. InvocationTypes' /\ CallsOfFunctor'
  BY <1>1, <1>3, <1>4 DEF InvocationIInv, InvocationTypes, CallsOfFunctor
<1>7. Identifiers'
  BY <1>1, <1>3, <1>4, <1>5 DEF InvocationIInv, Identifiers, Response
<1>8. StartsAreKept' /\ LastReply'
  BY <1>1, <1>2, <1>4, <1>5 DEF InvocationIInv, StartsAreKept, LastReply, Response
<1>9. AnnouncementIsKept' /\ GivenUpIsAbandoned'
  BY <1>1, <1>3, <1>4 DEF InvocationIInv, AnnouncementIsKept, GivenUpIsAbandoned, Response
<1> QED BY <1>6, <1>7, <1>8, <1>9 DEF InvocationIInv

LEMMA PollAnswerPreserves ==
  ASSUME InvocationIInv, Invocation!PollAnswer
  PROVE  InvocationIInv'
<1>1. /\ Response("PollOnce", "poll")
      /\ UNCHANGED <<m_id, m_synchronous, m_sync_reply, last, plainly, origin, late, given_up>>
  BY DEF Invocation!PollAnswer, Invocation!Answered, Response, Told, Invocation!members
<1>2. PICK out : Invocation!Return(out) /\ out.of = 0 /\ (ready' = ready \/ (Told.result = "Success" /\ ready' = Told.ready))
  <2>1. CASE Told.result # "Success"
    <3> DEFINE out == Invocation!Returns("PollOnce", "ClientTransportDecodingError")
    <3>1. Invocation!Return(out) /\ ready' = ready
      BY <2>1 DEF Invocation!PollAnswer, Told
    <3>2. out.of = 0
      BY DEF Invocation!Returns
    <3> QED BY <3>1, <3>2
  <2>2. CASE Told.result = "Success"
    <3> DEFINE out == [Invocation!Returns("PollOnce", "Success") EXCEPT !.ready = Told.ready]
    <3>1. Invocation!Return(out) /\ ready' = Told.ready
      BY <2>2 DEF Invocation!PollAnswer, Told
    <3>2. out.of = 0
      BY DEF Invocation!Returns
    <3> QED BY <2>2, <3>1, <3>2
  <2> QED BY <2>1, <2>2
<1>3. ready' \in BOOLEAN /\ given_up' \in BOOLEAN
  BY <1>1, <1>2 DEF InvocationIInv, InvocationTypes, AnnouncementIsKept
<1>4. ready' => \/ ready /\ call # "GetReply"
                \/ status[m_id] \in {"ready", "gone"} /\ (late \/ Announced)
  BY <1>1, <1>2 DEF InvocationIInv, AnnouncementIsKept, Response
<1> QED BY <1>1, <1>2, <1>3, <1>4, ReturnPreserves

LEMMA GetAnswerPreserves ==
  ASSUME InvocationIInv, Invocation!GetAnswer
  PROVE  InvocationIInv'
<1> DEFINE replied == IF Told.result \in Reply THEN origin[m_id] ELSE 0
           out == [Invocation!Returns("GetReply", Told.result) EXCEPT !.of = replied]
<1>1. /\ Response("GetReply", "get") /\ Invocation!Return(out) /\ ready' = FALSE
      /\ UNCHANGED <<m_id, m_synchronous, m_sync_reply, last, plainly, origin, late, given_up>>
  BY DEF Invocation!GetAnswer, Invocation!Answered, Response, Told, Invocation!members, Reply
<1>2. out.of = replied
  BY DEF Invocation!Returns
<1>3. plainly = {} /\ (Told.result \in Reply => replied = last)
  BY <1>1 DEF InvocationIInv, CallsOfFunctor, StartsAreKept, Response
<1>4. out.of # 0 => out.of = last
  BY <1>2, <1>3
<1> HIDE DEF out
<1>5. given_up' \in BOOLEAN
  BY <1>1 DEF InvocationIInv, InvocationTypes
<1> QED BY <1>1, <1>3, <1>4, <1>5, ReturnPreserves

LEMMA InvalidateAnswerPreserves ==
  ASSUME InvocationIInv, Invocation!InvalidateAnswer
  PROVE  InvocationIInv'
<1> DEFINE out == Invocation!Returns("Invalidate", "done")
<1>1. /\ Response("Invalidate", "invalidate") /\ Invocation!Return(out) /\ given_up' = TRUE
      /\ UNCHANGED <<m_id, m_synchronous, m_sync_reply, last, plainly, origin, ready, late>>
  BY DEF Invocation!InvalidateAnswer, Invocation!Answered, Response, Told, Invocation!members
<1>2. out.of = 0
  BY DEF Invocation!Returns
<1> HIDE DEF out
<1>3. Abandoned /\ ~ready /\ ready' \in BOOLEAN
  BY <1>1 DEF InvocationIInv, InvocationTypes, CallsOfFunctor, GivenUpIsAbandoned, Response
<1> QED BY <1>1, <1>2, <1>3, ReturnPreserves

LEMMA InvocationNext ==
  ASSUME InvocationIInv, [Invocation!Next]_(Invocation!vars)
  PROVE  InvocationIInv'
<1>1. CASE UNCHANGED Invocation!vars
  <2>1. UNCHANGED <<status, withdrawn, stale, answer, plain, call, m_id, m_synchronous, m_sync_reply, starts,
                    outcome, last, plainly, origin, ready, late, given_up>>
    BY <1>1 DEF Invocation!vars, Invocation!server, Invocation!members, Invocation!history
  <2>2. InvocationTypes' /\ CallsOfFunctor' /\ Identifiers' /\ StartsAreKept' /\ LastReply'
    BY <2>1 DEF InvocationIInv, InvocationTypes, CallsOfFunctor, Identifiers, StartsAreKept, LastReply, Response,
                Told
  <2>3. AnnouncementIsKept' /\ GivenUpIsAbandoned'
    BY <2>1 DEF InvocationIInv, AnnouncementIsKept, GivenUpIsAbandoned, Announced, Abandoned, Response, Told
  <2> QED BY <2>2, <2>3 DEF InvocationIInv
<1> QED
  BY <1>1, ApplicationPreserves, ServePreserves, AnswerPlainlyPreserves, EnvironmentPreserves, ThrowPreserves,
     StartPlainPreserves, StartAsyncPreserves, PollAnswerPreserves, GetAnswerPreserves,
     InvalidateAnswerPreserves
  DEF Invocation!Next

LEMMA InvocationInvariant ==
  ASSUME Invocation!MaxStartsAssumption
  PROVE  Invocation!Spec => []InvocationIInv
<1>1. Invocation!Init => InvocationIInv
  BY InvocationInit
<1>2. InvocationIInv /\ [Invocation!Next]_(Invocation!vars) => InvocationIInv'
  BY InvocationNext
<1> QED BY <1>1, <1>2, PTL DEF Invocation!Spec

\* AsyncInvocation alone has the property of theorem RepliesAreOfTheLastStart.
LEMMA InvocationGivesLastStart ==
  ASSUME Invocation!MaxStartsAssumption
  PROVE  Invocation!Spec => Invocation!ReplyIsOfLastStart
<1>1. InvocationIInv' /\ [Invocation!Next]_(Invocation!vars) => [Invocation!GivesLastStart]_(Invocation!vars)
  <2> SUFFICES ASSUME InvocationIInv', Invocation!Next PROVE Invocation!GivesLastStart
    OBVIOUS
  <2>1. UNCHANGED <<last, plainly>> \/ outcome'.call # "GetReply"
    <3>1. CASE Invocation!StartPlain
      <4>1. outcome'.call = "Start"
        BY <3>1 DEF Invocation!StartPlain, Invocation!Return, Invocation!Returns
      <4> QED BY <4>1
    <3>2. CASE Invocation!StartAsync
      <4>1. outcome'.call = "Start"
        BY <3>2 DEF Invocation!StartAsync, Invocation!Return, Invocation!Returns
      <4> QED BY <4>1
    <3>3. CASE \/ Invocation!Start \/ Invocation!StartEmpty \/ Invocation!PollOnce
               \/ Invocation!GetReply \/ Invocation!Invalidate
      BY <3>3 DEF Invocation!Start, Invocation!StartEmpty, Invocation!PollOnce, Invocation!GetReply,
                  Invocation!Invalidate, Invocation!InvalidateAtOnce, Invocation!AtOnce, Invocation!CallFunctor
    <3>4. CASE Invocation!Serve \/ Invocation!AnswerPlainly \/ Invocation!Environment
      BY <3>4 DEF Invocation!Serve, Invocation!AnswerPlainly, Invocation!Environment, Invocation!history
    <3>5. CASE Invocation!Throw \/ Invocation!PollAnswer \/ Invocation!GetAnswer \/ Invocation!InvalidateAnswer
      BY <3>5 DEF Invocation!Throw, Invocation!PollAnswer, Invocation!GetAnswer, Invocation!InvalidateAnswer
    <3> QED BY <3>1, <3>2, <3>3, <3>4, <3>5 DEF Invocation!Next
  <2> QED BY <2>1 DEF Invocation!GivesLastStart, InvocationIInv, LastReply
<1> QED BY <1>1, InvocationInvariant, PTL DEF Invocation!Spec, Invocation!ReplyIsOfLastStart

\* While GetReply is answered, only its end makes the object free: with the answer, or
\* with an exception of the functor.
LEMMA GetReplyEnds ==
  ASSUME InvocationIInv, Invocation!Next, Response("GetReply", "get"), call' = "none"
  PROVE  \/ Invocation!Throw /\ outcome'.result = "ClientTransportException"
         \/ Invocation!GetAnswer /\ outcome'.result = Told.result
<1>1. call = "GetReply" /\ Told.command = "get"
  BY DEF Response
<1>2. CASE Invocation!Throw
  <2>1. outcome' = Invocation!Returns(call, IF call = "Invalidate" THEN "done" ELSE "ClientTransportException")
    BY <1>2 DEF Invocation!Throw, Invocation!Return
  <2>2. outcome'.result = "ClientTransportException"
    BY <1>1, <2>1 DEF Invocation!Returns
  <2> QED BY <1>2, <2>2
<1>3. CASE Invocation!GetAnswer
  <2>1. PICK replied : outcome' = [Invocation!Returns("GetReply", Told.result) EXCEPT !.of = replied]
    BY <1>3 DEF Invocation!GetAnswer, Invocation!Return, Told
  <2>2. outcome'.result = Told.result
    BY <2>1 DEF Invocation!Returns
  <2> QED BY <1>3, <2>2
<1>4. ASSUME \/ Invocation!Start \/ Invocation!StartEmpty \/ Invocation!PollOnce
             \/ Invocation!GetReply \/ Invocation!Invalidate
      PROVE  FALSE
  BY <1>1, <1>4 DEF Invocation!Start, Invocation!StartEmpty, Invocation!PollOnce, Invocation!GetReply,
                    Invocation!Invalidate, Invocation!InvalidateAtOnce, Invocation!AtOnce, Invocation!CallFunctor
<1>5. ASSUME Invocation!Serve \/ Invocation!AnswerPlainly \/ Invocation!Environment
      PROVE  FALSE
  BY <1>1, <1>5 DEF Invocation!Serve, Invocation!AnswerPlainly, Invocation!Environment
<1>6. ASSUME Invocation!StartPlain \/ Invocation!StartAsync \/ Invocation!PollAnswer
             \/ Invocation!InvalidateAnswer
      PROVE  FALSE
  BY <1>1, <1>6 DEF Invocation!StartPlain, Invocation!StartAsync, Invocation!PollAnswer,
                    Invocation!InvalidateAnswer, Invocation!Answered
<1> QED BY <1>2, <1>3, <1>4, <1>5, <1>6 DEF Invocation!Next

\* AsyncInvocation alone has the property of theorem AnnouncedRepliesArrive.
LEMMA InvocationKeepsAnnouncement ==
  ASSUME Invocation!MaxStartsAssumption
  PROVE  Invocation!Spec => Invocation!ReadyReplyArrives
<1>1. InvocationIInv /\ [Invocation!Next]_(Invocation!vars) => [Invocation!KeepsAnnouncement]_(Invocation!vars)
  <2> SUFFICES ASSUME InvocationIInv, Invocation!Next, ready, ~late, ~m_synchronous,
                      Response("GetReply", "get"), call' = "none"
               PROVE  outcome'.result \in {"Invoked", "ServerProtocolException", "ClientTransportException"}
    BY DEF Invocation!KeepsAnnouncement, Invocation!Answered, Response, Told
  <2>1. Told.result \in Reply
    BY DEF InvocationIInv, AnnouncementIsKept, Response
  <2> QED BY <2>1, GetReplyEnds DEF Reply
<1> QED BY <1>1, InvocationInvariant, PTL DEF Invocation!Spec, Invocation!ReadyReplyArrives

\* AsyncInvocation alone has the property of theorem NothingAfterInvalidate.
LEMMA InvocationStaysWithdrawn ==
  ASSUME Invocation!MaxStartsAssumption
  PROVE  Invocation!Spec => Invocation!NoReplyAfterInvalidate
<1>1. InvocationIInv => ~(Invocation!Delivered /\ given_up)
  BY DEF InvocationIInv, GivenUpIsAbandoned, Invocation!Delivered, Invocation!Answered, Response, Told, Reply
<1>2. InvocationIInv /\ [Invocation!Next]_(Invocation!vars) => [Invocation!StaysWithdrawn]_(Invocation!vars)
  BY <1>1 DEF Invocation!StaysWithdrawn
<1> QED BY <1>2, InvocationInvariant, PTL DEF Invocation!Spec, Invocation!NoReplyAfterInvalidate

\* The server does not keep the request, or need not.
Unneeded == ~Invocation!Server!Pending(m_id) \/ Invocation!Server!Disposable(m_id)

\* A poll was refused.
Refused == Response("PollOnce", "poll") /\ Told.result # "Success"

LEMMA ServeRefuses ==
  ASSUME InvocationIInv, Invocation!Serve, Refused'
  PROVE  Unneeded'
<1>1. /\ ObjectUnchanged /\ call = "PollOnce" /\ Told.command \in {"none", "denied"}
      /\ Told'.command = "poll" /\ Told'.result # "Success" /\ answer = [c \in {App} |-> Told]
  BY ServeLeaves DEF Refused, Response, ObjectUnchanged, InvocationIInv, InvocationTypes
<1>2. CASE Invocation!Server!Contact(m_id)
  <2>1. Told' = Told
    BY <1>2 DEF Invocation!Server!Contact, Told
  <2> QED BY <1>1, <2>1
<1>3. CASE Invocation!Server!AnswerPoll(App, m_id)
  <2> DEFINE rdy == status[m_id] = "ready" /\ m_id \notin withdrawn
  <2>1. \/ Invocation!Server!Tell(App, Invocation!Server!Says("poll", m_id, "Success", rdy))
        \/ Invocation!Server!Tell(App, Invocation!Server!Says("wait", m_id, "none", rdy))
        \/ Invocation!Server!Disposable(m_id)
    BY <1>3 DEF Invocation!Server!AnswerPoll
  <2> HIDE DEF rdy
  <2>2. \/ Told' = Invocation!Server!Says("poll", m_id, "Success", rdy)
        \/ Told' = Invocation!Server!Says("wait", m_id, "none", rdy)
        \/ Invocation!Server!Disposable(m_id)
    BY <1>1, <2>1, TellTells
  <2>3. Invocation!Server!Disposable(m_id)
    BY <1>1, <2>2 DEF Invocation!Server!Says
  <2>4. UNCHANGED <<status, withdrawn, stale>>
    BY <1>3 DEF Invocation!Server!AnswerPoll
  <2> QED BY <1>1, <2>3, <2>4 DEF Unneeded, ObjectUnchanged, Invocation!Server!Disposable
<1>4. CASE Invocation!Server!NotPending(App, m_id)
  BY <1>1, <1>4 DEF Invocation!Server!NotPending, Invocation!Server!Pending, Unneeded, ObjectUnchanged
<1> QED BY <1>1, <1>2, <1>3, <1>4 DEF Invocation!Serve

\* Workers, sweeps and time do not make an unneeded request a needed one.
LEMMA EnvironmentKeepsUnneeded ==
  ASSUME InvocationIInv, Invocation!Environment, Unneeded
  PROVE  Unneeded'
<1>1. m_id' = m_id /\ m_id \in Invocation!Id
  BY DEF Invocation!Environment, Invocation!members, InvocationIInv, InvocationTypes
<1>2. CASE \E id \in Invocation!Id : Invocation!Server!Complete(id)
  BY <1>1, <1>2 DEF Invocation!Server!Complete, Unneeded, Invocation!Server!Pending, Invocation!Server!Disposable,
                    InvocationIInv, InvocationTypes
<1>3. CASE \E id \in Invocation!Id : Invocation!Server!Drop(id)
  BY <1>1, <1>3 DEF Invocation!Server!Drop, Invocation!Server!Forget, Unneeded, Invocation!Server!Pending,
                    Invocation!Server!Disposable, InvocationIInv, InvocationTypes
<1>4. CASE Invocation!Server!TimePasses
  BY <1>1, <1>4 DEF Invocation!Server!TimePasses, Unneeded, Invocation!Server!Pending, Invocation!Server!Disposable
<1> QED BY <1>2, <1>3, <1>4 DEF Invocation!Environment

\* What was refused stays unneeded until PollOnce returns.
LEMMA RefusalStands ==
  ASSUME InvocationIInv, Refused => Unneeded, [Invocation!Next]_(Invocation!vars)
  PROVE  (Refused => Unneeded)'
<1> SUFFICES ASSUME Refused' PROVE Unneeded'
  OBVIOUS
<1>1. call' = "PollOnce" /\ Told'.command = "poll"
  BY DEF Refused, Response
<1>2. CASE Invocation!Serve
  BY <1>2, ServeRefuses
<1>3. CASE Invocation!Environment
  <2>1. Told' = Told /\ call' = call
    BY <1>3 DEF Invocation!Environment, Invocation!Server!Complete, Invocation!Server!Drop,
                Invocation!Server!TimePasses, Told
  <2>2. Refused
    BY <2>1 DEF Refused, Response
  <2> QED BY <1>3, <2>2, EnvironmentKeepsUnneeded
<1>4. CASE UNCHANGED Invocation!vars
  <2>1. UNCHANGED <<status, withdrawn, stale, answer, call, m_id>>
    BY <1>4 DEF Invocation!vars, Invocation!server, Invocation!members
  <2> QED BY <2>1 DEF Refused, Response, Told, Unneeded, Invocation!Server!Pending, Invocation!Server!Disposable
<1>5. CASE \E o \in Invocation!Operation : Invocation!CallFunctor(o)
  <2>1. Told'.command = "none"
    BY <1>5, FunctorCalled
  <2> QED BY <1>1, <2>1
<1>6. CASE \E o, out : Invocation!AtOnce(o, out)
  <2>1. call' = "none"
    BY <1>6 DEF Invocation!AtOnce
  <2> QED BY <1>1, <2>1
<1>7. CASE Invocation!AnswerPlainly
  BY <1>1, <1>7 DEF Invocation!AnswerPlainly
<1>8. CASE \E out : Invocation!Return(out)
  <2>1. call' = "none"
    BY <1>8 DEF Invocation!Return
  <2> QED BY <1>1, <2>1
<1>9. ASSUME Invocation!Start \/ Invocation!StartEmpty \/ Invocation!PollOnce
             \/ Invocation!GetReply \/ Invocation!Invalidate
      PROVE  \/ \E o \in Invocation!Operation : Invocation!CallFunctor(o)
             \/ \E o, out : Invocation!AtOnce(o, out)
  BY <1>9 DEF Invocation!Start, Invocation!StartEmpty, Invocation!PollOnce, Invocation!GetReply,
              Invocation!Invalidate, Invocation!InvalidateAtOnce, Invocation!Operation
<1>10. ASSUME \/ Invocation!Throw \/ Invocation!StartPlain \/ Invocation!StartAsync \/ Invocation!PollAnswer
              \/ Invocation!GetAnswer \/ Invocation!InvalidateAnswer
       PROVE  \E out : Invocation!Return(out)
  BY <1>10 DEF Invocation!Throw, Invocation!StartPlain, Invocation!StartAsync, Invocation!PollAnswer,
               Invocation!GetAnswer, Invocation!InvalidateAnswer
<1> QED BY <1>2, <1>3, <1>4, <1>5, <1>6, <1>7, <1>8, <1>9, <1>10 DEF Invocation!Next

\* PollOnce ends with a decoding error only if the server refused it.
LEMMA PollEnds ==
  ASSUME InvocationIInv, Invocation!Next, call = "PollOnce", call' = "none",
         outcome'.result = "ClientTransportDecodingError"
  PROVE  Refused
<1>1. ASSUME Invocation!Throw PROVE FALSE
  <2>1. outcome' = Invocation!Returns("PollOnce", "ClientTransportException")
    BY <1>1 DEF Invocation!Throw, Invocation!Return
  <2>2. outcome'.result = "ClientTransportException"
    BY <2>1 DEF Invocation!Returns
  <2> QED BY <2>2
<1>2. CASE Invocation!PollAnswer
  <2>1. Response("PollOnce", "poll")
    BY <1>2 DEF Invocation!PollAnswer, Invocation!Answered, Response, Told
  <2>2. ASSUME Told.result = "Success" PROVE FALSE
    <3>1. outcome' = [Invocation!Returns("PollOnce", "Success") EXCEPT !.ready = Told.ready]
      BY <1>2, <2>2 DEF Invocation!PollAnswer, Invocation!Return, Told
    <3>2. outcome'.result = "Success"
      BY <3>1 DEF Invocation!Returns
    <3> QED BY <3>2
  <2> QED BY <2>1, <2>2 DEF Refused
<1>3. ASSUME \/ Invocation!Start \/ Invocation!StartEmpty \/ Invocation!PollOnce
             \/ Invocation!GetReply \/ Invocation!Invalidate
      PROVE  FALSE
  BY <1>3 DEF Invocation!Start, Invocation!StartEmpty, Invocation!PollOnce, Invocation!GetReply,
              Invocation!Invalidate, Invocation!InvalidateAtOnce, Invocation!AtOnce, Invocation!CallFunctor
<1>4. ASSUME Invocation!Serve \/ Invocation!AnswerPlainly \/ Invocation!Environment
      PROVE  FALSE
  BY <1>4 DEF Invocation!Serve, Invocation!AnswerPlainly, Invocation!Environment
<1>5. ASSUME Invocation!StartPlain \/ Invocation!StartAsync \/ Invocation!GetAnswer
             \/ Invocation!InvalidateAnswer
      PROVE  FALSE
  BY <1>5 DEF Invocation!StartPlain, Invocation!StartAsync, Invocation!GetAnswer,
              Invocation!InvalidateAnswer, Invocation!Answered
<1> QED BY <1>1, <1>2, <1>3, <1>4, <1>5 DEF Invocation!Next

\* AsyncInvocation alone has the property of theorem PollsFailOnlyIfUnneeded.
LEMMA InvocationRefusalIsJustified ==
  ASSUME Invocation!MaxStartsAssumption
  PROVE  Invocation!Spec => Invocation!PollFailsOnlyIfUnneeded
<1>1. Invocation!Init => (Refused => Unneeded)
  BY DEF Invocation!Init, Refused, Response
<1>2. InvocationIInv /\ (Refused => Unneeded) /\ [Invocation!Next]_(Invocation!vars) => (Refused => Unneeded)'
  BY RefusalStands
<1>3. InvocationIInv /\ (Refused => Unneeded) /\ [Invocation!Next]_(Invocation!vars)
        => [Invocation!RefusalIsJustified]_(Invocation!vars)
  BY PollEnds DEF Invocation!RefusalIsJustified, Unneeded
<1> QED BY <1>1, <1>2, <1>3, InvocationInvariant, PTL DEF Invocation!Spec, Invocation!PollFailsOnlyIfUnneeded

-----------------------------------------------------------------------------
(* Components: the one that was chosen runs, and the others do not matter *)

Chosen(c) == component = c

\* The choice is for ever.
LEMMA ChoiceIsKept ==
  /\ Spec /\ ~Chosen("stacks") => []~Chosen("stacks")
  /\ Spec /\ ~Chosen("variable") => []~Chosen("variable")
  /\ Spec /\ ~Chosen("function") => []~Chosen("function")
  /\ Spec /\ ~Chosen("invocation") => []~Chosen("invocation")
<1>1. ASSUME NEW c, [Next]_vars PROVE Chosen(c)' <=> Chosen(c)
  BY <1>1 DEF Next, vars, Chosen
<1>2. [Next]_vars => /\ Chosen("stacks")' <=> Chosen("stacks")
                     /\ Chosen("variable")' <=> Chosen("variable")
                     /\ Chosen("function")' <=> Chosen("function")
                     /\ Chosen("invocation")' <=> Chosen("invocation")
  BY <1>1
<1> QED BY <1>2, PTL DEF Spec

LEMMA StacksRun == Spec /\ Chosen("stacks") => Stacks!Spec
<1>1. Init /\ Chosen("stacks") => Stacks!Init
  BY DEF Init, Chosen
<1>2. [Next]_vars /\ Chosen("stacks") => [Stacks!Next]_(Stacks!vars) /\ Chosen("stacks")'
  BY DEF Next, Chosen, vars, place, stacks, Stacks!vars, Stacks!stacks, Stacks!outer, Stacks!protocol
<1> QED BY <1>1, <1>2, PTL DEF Spec, Stacks!Spec

LEMMA VariableRuns == Spec /\ Chosen("variable") => Variable!Spec
<1>1. Init /\ Chosen("variable") => Variable!Init
  BY DEF Init, Chosen
<1>2. [Next]_vars /\ Chosen("variable") => [Variable!Next]_(Variable!vars) /\ Chosen("variable")'
  BY DEF Next, Chosen, vars, variable, operation, Variable!vars
<1> QED BY <1>1, <1>2, PTL DEF Spec, Variable!Spec

LEMMA FunctionRuns == Spec /\ Chosen("function") => Fn!Spec
<1>1. Init /\ Chosen("function") => Fn!Init
  BY DEF Init, Chosen
<1>2. [Next]_vars /\ Chosen("function") => [Fn!Next]_(Fn!vars) /\ Chosen("function")'
  BY DEF Next, Chosen, vars, function, place, Fn!vars
<1> QED BY <1>1, <1>2, PTL DEF Spec, Fn!Spec

LEMMA InvocationRuns == Spec /\ Chosen("invocation") => Invocation!Spec
<1>1. Init /\ Chosen("invocation") => Invocation!Init
  BY DEF Init, Chosen
<1>2. [Next]_vars /\ Chosen("invocation") => [Invocation!Next]_(Invocation!vars) /\ Chosen("invocation")'
  BY DEF Next, Chosen, vars, invocation, operation, Invocation!vars, Invocation!server, Invocation!members,
         Invocation!history
<1> QED BY <1>1, <1>2, PTL DEF Spec, Invocation!Spec

\* A step that leaves the variables of the one that runs alone leaves all alone.
LEMMA OnlyChosenChanges ==
  ASSUME [Next]_vars
  PROVE  /\ Chosen("variable") /\ UNCHANGED Variable!vars => UNCHANGED vars
         /\ Chosen("function") /\ UNCHANGED Fn!vars => UNCHANGED vars
         /\ Chosen("invocation") /\ UNCHANGED Invocation!vars => UNCHANGED vars
<1>1. ASSUME Chosen("variable"), UNCHANGED Variable!vars PROVE UNCHANGED vars
  BY <1>1 DEF Next, Chosen, vars, variable, operation, Variable!vars
<1>2. ASSUME Chosen("function"), UNCHANGED Fn!vars PROVE UNCHANGED vars
  BY <1>2 DEF Next, Chosen, vars, function, place, Fn!vars
<1>3. ASSUME Chosen("invocation"), UNCHANGED Invocation!vars PROVE UNCHANGED vars
  BY <1>3 DEF Next, Chosen, vars, invocation, operation, Invocation!vars, Invocation!server,
              Invocation!members, Invocation!history
<1> QED BY <1>1, <1>2, <1>3

-----------------------------------------------------------------------------
(* Components: the properties *)

\* When a call returns a result of the protocol, all loggers have told the same of it
\* (LogProtocolDecorator, LogAnyFunctorDecorator).
THEOREM LoggersAgree == Spec => []LogsAgree
<1>1. Stacks!Spec => []Stacks!LogsAgree
  BY StacksLogsAgree, StacksAssumption
<1>2. Stacks!LogsAgree \/ ~Chosen("stacks") => LogsAgree
  BY DEF LogsAgree, Chosen
<1> QED BY <1>1, <1>2, StacksRun, ChoiceIsKept, PTL

\* Exceptions of loggers, network, functors and protocol end where they belong
\* (LogProtocolDecorator, LogAnyFunctorDecorator, ProtocolRPCClient, ProtocolRPCServer).
THEOREM ExceptionsStayContained == Spec => []ExceptionsAreContained
<1>1. Stacks!Spec => []Stacks!ExceptionsAreContained
  BY StacksContainExceptions, StacksAssumption
<1>2. Stacks!ExceptionsAreContained \/ ~Chosen("stacks") => ExceptionsAreContained
  BY DEF ExceptionsAreContained, Chosen
<1> QED BY <1>1, <1>2, StacksRun, ChoiceIsKept, PTL

\* The callback is told what one would have read just after the update
\* (EncodedProcessVariable::SetMonitorCallback).
THEOREM CallbackTellsTheValue == Spec => []CallbackTellsValue
<1>1. Variable!Spec => []Variable!CallbackTellsValue
  BY VariableTellsValue, VariableAssumption
<1>2. Variable!CallbackTellsValue \/ ~Chosen("variable") => CallbackTellsValue
  BY DEF CallbackTellsValue, Chosen
<1> QED BY <1>1, <1>2, VariableRuns, ChoiceIsKept, PTL

\* A read gives what the variable really held during the call, or tells that there was
\* a moment without a value (EncodedProcessVariable::GetValue, WaitForAvailable).
THEOREM ReadsAreOfTheirTime == Spec => ReadsAreCurrent
<1>1. Variable!Spec => [][Variable!CurrentRead]_(Variable!vars)
  BY VariableReadsAreCurrent, VariableAssumption DEF Variable!ReadsAreCurrent
<1>2. [Next]_vars /\ (~Chosen("variable") \/ [Variable!CurrentRead]_(Variable!vars))
        => [component = "variable" => Variable!CurrentRead]_vars
  BY OnlyChosenChanges DEF Chosen
<1> QED BY <1>1, <1>2, VariableRuns, ChoiceIsKept, PTL DEF Spec, ReadsAreCurrent

\* The argument packed first under a name is extracted, if the callee asks for its kind
\* (FunctionProtocolPack, FunctionProtocolExtract), whatever the values, names and
\* functions are, and whatever else was packed.
THEOREM PackedArrives == Spec => []PackedIsExtracted
<1>1. Fn!Spec => []Fn!PackedIsExtracted
  BY FunctionPackedArrives, FunctionAssumption
<1>2. Fn!PackedIsExtracted \/ ~Chosen("function") => PackedIsExtracted
  BY DEF PackedIsExtracted, Chosen
<1> QED BY <1>1, <1>2, FunctionRuns, ChoiceIsKept, PTL

\* What is extracted is the field, never a value of another type taken for one of the
\* kind that was asked for (ValidateFunctionProtocolInput), whichever conversions there
\* are; an AnyValue variable with a type of its own holds what they make of the field.
THEOREM ExtractedIsTheField == Spec => []ExtractedIsField
<1>1. Fn!Spec => []Fn!ExtractedIsField
  BY FunctionExtractsField, FunctionAssumption
<1>2. Fn!ExtractedIsField \/ ~Chosen("function") => ExtractedIsField
  BY DEF ExtractedIsField, Chosen
<1> QED BY <1>1, <1>2, FunctionRuns, ChoiceIsKept, PTL

\* No pack changes or drops a field that is there (FunctionProtocolPrepareOutput).
THEOREM PacksKeepFields == Spec => FieldsAreKept
<1>1. Fn!Spec => [][Fn!KeepsFields]_(Fn!vars)
  BY FunctionKeepsFields DEF Fn!FieldsAreKept
<1>2. [Next]_vars /\ (~Chosen("function") \/ [Fn!KeepsFields]_(Fn!vars))
        => [component = "function" => Fn!KeepsFields]_vars
  BY OnlyChosenChanges DEF Chosen
<1> QED BY <1>1, <1>2, FunctionRuns, ChoiceIsKept, PTL DEF Spec, FieldsAreKept

\* GetReply gives the reply to the last Start that succeeded, or to the last that was
\* answered by a plain reply, if there was one, whatever is lost or refused in between and
\* however often the application starts (AsyncInvocation::Start, GetReply).
THEOREM RepliesAreOfTheLastStart == Spec => ReplyIsOfLastStart
<1>1. Invocation!Spec => [][Invocation!GivesLastStart]_(Invocation!vars)
  BY InvocationGivesLastStart, InvocationAssumption DEF Invocation!ReplyIsOfLastStart
<1>2. [Next]_vars /\ (~Chosen("invocation") \/ [Invocation!GivesLastStart]_(Invocation!vars))
        => [component = "invocation" => Invocation!GivesLastStart]_vars
  BY OnlyChosenChanges DEF Chosen
<1> QED BY <1>1, <1>2, InvocationRuns, ChoiceIsKept, PTL DEF Spec, ReplyIsOfLastStart

\* Once PollOnce announced the reply, GetReply delivers it, whatever the application did
\* before, unless a packet is lost or the server waited too long (AsyncInvocation::
\* PollOnce, GetReply; the promises of AsyncRequests, which the server keeps).
THEOREM AnnouncedRepliesArrive == Spec => ReadyReplyArrives
<1>1. Invocation!Spec => [][Invocation!KeepsAnnouncement]_(Invocation!vars)
  BY InvocationKeepsAnnouncement, InvocationAssumption DEF Invocation!ReadyReplyArrives
<1>2. [Next]_vars /\ (~Chosen("invocation") \/ [Invocation!KeepsAnnouncement]_(Invocation!vars))
        => [component = "invocation" => Invocation!KeepsAnnouncement]_vars
  BY OnlyChosenChanges DEF Chosen
<1> QED BY <1>1, <1>2, InvocationRuns, ChoiceIsKept, PTL DEF Spec, ReadyReplyArrives

\* After an Invalidate whose packet arrived, no reply of the request is delivered
\* (AsyncInvocation::Invalidate, and the server's Withdraw).
THEOREM NothingAfterInvalidate == Spec => NoReplyAfterInvalidate
<1>1. Invocation!Spec => [][Invocation!StaysWithdrawn]_(Invocation!vars)
  BY InvocationStaysWithdrawn, InvocationAssumption DEF Invocation!NoReplyAfterInvalidate
<1>2. [Next]_vars /\ (~Chosen("invocation") \/ [Invocation!StaysWithdrawn]_(Invocation!vars))
        => [component = "invocation" => Invocation!StaysWithdrawn]_vars
  BY OnlyChosenChanges DEF Chosen
<1> QED BY <1>1, <1>2, InvocationRuns, ChoiceIsKept, PTL DEF Spec, NoReplyAfterInvalidate

\* A decoding error of PollOnce comes only when the server has no such request, or one that
\* is ready and was invalidated or not asked for in a long time (AsyncInvocation::PollOnce,
\* and the server's AnswerPoll).
THEOREM PollsFailOnlyIfUnneeded == Spec => PollFailsOnlyIfUnneeded
<1>1. Invocation!Spec => [][Invocation!RefusalIsJustified]_(Invocation!vars)
  BY InvocationRefusalIsJustified, InvocationAssumption DEF Invocation!PollFailsOnlyIfUnneeded
<1>2. [Next]_vars /\ (~Chosen("invocation") \/ [Invocation!RefusalIsJustified]_(Invocation!vars))
        => [component = "invocation" => Invocation!RefusalIsJustified]_vars
  BY OnlyChosenChanges DEF Chosen
<1> QED BY <1>1, <1>2, InvocationRuns, ChoiceIsKept, PTL DEF Spec, PollFailsOnlyIfUnneeded

=============================================================================
