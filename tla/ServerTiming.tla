---------------------------- MODULE ServerTiming ----------------------------
(***************************************************************************)
(* A server from its configuration to its sweeps: an application makes a   *)
(* ProtocolRPCServerConfig and may validate it; ProtocolRPCServer gives    *)
(* the time to its AsyncInvokeServer and half of it to its                 *)
(* ExpirationTimeoutHandler (base/protocol_rpc_server.cpp).  Requests do   *)
(* not depend on each other, so there is one; packets are handled one      *)
(* after the other.                                                        *)
(*                                                                         *)
(* An operator named Bug_X is X with a plausible mistake in it; it is not  *)
(* part of the model and serves to show that the properties notice it.     *)
(***************************************************************************)
EXTENDS Configuration

VARIABLES
  m_expiration_sec, \* of the ProtocolRPCServerConfig
  server_accepted,    \* whether ValidateProtocolRPCServerConfig was asked, and accepted it
  built,       \* whether the server exists
  m_expiration_time_ns, m_cleanup_ns, m_last_timestamp,
  request,     \* "none", "running" or "finished"
  m_last_access,
  finished,    \* history: when it finished
  packet       \* history: when the last packet was handled

config == <<m_expiration_sec, server_accepted, built, m_expiration_time_ns, m_cleanup_ns>>
serverVars == <<config, m_last_timestamp, request, m_last_access, finished, packet>>

ServerInit ==
  /\ m_expiration_sec = 0 /\ server_accepted = FALSE /\ built = FALSE
  /\ m_expiration_time_ns = 0 /\ m_cleanup_ns = 0 /\ m_last_timestamp = 0
  /\ request = "none" /\ m_last_access = 0 /\ finished = 0
  /\ now = 0 /\ packet = 0

ConfigureServer ==
  /\ ~built
  /\ m_expiration_sec' \in Duration
  /\ server_accepted' \in {FALSE, ValidateProtocolRPCServerConfig(m_expiration_sec')}
  /\ UNCHANGED <<built, m_expiration_time_ns, m_cleanup_ns,
                 m_last_timestamp, request, m_last_access, finished, now, packet>>

\* Gives the handler the double of the time.
Bug_ProtocolRPCServer ==
  /\ ~built /\ built' = TRUE
  /\ m_expiration_time_ns' \in ToNanoseconds(m_expiration_sec, 4)
  /\ m_cleanup_ns' \in ToNanoseconds(2 * m_expiration_sec, 4)
  /\ UNCHANGED <<m_expiration_sec, server_accepted, m_last_timestamp, request, m_last_access, finished, now, packet>>

ProtocolRPCServer ==
  /\ ~built /\ built' = TRUE
  /\ m_expiration_time_ns' \in ToNanoseconds(m_expiration_sec, 4)
  /\ m_cleanup_ns' \in ToNanoseconds(m_expiration_sec, 8)
  /\ UNCHANGED <<m_expiration_sec, server_accepted, m_last_timestamp, request, m_last_access, finished, now, packet>>

IsCleanUpNeeded == Unsigned(now - m_last_timestamp) > m_cleanup_ns

IsExpired == Unsigned(now - m_last_access) > m_expiration_time_ns

\* What becomes of the request when operator() sweeps before it handles a packet.
Swept == IF IsCleanUpNeeded /\ request = "finished" /\ IsExpired THEN "none" ELSE request

\* operator() handles a packet; r becomes of the request, which was accessed at time a.
Packet(r, a) ==
  /\ built
  /\ request' = r
  /\ m_last_access' = a
  /\ m_last_timestamp' = IF IsCleanUpNeeded THEN now ELSE m_last_timestamp
  /\ packet' = now
  /\ UNCHANGED <<config, now>>

\* A request begins; any other packet arrives; a poll finds the request, and is refused
\* if it may be removed; its reply is fetched.
NewRequest == Swept = "none" /\ Packet("running", now) /\ finished' = 0
OtherPacket == Packet(Swept, m_last_access) /\ UNCHANGED finished
Poll ==
  /\ Swept # "none"
  /\ Packet(Swept, IF Swept = "finished" /\ IsExpired THEN m_last_access ELSE now)
  /\ UNCHANGED finished
GetReply == Swept = "finished" /\ Packet("none", m_last_access) /\ UNCHANGED finished

\* The worker ends.
Finish ==
  /\ request = "running"
  /\ request' = "finished"
  /\ finished' = now
  /\ UNCHANGED <<config, m_last_timestamp, m_last_access, now, packet>>

ServerTick ==
  /\ Tick
  /\ UNCHANGED <<config, m_last_timestamp, request, m_last_access, finished, packet>>

ServerNext ==
  \/ ConfigureServer \/ ProtocolRPCServer
  \/ NewRequest \/ OtherPacket \/ Poll \/ GetReply
  \/ Finish \/ ServerTick

ServerSpec == ServerInit /\ [][ServerNext]_<<now, serverVars>>

-----------------------------------------------------------------------------
(* Properties *)

\* With an accepted configuration that fits into 64 bits, a finished request is gone
\* with the first packet that arrives one and a half times the configured time after
\* its last access, if half of the time has passed since it finished; all up to a
\* nanosecond (ProtocolRPCServer::ProtocolRPCServer, CleanUpExpiredRequests).
AbandonedAreReclaimed ==
  (server_accepted /\ InRange(m_expiration_sec, 4) /\ request = "finished" /\ finished <= packet) =>
    \/ 8 * (packet - m_last_access) <= 3 * m_expiration_sec + 8
    \/ 8 * (packet - finished) <= m_expiration_sec + 4

=============================================================================
