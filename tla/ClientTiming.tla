---------------------------- MODULE ClientTiming ----------------------------
(***************************************************************************)
(* A client from its configuration to its polls: an application parses an  *)
(* encoding, makes a ProtocolRPCClientConfig and may validate it;          *)
(* ProtocolRPCClient::HandleAsyncInvoke makes a PollingTimeoutHandler      *)
(* (base/polling_timeout_handler.cpp) and polls until the reply is ready   *)
(* or the timeout has passed.                                              *)
(*                                                                         *)
(* An operator named Bug_X is X with a plausible mistake in it; it is not  *)
(* part of the model and serves to show that the properties notice it.     *)
(***************************************************************************)
EXTENDS Configuration

CONSTANTS
  ConfigValue, \* AnyValues that they parse
  AnyEncoding  \* integers that they cast to a PayloadEncoding

ASSUME EncodingAssumption == AnyEncoding \subseteq Int

VARIABLES
  cfg,         \* a ProtocolRPCClientConfig
  client_accepted, \* whether ValidateProtocolRPCClientConfig was asked, and accepted it
  stage,       \* "idle" outside a call, "polling", "asleep" in Wait, or "gave_up"
  m_start_timestamp, m_timeout_duration_ns, m_polling_interval_ns,
  asked,       \* history: the last call of Wait
  wake         \* until when it sleeps

handler == <<m_start_timestamp, m_timeout_duration_ns, m_polling_interval_ns>>
clientVars == <<cfg, client_accepted, stage, handler, asked, wake>>

ClientInit ==
  /\ cfg = SyncConfig(kBase64)
  /\ client_accepted = FALSE
  /\ stage = "idle"
  /\ now = 0
  /\ m_start_timestamp = 0 /\ m_timeout_duration_ns = 0 /\ m_polling_interval_ns = 0
  /\ asked = 0 /\ wake = 0

\* A configuration is made, with a parsed encoding or any other.
ConfigureClient ==
  /\ stage = "idle"
  /\ \E e \in {ParsePayloadEncoding(c) : c \in {d \in ConfigValue : Parses(d)}} \union AnyEncoding :
       \/ cfg' = SyncConfig(e)
       \/ \E t \in Duration, i \in Duration : cfg' = AsyncConfig(e, t, i)
  /\ client_accepted' = FALSE
  /\ UNCHANGED <<stage, handler, asked, wake, now>>

ValidateClient ==
  /\ stage = "idle"
  /\ client_accepted' = ValidateProtocolRPCClientConfig(cfg)
  /\ UNCHANGED <<cfg, stage, handler, asked, wake, now>>

-----------------------------------------------------------------------------
(* The client waits. *)

\* HandleAsyncInvoke makes its PollingTimeoutHandler.
Start ==
  /\ stage = "idle" /\ cfg.m_async
  /\ stage' = "polling"
  /\ m_start_timestamp' = now
  /\ m_timeout_duration_ns' \in ToNanoseconds(cfg.m_timeout_sec, 4)
  /\ m_polling_interval_ns' \in ToNanoseconds(cfg.m_polling_interval_sec, 4)
  /\ UNCHANGED <<cfg, client_accepted, asked, wake, now>>

\* Invoke returns and its PollingTimeoutHandler is gone.
Return ==
  /\ stage' = "idle"
  /\ m_start_timestamp' = 0 /\ m_timeout_duration_ns' = 0 /\ m_polling_interval_ns' = 0
  /\ asked' = 0 /\ wake' = 0
  /\ UNCHANGED <<cfg, client_accepted, now>>

\* A poll announces the reply.
Ready == stage = "polling" /\ Return

passed_ns == Unsigned(now - m_start_timestamp)

\* sleep_for takes a signed number of nanoseconds, and does not sleep if it is negative.
SleepUntil(n) == IF Signed(n) > 0 THEN now + Signed(n) ELSE now

\* Sleeps past the timeout.
Bug_Wait ==
  /\ stage = "polling"
  /\ asked' = now
  /\ IF passed_ns > m_timeout_duration_ns
       THEN stage' = "gave_up" /\ UNCHANGED wake
       ELSE stage' = "asleep" /\ wake' = SleepUntil(m_polling_interval_ns)
  /\ UNCHANGED <<cfg, client_accepted, handler, now>>

Wait ==
  /\ stage = "polling"
  /\ asked' = now
  /\ IF passed_ns > m_timeout_duration_ns
       THEN stage' = "gave_up" /\ UNCHANGED wake
       ELSE /\ stage' = "asleep"
            /\ wake' = SleepUntil(Lesser(m_polling_interval_ns, m_timeout_duration_ns - passed_ns))
  /\ UNCHANGED <<cfg, client_accepted, handler, now>>

WakeUp ==
  /\ stage = "asleep" /\ now >= wake
  /\ stage' = "polling"
  /\ UNCHANGED <<cfg, client_accepted, handler, asked, wake, now>>

\* Invoke returns AsynchronousProtocolTimeout.
GiveUp == stage = "gave_up" /\ Return

ClientTick == Tick /\ UNCHANGED <<cfg, client_accepted, stage, handler, asked, wake>>

-----------------------------------------------------------------------------

ClientNext ==
  \/ ConfigureClient \/ ValidateClient
  \/ Start \/ Ready \/ Wait \/ WakeUp \/ GiveUp
  \/ ClientTick

ClientSpec == ClientInit /\ [][ClientNext]_<<now, clientVars>>

-----------------------------------------------------------------------------
(* Properties *)

\* The timing of an accepted configuration fits into 64 bits.
Fits == InRange(cfg.m_timeout_sec, 4) /\ InRange(cfg.m_polling_interval_sec, 4)

\* With an accepted configuration that fits into 64 bits, a client polls at least as
\* often as it is told to, never sleeps past its timeout, and does not give up before
\* it; all of them up to half a nanosecond (ToNanoseconds, PollingTimeoutHandler::Wait).
WaitsAsConfigured ==
  (client_accepted /\ Fits) =>
    /\ stage = "asleep" =>
         /\ 4 * (wake - asked) <= cfg.m_polling_interval_sec + 2
         /\ 4 * (wake - m_start_timestamp) <= cfg.m_timeout_sec + 2
    /\ stage = "gave_up" => 4 * (asked - m_start_timestamp) > cfg.m_timeout_sec

=============================================================================
