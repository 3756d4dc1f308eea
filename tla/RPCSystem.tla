------------------------------ MODULE RPCSystem ------------------------------
(***************************************************************************)
(* Clients and a server.  Each client c runs ProtocolRPCClient on a thread *)
(* of its own (base/protocol_rpc_client.cpp, base/async_invocation.cpp,    *)
(* base/polling_timeout_handler.cpp); its calls of the functor are handled *)
(* by thread c of the ProtocolRPCServer, whose state and actions are those *)
(* of the instance Server.  The network layer between them belongs to the  *)
(* user of the library: a call of the functor returns the server's answer, *)
(* or throws because the request, or the answer, was lost.                 *)
(*                                                                         *)
(* An operator named Bug_X is X with a plausible mistake in it; it is not  *)
(* part of the model and serves to show that the properties notice it.     *)
(***************************************************************************)
EXTENDS Naturals, FiniteSets

CONSTANTS
  Thread, NoThread, Expiration, TimeModulus, MaxTime, MaxId, LaunchMayFail, ClockMayStepBack,
  CleanUpInterval, PacketKinds, Never,   \* of the server
  Timeout,          \* m_timeout_sec of the clients
  PollingInterval,  \* m_polling_interval_sec
  Calls,            \* the calls that clients make: "async", "invoke", "service"
  Lossy,            \* clients whose network loses packets: their functor may throw
  ServerMayRestart, \* whether the server process may be restarted, once
  Punctual          \* clients that poll often enough to keep their requests alive

ASSUME ServerAssumption ==   \* what ProtocolRPCServer assumes
  /\ NoThread \notin Thread
  /\ Expiration \in Nat /\ MaxTime \in Nat /\ TimeModulus \in Nat
  /\ MaxTime < TimeModulus /\ Expiration < TimeModulus
  /\ MaxId \in Nat
  /\ ClockMayStepBack \in BOOLEAN /\ LaunchMayFail \in BOOLEAN
  /\ CleanUpInterval \in Nat /\ CleanUpInterval < TimeModulus
  /\ Never \notin 0 .. MaxTime
ASSUME ClientAssumption ==
  /\ Timeout \in Nat /\ PollingInterval \in Nat
  /\ Timeout < TimeModulus
  /\ Calls \subseteq {"async", "invoke", "service"}
  /\ Lossy \subseteq Thread /\ Punctual \subseteq Thread
  /\ ServerMayRestart \in BOOLEAN

VARIABLES
  now, invokes, last_id, mtx, pc, reply, issued,    \* of the table
  last_cleanup, stage, packet, answer, garbage,     \* of the server
  async_supported, \* whether the server knows the asynchronous protocol; never changes
  cpc,       \* where each client is; in a call of the functor: "starting" etc.
  m_id,      \* AsyncInvocation::m_id
  m_synchronous,
  start,     \* m_start_timestamp of the PollingTimeoutHandler
  wake,      \* until when Wait sleeps
  result,    \* what the last Invoke or Service returned
  sent,      \* history: when the client began Start, or the last poll that was answered
  sending,   \* history: when it began the call it is in
  owner,     \* history: the client whose request the server launched under an id
  restarted  \* whether the server was restarted

Server == INSTANCE ProtocolRPCServer
Table == INSTANCE AsyncInvokeServer

serverVars == <<now, invokes, last_id, mtx, pc, reply, issued, last_cleanup, stage, packet, answer, garbage, async_supported>>
clientVars == <<cpc, m_id, m_synchronous, start, wake, result, sent, sending>>
vars == <<serverVars, clientVars, owner, restarted>>

Client == Thread

\* In a call of the functor.
Calling == {"starting", "polling", "getting", "invalidating", "invoking", "servicing"}

ProtocolResult ==
  {"none", "Invoked", "ServerProtocolException", "InvalidRequestIdentifierError",
   "InvalidAsynchronousOperationError", "ServerTransportDecodingError",
   "ClientTransportEncodingError", "ClientTransportDecodingError", "ClientTransportException",
   "AsynchronousProtocolTimeout", "invalidated"}

Init ==
  /\ Server!Init
  /\ async_supported \in BOOLEAN
  /\ cpc = [c \in Client |-> "idle"]
  /\ m_id = [c \in Client |-> 0]
  /\ m_synchronous = [c \in Client |-> FALSE]
  /\ start = [c \in Client |-> 0]
  /\ wake = [c \in Client |-> 0]
  /\ result = [c \in Client |-> "none"]
  /\ sent = [c \in Client |-> 0]
  /\ sending = [c \in Client |-> 0]
  /\ owner = [id \in {} |-> NoThread]
  /\ restarted = FALSE

-----------------------------------------------------------------------------
(* Calls of the functor *)

Async(cmd, id) == [kind |-> "async", command |-> cmd, id |-> id]
Plain(k) == [kind |-> k, command |-> "none", id |-> 0]

GoTo(c, l) == cpc' = [cpc EXCEPT ![c] = l]

\* The client calls the functor with packet p: operator() of the server is entered.
Send(c, p, l) ==
  /\ Server!Receive(c, p)
  /\ UNCHANGED async_supported
  /\ GoTo(c, l)
  /\ sending' = [sending EXCEPT ![c] = now]

\* The functor returns: thread c of the server has answered.
Answered(c, l) == cpc[c] = l /\ stage[c] = "free"

\* The server's operator() left with an exception.
Thrown(c) == answer[c].shape = "async" /\ reply[c].result = "thrown"

\* Invoke or Service returns r to the application, and the AsyncInvocation and the
\* PollingTimeoutHandler go out of scope.
Return(c, r) ==
  /\ GoTo(c, "idle")
  /\ result' = [result EXCEPT ![c] = r]
  /\ m_id' = [m_id EXCEPT ![c] = 0]
  /\ m_synchronous' = [m_synchronous EXCEPT ![c] = FALSE]
  /\ start' = [start EXCEPT ![c] = 0]
  /\ wake' = [wake EXCEPT ![c] = 0]
  /\ sent' = [sent EXCEPT ![c] = 0]
  /\ sending' = [sending EXCEPT ![c] = 0]

-----------------------------------------------------------------------------
(* ProtocolRPCClient and AsyncInvocation *)

\* Invoke of an empty value is refused without a packet.
InvokeEmpty(c) ==
  /\ cpc[c] = "idle"
  /\ Return(c, "ClientTransportEncodingError")
  /\ UNCHANGED <<serverVars, owner, restarted>>

\* Invoke or Service sends its (first) packet.  A server that does not know the
\* asynchronous protocol ignores the async field.
Invoke(c) ==
  /\ cpc[c] = "idle"
  /\ \/ /\ "async" \in Calls
        /\ Send(c, IF async_supported THEN Async("new", 0) ELSE Plain("sync"), "starting")
     \/ "invoke" \in Calls /\ Send(c, Plain("sync"), "invoking")
     \/ "service" \in Calls /\ Send(c, Plain("service"), "servicing")
  /\ result' = [result EXCEPT ![c] = "none"]
  /\ sent' = [sent EXCEPT ![c] = now]
  /\ UNCHANGED <<m_id, m_synchronous, start, wake, owner, restarted>>

\* The answer to a synchronous Invoke or to Service.
SyncAnswer(c) ==
  /\ Answered(c, "invoking") \/ Answered(c, "servicing")
  /\ Return(c, answer[c].result)
  /\ UNCHANGED <<serverVars, owner, restarted>>

\* Takes any answer for an identifier.
Bug_StartAnswer(c) ==
  /\ Answered(c, "starting")
  /\ m_id' = [m_id EXCEPT ![c] = reply[c].id]
  /\ start' = [start EXCEPT ![c] = now]
  /\ sending' = [sending EXCEPT ![c] = 0]
  /\ GoTo(c, "poll")
  /\ UNCHANGED <<serverVars, m_synchronous, wake, result, sent, owner, restarted>>

\* Start gets its answer: an identifier, a synchronous reply or an exception.
StartAnswer(c) ==
  /\ Answered(c, "starting")
  /\ IF Thrown(c)
       THEN Return(c, "ClientTransportException")
       ELSE /\ IF answer[c].shape = "async"
                 THEN /\ m_id' = [m_id EXCEPT ![c] = reply[c].id]
                      /\ GoTo(c, "poll")
                      /\ UNCHANGED m_synchronous
                 ELSE /\ m_synchronous' = [m_synchronous EXCEPT ![c] = TRUE]
                      /\ GoTo(c, "get")
                      /\ UNCHANGED m_id
            /\ start' = [start EXCEPT ![c] = now]
            /\ UNCHANGED <<wake, result, sent>>
            /\ sending' = [sending EXCEPT ![c] = 0]
  /\ UNCHANGED <<serverVars, owner, restarted>>

PollOnce(c) ==
  /\ cpc[c] = "poll"
  /\ Send(c, Async("poll", m_id[c]), "polling")
  /\ UNCHANGED <<m_id, m_synchronous, start, wake, result, sent, owner, restarted>>

\* PollOnce gets its answer.  Only an answer with a payload says whether the reply is
\* ready; an error of the server has none and counts as a decoding error.
PollAnswer(c) ==
  /\ Answered(c, "polling")
  /\ IF reply[c].result # "Success"
       THEN Return(c, "ClientTransportDecodingError")
       ELSE /\ GoTo(c, IF reply[c].ready THEN "get" ELSE "wait")
            /\ sent' = [sent EXCEPT ![c] = sending[c]]
            /\ sending' = [sending EXCEPT ![c] = 0]
            /\ UNCHANGED <<m_id, m_synchronous, start, wake, result>>
  /\ UNCHANGED <<serverVars, owner, restarted>>

Lesser(a, b) == IF a < b THEN a ELSE b

\* Never gives up.
Bug_TimedOut(c) == Table!Elapsed(start[c]) > Timeout + TimeModulus

TimedOut(c) == Table!Elapsed(start[c]) > Timeout

\* PollingTimeoutHandler::Wait: the timeout has passed, or the client sleeps.
Wait(c) ==
  /\ cpc[c] = "wait"
  /\ IF TimedOut(c)
       THEN Return(c, "AsynchronousProtocolTimeout")
       ELSE /\ wake' = [wake EXCEPT ![c] =
                          now + Lesser(PollingInterval, Timeout - Table!Elapsed(start[c]))]
            /\ GoTo(c, "asleep")
            /\ UNCHANGED <<m_id, m_synchronous, start, result, sent, sending>>
  /\ UNCHANGED <<serverVars, owner, restarted>>

\* MaxTime bounds the clock: there a client polls without sleeping.
WakeUp(c) ==
  /\ cpc[c] = "asleep"
  /\ now >= Lesser(wake[c], MaxTime)
  /\ GoTo(c, "poll")
  /\ wake' = [wake EXCEPT ![c] = 0]
  /\ UNCHANGED <<serverVars, m_id, m_synchronous, start, result, sent, sending, owner, restarted>>

\* AsyncInvocation::GetReply: of a synchronous reply, or with a packet.
GetReply(c) ==
  /\ cpc[c] = "get"
  /\ IF m_synchronous[c]
       THEN Return(c, answer[c].result) /\ UNCHANGED serverVars
       ELSE /\ Send(c, Async("get", m_id[c]), "getting")
            /\ UNCHANGED <<m_id, m_synchronous, start, wake, result, sent>>
  /\ UNCHANGED <<owner, restarted>>

GetAnswer(c) ==
  /\ Answered(c, "getting")
  /\ Return(c, reply[c].result)
  /\ UNCHANGED <<serverVars, owner, restarted>>

\* An application that drives an AsyncInvocation itself may give up between two polls:
\* AsyncInvocation::Invalidate.
Invalidate(c) ==
  /\ cpc[c] = "wait"
  /\ Send(c, Async("invalidate", m_id[c]), "invalidating")
  /\ UNCHANGED <<m_id, m_synchronous, start, wake, result, sent, owner, restarted>>

InvalidateAnswer(c) ==
  /\ Answered(c, "invalidating")
  /\ Return(c, "invalidated")
  /\ UNCHANGED <<serverVars, owner, restarted>>

-----------------------------------------------------------------------------
(* The network and the server *)

\* What the client makes of an exception of the functor.
Failure(c) == IF cpc[c] = "invalidating" THEN "invalidated" ELSE "ClientTransportException"

FunctorThrows(c) == Return(c, Failure(c))

\* The answer does not arrive.
LoseAnswer(c) ==
  /\ c \in Lossy
  /\ cpc[c] \in Calling /\ stage[c] = "free"
  /\ FunctorThrows(c)
  /\ UNCHANGED <<serverVars, owner, restarted>>

\* The request does not arrive: the functor throws and the server sees nothing.
LoseRequest(c) ==
  /\ c \in Lossy
  /\ cpc[c] \in {"idle", "poll", "get", "wait"} /\ ~m_synchronous[c]
  /\ Return(c, IF cpc[c] = "wait" THEN "invalidated" ELSE "ClientTransportException")
  /\ UNCHANGED <<serverVars, owner, restarted>>

\* A step of thread c in the server.
ServerStep(c) ==
  /\ Server!Handler(c)
  /\ owner' = [id \in issued' |-> IF id \in Table!Live' \ Table!Live THEN c ELSE owner[id]]
  /\ UNCHANGED <<clientVars, async_supported, restarted>>

\* The server process dies and comes up again; calls in progress fail.  A synchronous
\* reply that a client has already taken stays with that client.
Restart ==
  /\ ServerMayRestart /\ ~restarted
  /\ restarted' = TRUE
  /\ invokes' = [id \in {} |-> Table!NewInvoke]
  /\ last_id' = 0
  /\ mtx' = NoThread
  /\ pc' = [c \in Client |-> "idle"]
  /\ reply' = [c \in Client |-> Table!NoReply]
  /\ last_cleanup' = Never
  /\ stage' = [c \in Client |-> "free"]
  /\ packet' = [c \in Client |-> Server!NoPacket]
  /\ answer' = [c \in Client |-> IF m_synchronous[c] THEN answer[c] ELSE Server!Out("none", "none")]
  /\ garbage' = [c \in Client |-> {}]
  /\ cpc' = [c \in Client |-> IF cpc[c] \in Calling THEN "idle" ELSE cpc[c]]
  /\ result' = [c \in Client |-> IF cpc[c] \in Calling THEN Failure(c) ELSE result[c]]
  /\ UNCHANGED <<now, issued, async_supported, m_id, m_synchronous, start, wake, sent, sending, owner>>

\* A client waits for the reply to its request: the server has to hear from it soon.
Depends(c) == cpc[c] \in {"starting", "poll", "polling", "wait", "asleep", "get", "getting"} /\ ~m_synchronous[c]

\* Workers and the clock.  A punctual client gets each poll to the server within
\* the expiration time after it began the one before; what others do is their affair.
Environment ==
  /\ Server!Environment
  /\ \A c \in Punctual : Depends(c) => now' <= sent[c] + Expiration
  /\ UNCHANGED <<clientVars, async_supported, owner, restarted>>

ClientStep(c) ==
  \/ SyncAnswer(c) \/ StartAnswer(c)
  \/ PollOnce(c) \/ PollAnswer(c) \/ Wait(c) \/ WakeUp(c)
  \/ GetReply(c) \/ GetAnswer(c) \/ InvalidateAnswer(c)

Next ==
  \/ \E c \in Client :
       \/ InvokeEmpty(c) \/ Invoke(c) \/ ClientStep(c) \/ Invalidate(c)
       \/ LoseAnswer(c) \/ LoseRequest(c)
       \/ ServerStep(c)
  \/ Restart
  \/ Environment

\* Threads run and m_mtx is not withheld for ever; time passes.
Spec ==
  /\ Init /\ [][Next]_vars
  /\ \A c \in Client : WF_vars(ClientStep(c)) /\ SF_vars(ServerStep(c))
  /\ WF_vars(Environment /\ now' > now)

-----------------------------------------------------------------------------
(* Properties *)

\* The type invariant.
TypeOK ==
  /\ Server!TypeOK /\ async_supported \in BOOLEAN
  /\ cpc \in [Client -> {"idle", "poll", "wait", "asleep", "get"} \union Calling]
  /\ m_id \in [Client -> 0 .. MaxId]
  /\ m_synchronous \in [Client -> BOOLEAN]
  /\ start \in [Client -> 0 .. MaxTime]
  /\ wake \in [Client -> Nat]
  /\ result \in [Client -> ProtocolResult]
  /\ sent \in [Client -> 0 .. MaxTime] /\ sending \in [Client -> 0 .. MaxTime]
  /\ DOMAIN owner \subseteq 1 .. MaxId /\ \A id \in DOMAIN owner : owner[id] \in Client

\* A client that is given the reply of an asynchronous call is given the reply to its
\* own request (StartAnswer, GetReply, AsyncInvokeServer::NewRequest).
OwnReply ==
  [][\A c \in Client :
       cpc[c] = "getting" /\ result'[c] = "Invoked" => owner[m_id[c]] = c]_vars

\* An asynchronous call of a client that loses nothing and polls often enough ends
\* with the reply, with the exception of the protocol, or with a timeout: neither
\* expiry, nor a sweep, nor another client, however it behaves, takes its request.
PunctualClientIsServed ==
  \A c \in Punctual \ Lossy :
    result[c] \in {"none", "Invoked", "ServerProtocolException", "AsynchronousProtocolTimeout",
                   "ClientTransportEncodingError", "invalidated"}

\* Every call of Invoke and Service ends, even if the worker never finishes: the
\* timeout sees to it (HandleAsyncInvoke).  MaxTime bounds the clock.
InvokeTerminates ==
  \A c \in Client : cpc[c] # "idle" ~> cpc[c] = "idle" \/ start[c] + Timeout >= MaxTime

\* No two clients hold the same identifier (doc/protocol_stack.rst: "a unique integer
\* identifier for the request").
UniqueRequestId ==
  \A c, d \in Client : m_id[c] = m_id[d] /\ m_id[c] # 0 => c = d

=============================================================================
