--------------------------- MODULE AsyncInvocation ---------------------------
(***************************************************************************)
(* An application that drives an AsyncInvocation itself                    *)
(* (async_invocation.h, base/async_invocation.cpp): it calls Start,        *)
(* PollOnce, GetReply and Invalidate in any order, Start more than once    *)
(* too.  Behind the functor is a server that keeps the promises of         *)
(* AsyncRequests, which AsyncInvokeServer implements, and a network that   *)
(* loses requests and answers.  A Start may also be answered by a plain    *)
(* reply: of a server without the asynchronous protocol, or an error reply *)
(* of the network layer.                                                   *)
(*                                                                         *)
(* An operator named Bug_X is X with a plausible mistake in it; it is not  *)
(* part of the model and serves to show that the properties notice it.     *)
(***************************************************************************)
EXTENDS Naturals, FiniteSetsExt

CONSTANTS
  App,      \* the application, which is the client of the server
  MaxStarts \* bound: calls of Start

VARIABLES
  status, withdrawn, stale, answer,    \* of the server
  plain,         \* a plain reply to a Start, or "none"
  call,          \* the operation the application is in, or "none"
  m_id, m_synchronous, m_sync_reply,
  starts,        \* number of calls of Start
  outcome,       \* what the last operation returned
  last,          \* history: the last Start that returned Success
  plainly,       \* history: the Starts that were answered by a plain reply
  origin,        \* history: the Start behind each identifier
  ready,         \* history: PollOnce announced the reply, and nothing was called since
  late,          \* history: the request m_id was stale since the server last heard of it
  given_up       \* history: its Invalidate returned, and lost no packet

Id == 0 .. MaxStarts

\* Assumed: there is an identifier 0, which stands for none.
MaxStartsAssumption == MaxStarts \in Nat

Server == INSTANCE AsyncRequests WITH Client <- {App}, Request <- Id

server == <<status, withdrawn, stale, answer>>
members == <<m_id, m_synchronous, m_sync_reply>>
history == <<last, plainly, origin, ready, late, given_up>>
vars == <<server, plain, call, members, starts, outcome, history>>

\* The operations of the class.
Operation == {"Start", "PollOnce", "GetReply", "Invalidate"}

\* The command each of them sends.
Command == [Start |-> "new", PollOnce |-> "poll", GetReply |-> "get", Invalidate |-> "invalidate"]

\* What an operation returns: for GetReply, of is the Start whose reply it is.
Returns(o, r) == [call |-> o, result |-> r, ready |-> FALSE, of |-> 0]

NoSyncReply == [result |-> "none", of |-> 0]

Init ==
  /\ Server!Init
  /\ plain = "none"
  /\ call = "none"
  /\ m_id = 0
  /\ m_synchronous = FALSE
  /\ m_sync_reply = NoSyncReply
  /\ starts = 0
  /\ outcome = Returns("none", "none")
  /\ last = 0
  /\ plainly = {}
  /\ origin = [id \in {} |-> 0]
  /\ ready = FALSE
  /\ late = FALSE
  /\ given_up = FALSE

-----------------------------------------------------------------------------
(* Calls: of the functor, or answered on the spot. *)

CallFunctor(o) ==
  /\ call = "none"
  /\ call' = o
  /\ Server!Begin(App)
  /\ UNCHANGED <<plain, members, outcome, last, plainly, origin, late, given_up>>

\* The operation returns without a call of the functor.
AtOnce(o, out) ==
  /\ call = "none"
  /\ outcome' = out
  /\ UNCHANGED <<server, plain, call, members, starts, last, plainly, origin, late>>

Start ==
  /\ starts < MaxStarts
  /\ CallFunctor("Start")
  /\ starts' = starts + 1
  /\ ready' = FALSE

\* CreateAsyncRPCRequest throws.
StartEmpty ==
  /\ AtOnce("Start", Returns("Start", "InvalidOperationException"))
  /\ UNCHANGED <<ready, given_up>>

PollOnce ==
  IF m_synchronous
    THEN /\ AtOnce("PollOnce", [Returns("PollOnce", "Success") EXCEPT !.ready = TRUE])
         /\ UNCHANGED <<ready, given_up>>
    ELSE CallFunctor("PollOnce") /\ UNCHANGED <<starts, ready>>

\* A kept reply is decoded as often as it is asked for.
GetReply ==
  IF m_synchronous
    THEN /\ AtOnce("GetReply", [Returns("GetReply", m_sync_reply.result) EXCEPT !.of = m_sync_reply.of])
         /\ UNCHANGED <<ready, given_up>>
    ELSE CallFunctor("GetReply") /\ UNCHANGED <<starts, ready>>

InvalidateAtOnce ==
  /\ AtOnce("Invalidate", Returns("Invalidate", "done"))
  /\ given_up' = TRUE
  /\ ready' = FALSE

\* Never tells the server.
Bug_Invalidate == InvalidateAtOnce

Invalidate ==
  IF m_synchronous \/ m_id = 0
    THEN InvalidateAtOnce
    ELSE CallFunctor("Invalidate") /\ ready' = FALSE /\ UNCHANGED starts

-----------------------------------------------------------------------------
(* Behind the functor *)

Unanswered == answer[App].command \in {"none", "denied"} /\ plain = "none"

\* The server answers the call under way in one or more steps of AsyncRequests.
Serve ==
  /\ call # "none" /\ Unanswered
  /\ \/ call = "Start" /\ \E id \in Id \ {0} :
          (\A j \in 1 .. id - 1 : status[j] # "unused") /\ (Server!Issue(App, id) \/ Server!FailIssue(App, id))
     \/ call = "PollOnce" /\ (Server!Contact(m_id) \/ Server!AnswerPoll(App, m_id))
     \/ call = "GetReply" /\ (Server!HandOver(App, m_id) \/ Server!Deny(App, m_id) \/ Server!Refuse(App, m_id))
     \/ call = "Invalidate" /\ (Server!Withdraw(App, m_id) \/ Server!AnswerWithdraw(App, m_id))
     \/ Server!NotPending(App, m_id)
  /\ answer'[App].command \in {"none", "denied", Command[call]}
  /\ late' = (late /\ ~(call = "PollOnce" /\ m_id \in stale \ stale'))
  /\ UNCHANGED <<plain, call, members, starts, outcome, last, plainly, origin, ready, given_up>>

\* A plain reply to Start: with a result, an error, or not well-formed.
AnswerPlainly ==
  /\ call = "Start" /\ Unanswered
  /\ plain' \in {"Invoked", "ServerTransportDecodingError", "malformed"}
  /\ UNCHANGED <<server, call, members, starts, outcome, history>>

\* Workers, sweeps of the server and time.
Environment ==
  /\ \/ \E id \in Id : Server!Complete(id) \/ Server!Drop(id)
     \/ \E s \in SUBSET Id : stale' = s /\ Server!TimePasses
  /\ late' = (late \/ m_id \in stale')
  /\ UNCHANGED <<plain, call, members, starts, outcome, last, plainly, origin, ready, given_up>>

-----------------------------------------------------------------------------
(* The functor returns. *)

Return(out) ==
  /\ call' = "none"
  /\ outcome' = out
  /\ plain' = "none"
  /\ Server!Collect(App)
  /\ UNCHANGED starts

\* It throws: the request or the answer was lost, or the server's worker could not
\* be started.  Nothing changes in the object.
Throw ==
  /\ call # "none"
  /\ Return(Returns(call, IF call = "Invalidate" THEN "done" ELSE "ClientTransportException"))
  /\ ready' = (ready /\ call # "GetReply")
  /\ UNCHANGED <<members, last, plainly, origin, late, given_up>>

\* Start is answered by a plain reply, which is kept for GetReply if it is well-formed.
StartPlain ==
  /\ call = "Start" /\ plain # "none"
  /\ IF plain = "malformed"
       THEN /\ Return(Returns("Start", "ClientTransportDecodingError"))
            /\ UNCHANGED <<m_synchronous, m_sync_reply, last, plainly>>
       ELSE /\ Return(Returns("Start", "Success"))
            /\ m_synchronous' = TRUE
            /\ m_sync_reply' = [result |-> plain, of |-> starts]
            /\ last' = starts
            /\ plainly' = plainly \union {starts}
  /\ UNCHANGED <<m_id, origin, ready, late, given_up>>

Answered(o, c) == call = o /\ plain = "none" /\ answer[App].command = c

\* Keeps the identifier of the first Start.
Bug_StartAsync ==
  /\ Answered("Start", "new") /\ answer[App].result = "Success"
  /\ Return(Returns("Start", "Success"))
  /\ m_id' = IF m_id = 0 THEN answer[App].id ELSE m_id
  /\ last' = starts
  /\ origin' = [id \in DOMAIN origin \union {answer[App].id} |->
                IF id \in DOMAIN origin THEN origin[id] ELSE starts]
  /\ late' = (answer[App].id \in stale \/ status[answer[App].id] = "gone")
  /\ given_up' = FALSE
  /\ UNCHANGED <<m_synchronous, m_sync_reply, plainly, ready>>

\* Start is answered by an identifier; m_synchronous and m_sync_reply stay as they are.
StartAsync ==
  /\ Answered("Start", "new") /\ answer[App].result = "Success"
  /\ Return(Returns("Start", "Success"))
  /\ m_id' = answer[App].id
  /\ last' = starts
  /\ origin' = [id \in DOMAIN origin \union {answer[App].id} |->
                IF id \in DOMAIN origin THEN origin[id] ELSE starts]
  /\ late' = (answer[App].id \in stale \/ status[answer[App].id] = "gone")
  /\ given_up' = FALSE
  /\ UNCHANGED <<m_synchronous, m_sync_reply, plainly, ready>>

\* Takes any answer for an announcement.
Bug_PollAnswer ==
  /\ Answered("PollOnce", "poll")
  /\ Return([Returns("PollOnce", "Success") EXCEPT !.ready = TRUE])
  /\ ready' = TRUE
  /\ UNCHANGED <<members, last, plainly, origin, late, given_up>>

\* Misses the ready flag if it is false.
Bug_PollFlag ==
  /\ Answered("PollOnce", "poll")
  /\ IF answer[App].result # "Success" \/ ~answer[App].ready
       THEN Return(Returns("PollOnce", "ClientTransportDecodingError")) /\ UNCHANGED ready
       ELSE /\ Return([Returns("PollOnce", "Success") EXCEPT !.ready = TRUE])
            /\ ready' = TRUE
  /\ UNCHANGED <<members, last, plainly, origin, late, given_up>>

\* An error of the server has no ready flag: a decoding error.
PollAnswer ==
  /\ Answered("PollOnce", "poll")
  /\ IF answer[App].result # "Success"
       THEN Return(Returns("PollOnce", "ClientTransportDecodingError")) /\ UNCHANGED ready
       ELSE /\ Return([Returns("PollOnce", "Success") EXCEPT !.ready = answer[App].ready])
            /\ ready' = answer[App].ready
  /\ UNCHANGED <<members, last, plainly, origin, late, given_up>>

GetAnswer ==
  /\ Answered("GetReply", "get")
  /\ Return([Returns("GetReply", answer[App].result) EXCEPT
               !.of = IF answer[App].result \in {"Invoked", "ServerProtocolException"}
                        THEN origin[m_id] ELSE 0])
  /\ ready' = FALSE
  /\ UNCHANGED <<members, last, plainly, origin, late, given_up>>

InvalidateAnswer ==
  /\ Answered("Invalidate", "invalidate")
  /\ Return(Returns("Invalidate", "done"))
  /\ given_up' = TRUE
  /\ UNCHANGED <<members, last, plainly, origin, ready, late>>

Next ==
  \/ Start \/ StartEmpty \/ PollOnce \/ GetReply \/ Invalidate
  \/ Serve \/ AnswerPlainly \/ Environment
  \/ Throw \/ StartPlain \/ StartAsync \/ PollAnswer \/ GetAnswer \/ InvalidateAnswer

Spec == Init /\ [][Next]_vars

-----------------------------------------------------------------------------
(* Properties *)

\* The application is given a reply.
Delivered == Answered("GetReply", "get") /\ answer[App].result \in {"Invoked", "ServerProtocolException"}

GivesLastStart ==
  outcome'.call = "GetReply" /\ outcome'.of # 0 /\ last # 0 =>
    outcome'.of = IF plainly = {} THEN last ELSE Max(plainly)

\* GetReply gives the reply to the last Start that succeeded, whatever was called, lost
\* or refused in between; unless a Start of the same object was ever answered by a plain
\* reply: it gives the last such reply, also after a later Start (AsyncInvocation::Start
\* sets m_synchronous or m_id and never resets the other).
ReplyIsOfLastStart == [][GivesLastStart]_vars

KeepsAnnouncement ==
  ready /\ ~late /\ ~m_synchronous /\ Answered("GetReply", "get") /\ call' = "none" =>
    outcome'.result \in {"Invoked", "ServerProtocolException", "ClientTransportException"}

\* Once PollOnce announced the reply, GetReply delivers it, if no packet is lost, the
\* request is not invalidated, and the server has not waited too long for it
\* (async_invocation.h: "Only meaningful once PollOnce() reported ready").
ReadyReplyArrives == [][KeepsAnnouncement]_vars

StaysWithdrawn == Delivered /\ call' = "none" => ~given_up

\* After Invalidate, if its packet arrived, no reply of the request is delivered
\* (AsyncInvocation::Invalidate, AsyncInvoke::IsReadyForRemoval).
NoReplyAfterInvalidate == [][StaysWithdrawn]_vars

RefusalIsJustified ==
  call = "PollOnce" /\ call' = "none" /\ outcome'.result = "ClientTransportDecodingError" =>
    ~Server!Pending(m_id) \/ Server!Disposable(m_id)

\* PollOnce reports every error of the server as a decoding error, which the application
\* cannot tell from a bad packet.  One that gives up on it, as ProtocolRPCClient does,
\* gives up no request whose worker runs, whatever happened since the server answered:
\* the server has no such request when PollOnce returns, or it is ready and was
\* invalidated or not asked for in a long time (AsyncInvokeServer::Poll).
PollFailsOnlyIfUnneeded == [][RefusalIsJustified]_vars

=============================================================================
