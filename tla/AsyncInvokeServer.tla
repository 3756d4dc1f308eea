-------------------------- MODULE AsyncInvokeServer --------------------------
(***************************************************************************)
(* The server's table of asynchronous requests: AsyncInvokeServer together *)
(* with the AsyncInvoke objects it stores (base/async_invoke_server.cpp,   *)
(* base/async_invoke.cpp).                                                 *)
(*                                                                         *)
(* Any number of server threads call HandleInvoke, WaitForReady and        *)
(* CleanUpExpiredRequests.  Every operation runs under m_mtx, but each     *)
(* request also has a worker (std::async) that finishes whenever it likes, *)
(* and the clock moves all the time, so every point at which an operation  *)
(* looks at the future or at the clock is a step of its own.               *)
(*                                                                         *)
(* An operator named Bug_X is X with a plausible mistake in it; it is not  *)
(* part of the model and serves to show that the properties notice it.     *)
(***************************************************************************)
EXTENDS Naturals, FiniteSets

CONSTANTS
  Thread,            \* threads that call into the server
  NoThread,          \* nobody holds m_mtx
  Expiration,        \* m_expiration_time_ns
  TimeModulus,       \* 2^64: timestamps are sup::dto::uint64
  MaxTime,           \* bound: last instant of the clock
  MaxId,             \* bound: number of request identifiers given out
  LaunchMayFail,     \* whether std::async may fail to start a worker
  ClockMayStepBack   \* whether the system clock may be set back

ASSUME ThreadAssumption == NoThread \notin Thread
ASSUME TimeAssumption ==
  /\ Expiration \in Nat
  /\ MaxTime \in Nat
  /\ TimeModulus \in Nat
  /\ MaxTime < TimeModulus
  /\ Expiration < TimeModulus
ASSUME IdAssumption == MaxId \in Nat
ASSUME SwitchAssumption == ClockMayStepBack \in BOOLEAN /\ LaunchMayFail \in BOOLEAN

Id == 1 .. MaxId
Time == 0 .. MaxTime

\* std::future of the worker: still running, holding what Invoke returned,
\* holding the exception that escaped from it, or already consumed by get().
Finished == {"value", "exception"}
Future == {"running", "empty"} \union Finished

AsyncInvoke == [future : Future, invalidated : BOOLEAN, last_access : Time]

Command == {"new", "poll", "get", "invalidate", "wait", "cleanup", "unknown"}

\* "Invoked" stands for the result and output that Protocol::Invoke returned for
\* the request; "thrown" for a C++ exception that leaves the server.
Result == {"none", "Success", "Invoked", "ServerProtocolException",
           "InvalidRequestIdentifierError", "InvalidAsynchronousOperationError",
           "ServerTransportDecodingError", "thrown"}

Reply == [command : Command, id : 0 .. MaxId, result : Result, ready : BOOLEAN]

VARIABLES
  now,       \* the system clock
  invokes,   \* m_invokes: a function on the identifiers in the map
  last_id,   \* m_last_id
  mtx,       \* the thread that holds m_mtx
  pc,        \* where each thread is
  reply,     \* the reply each thread builds, and last returned
  issued     \* history: the identifiers given to clients

vars == <<now, invokes, last_id, mtx, pc, reply, issued>>

Live == DOMAIN invokes

-----------------------------------------------------------------------------
(* AsyncInvoke *)

\* Stores the instant of expiry instead of the instant of access.
Bug_NewInvoke == [future |-> "running", invalidated |-> FALSE, last_access |-> now + Expiration]

\* A freshly constructed AsyncInvoke; its worker runs from here on.
NewInvoke == [future |-> "running", invalidated |-> FALSE, last_access |-> now]

IsFinished(id) == invokes[id].future \in Finished

\* now - m_last_access in 64-bit unsigned arithmetic.
Elapsed(since) == IF since <= now THEN now - since ELSE TimeModulus + now - since

Bug_IsExpired(id) == Elapsed(invokes[id].last_access) >= Expiration

IsExpired(id) == Elapsed(invokes[id].last_access) > Expiration

\* Does not wait for the worker.
Bug_RemoveRunning(id) == invokes[id].future = "empty" \/ invokes[id].invalidated \/ IsExpired(id)

\* Forgets that a consumed future is of no use.
Bug_KeepRetrieved(id) == IsFinished(id) /\ (invokes[id].invalidated \/ IsExpired(id))

IsReadyForRemoval(id) ==
  \/ invokes[id].future = "empty"
  \/ /\ IsFinished(id)
     /\ invokes[id].invalidated \/ IsExpired(id)

Bug_TakeInvalidated(id) == IsFinished(id)

\* Whether AsyncInvoke::GetReply may consume the future.
CanTakeReply(id) == IsFinished(id) /\ ~invokes[id].invalidated

TakenResult(id) == IF invokes[id].future = "value" THEN "Invoked" ELSE "ServerProtocolException"

-----------------------------------------------------------------------------
(* AsyncInvokeServer *)

NoReply == [command |-> "unknown", id |-> 0, result |-> "none", ready |-> FALSE]

Init ==
  /\ now = 0
  /\ invokes = [id \in {} |-> NewInvoke]
  /\ last_id = 0
  /\ mtx = NoThread
  /\ pc = [t \in Thread |-> "idle"]
  /\ reply = [t \in Thread |-> NoReply]
  /\ issued = {}

Answer(c, id, res, rdy) == [command |-> c, id |-> id, result |-> res, ready |-> rdy]

\* Numbers the requests by the size of the table.
Bug_GetRequestId == Cardinality(Live) + 1

GetRequestId == last_id + 1

Erase(id) == [i \in Live \ {id} |-> invokes[i]]

\* A thread that is about to lock m_mtx finds it free.
CanLock(t) == pc[t] = "idle" /\ mtx = NoThread

\* The whole operation in one step: nothing in it depends on a later look at
\* the future or the clock.
Return(t, r) ==
  /\ reply' = [reply EXCEPT ![t] = r]
  /\ UNCHANGED <<mtx, pc>>

\* Lock m_mtx and stop at label l with r the reply as known so far.
Enter(t, l, r) ==
  /\ mtx' = t
  /\ pc' = [pc EXCEPT ![t] = l]
  /\ reply' = [reply EXCEPT ![t] = r]

\* Unlock m_mtx and return r.
Leave(t, r) ==
  /\ mtx' = NoThread
  /\ pc' = [pc EXCEPT ![t] = "idle"]
  /\ reply' = [reply EXCEPT ![t] = r]

At(t, l) == mtx = t /\ pc[t] = l

Emplace(id) == [i \in Live \union {id} |-> IF i \in Live THEN invokes[i] ELSE NewInvoke]

NewRequest(t) ==
  /\ CanLock(t)
  /\ GetRequestId \in Id
  /\ last_id' = GetRequestId
  /\ invokes' = Emplace(GetRequestId)
  /\ issued' = issued \union {GetRequestId}
  /\ Return(t, Answer("new", GetRequestId, "Success", FALSE))
  /\ UNCHANGED now

\* std::async cannot start a thread: the constructor throws out of emplace, with
\* the identifier already consumed.
NewRequestThrows(t) ==
  /\ LaunchMayFail
  /\ CanLock(t)
  /\ GetRequestId \in Id
  /\ last_id' = GetRequestId
  /\ Return(t, Answer("new", 0, "thrown", FALSE))
  /\ UNCHANGED <<now, invokes, issued>>

\* Answers that HandleInvoke gives without taking m_mtx: no usable identifier in
\* the payload, or a command that is none of the four.
RejectInvoke(t) ==
  /\ pc[t] = "idle"
  /\ \E res \in {"ServerTransportDecodingError", "InvalidAsynchronousOperationError"} :
       Return(t, Answer("unknown", 0, res, FALSE))
  /\ UNCHANGED <<now, invokes, last_id, issued>>

\* Poll, GetReply and Invalidate of an identifier that is not in the map;
\* WaitForReady just returns false.
UnknownId(t, c, id) ==
  /\ CanLock(t)
  /\ id \notin Live
  /\ Return(t, Answer(c, id, IF c = "wait" THEN "none" ELSE "InvalidRequestIdentifierError", FALSE))
  /\ UNCHANGED <<now, invokes, last_id, issued>>

\* Poll up to its call of IsReady.
Poll(t, id) ==
  /\ CanLock(t)
  /\ id \in Live
  /\ IF IsReadyForRemoval(id)
       THEN Return(t, Answer("poll", id, "InvalidAsynchronousOperationError", FALSE))
       ELSE Enter(t, "touch", Answer("poll", id, "Success", FALSE))
  /\ UNCHANGED <<now, invokes, last_id, issued>>

WaitForReady(t, id) ==
  /\ CanLock(t)
  /\ id \in Live
  /\ Enter(t, "touch", Answer("wait", id, "none", FALSE))
  /\ UNCHANGED <<now, invokes, last_id, issued>>

\* Does not record the access.
Bug_Touch(t) ==
  LET id == reply[t].id IN
  /\ At(t, "touch")
  /\ IF invokes[id].future = "empty" \/ invokes[id].invalidated
       THEN Leave(t, reply[t])
       ELSE pc' = [pc EXCEPT ![t] = "check"] /\ UNCHANGED <<mtx, reply>>
  /\ UNCHANGED <<now, invokes, last_id, issued>>

\* AsyncInvoke::WaitForReady up to UpdateLastAccess.
Touch(t) ==
  LET id == reply[t].id IN
  /\ At(t, "touch")
  /\ IF invokes[id].future = "empty" \/ invokes[id].invalidated
       THEN Leave(t, reply[t]) /\ UNCHANGED invokes
       ELSE /\ invokes' = [invokes EXCEPT ![id].last_access = now]
            /\ pc' = [pc EXCEPT ![t] = "check"]
            /\ UNCHANGED <<mtx, reply>>
  /\ UNCHANGED <<now, last_id, issued>>

\* wait_for: it sees the future ready, or the timeout (zero for a poll) runs out.
Check(t) ==
  /\ At(t, "check")
  /\ Leave(t, [reply[t] EXCEPT !.ready = IsFinished(reply[t].id)])
  /\ UNCHANGED <<now, invokes, last_id, issued>>

\* GetReply up to AsyncInvoke::GetReply, which consumes a ready future.
GetReply(t, id) ==
  /\ CanLock(t)
  /\ id \in Live
  /\ IF CanTakeReply(id)
       THEN /\ invokes' = [invokes EXCEPT ![id].future = "empty"]
            /\ Enter(t, "reap", Answer("get", id, TakenResult(id), FALSE))
       ELSE /\ Enter(t, "reap", Answer("get", id, "InvalidAsynchronousOperationError", FALSE))
            /\ UNCHANGED invokes
  /\ UNCHANGED <<now, last_id, issued>>

\* Invalidate up to AsyncInvoke::Invalidate.
Invalidate(t, id) ==
  /\ CanLock(t)
  /\ id \in Live
  /\ invokes' = [invokes EXCEPT ![id].invalidated = TRUE]
  /\ Enter(t, "reap", Answer("invalidate", id, "Success", FALSE))
  /\ UNCHANGED <<now, last_id, issued>>

\* The second half of GetReply and Invalidate: erase the entry if it is of no
\* use any more, and return.
Reap(t) ==
  LET id == reply[t].id IN
  /\ At(t, "reap")
  /\ invokes' = IF IsReadyForRemoval(id) THEN Erase(id) ELSE invokes
  /\ Leave(t, reply[t])
  /\ UNCHANGED <<now, last_id, issued>>

\* CleanUpExpiredRequests takes the mutex; reply[t].id is the loop's iterator:
\* the last identifier visited.
CleanUp(t) ==
  /\ CanLock(t)
  /\ Enter(t, "sweep", Answer("cleanup", 0, "none", FALSE))
  /\ UNCHANGED <<now, invokes, last_id, issued>>

IsNext(id, cursor) == id > cursor /\ \A j \in Live : j > cursor => id <= j

\* Forgets to advance the iterator past an entry that is kept.
Bug_SweepOne(t) ==
  /\ At(t, "sweep")
  /\ \E id \in Live :
       /\ IsNext(id, reply[t].id)
       /\ IsReadyForRemoval(id)
       /\ invokes' = Erase(id)
       /\ reply' = [reply EXCEPT ![t].id = id]
  /\ UNCHANGED <<now, last_id, mtx, pc, issued>>

SweepOne(t) ==
  /\ At(t, "sweep")
  /\ \E id \in Live :
       /\ IsNext(id, reply[t].id)
       /\ invokes' = IF IsReadyForRemoval(id) THEN Erase(id) ELSE invokes
       /\ reply' = [reply EXCEPT ![t].id = id]
  /\ UNCHANGED <<now, last_id, mtx, pc, issued>>

SweepEnd(t) ==
  /\ At(t, "sweep")
  /\ \A id \in Live : id <= reply[t].id
  /\ Leave(t, [reply[t] EXCEPT !.id = 0])
  /\ UNCHANGED <<now, invokes, last_id, issued>>

\* A worker returns from Protocol::Invoke, or an exception escapes from it.
Finish(id) ==
  /\ invokes[id].future = "running"
  /\ \E f \in Finished : invokes' = [invokes EXCEPT ![id].future = f]
  /\ UNCHANGED <<now, last_id, mtx, pc, reply, issued>>

\* Where the clock goes next: std::chrono::system_clock is not monotonic, it can be
\* set back.
NextInstant == {t \in Time : t = now + 1 \/ (ClockMayStepBack /\ t + 1 = now)}

Tick ==
  /\ now' \in NextInstant
  /\ UNCHANGED <<invokes, last_id, mtx, pc, reply, issued>>

\* The caller has taken the reply away.
Collect(t) ==
  /\ pc[t] = "idle"
  /\ Return(t, NoReply)
  /\ UNCHANGED <<now, invokes, last_id, issued>>

\* A call that a thread starts (and, if it never has to look again, ends).
Call(t) ==
  \/ NewRequest(t)
  \/ NewRequestThrows(t)
  \/ RejectInvoke(t)
  \/ CleanUp(t)
  \/ \E id \in Id :
       \/ \E c \in {"poll", "get", "invalidate", "wait"} : UnknownId(t, c, id)
       \/ Poll(t, id)
       \/ WaitForReady(t, id)
       \/ GetReply(t, id)
       \/ Invalidate(t, id)

\* Workers and the clock.
Environment ==
  \/ \E id \in Live : Finish(id)
  \/ Tick

\* A step of a thread inside the critical section.
Step(t) == Touch(t) \/ Check(t) \/ Reap(t) \/ SweepOne(t) \/ SweepEnd(t)

Next ==
  \/ \E t \in Thread : Call(t) \/ Step(t) \/ Collect(t)
  \/ Environment

\* The scheduler runs every thread that is inside the critical section.
Spec == Init /\ [][Next]_vars /\ \A t \in Thread : WF_vars(Step(t))

-----------------------------------------------------------------------------
(* The table as a set of abstract requests *)

AbstractStatus(id) ==
  CASE id \in Live /\ invokes[id].future = "running" -> "running"
    [] id \in Live /\ invokes[id].future # "running" -> "ready"
    [] id \notin Live /\ id <= last_id -> "gone"
    [] OTHER -> "unused"

AbstractAnswer(t) ==
  CASE pc[t] = "idle" -> reply[t]
    [] pc[t] = "reap" /\ reply[t].result = "InvalidAsynchronousOperationError" ->
         [command |-> "denied", id |-> reply[t].id]
    [] OTHER -> [command |-> "none"]

Requests == INSTANCE AsyncRequests WITH
  Client <- Thread,
  Request <- Id,
  status <- [id \in Id |-> AbstractStatus(id)],
  withdrawn <- {id \in Live : invokes[id].invalidated},
  stale <- {id \in Live : now > invokes[id].last_access + Expiration},
  answer <- [t \in Thread |-> AbstractAnswer(t)]

-----------------------------------------------------------------------------
(* Properties *)

\* The reply announces or holds what a worker produced.
HandsOut(r) == r.ready \/ r.result \in {"Invoked", "ServerProtocolException"}

\* The type invariant.
TypeOK ==
  /\ now \in Time
  /\ last_id \in 0 .. MaxId
  /\ Live \subseteq Id
  /\ invokes \in [Live -> AsyncInvoke]
  /\ mtx \in Thread \union {NoThread}
  /\ pc \in [Thread -> {"idle", "touch", "check", "reap", "sweep"}]
  /\ reply \in [Thread -> Reply]
  /\ issued \subseteq Id

\* Whoever can look into the table never finds a request whose reply was already
\* handed out: GetReply erases the entry in the critical section that consumed
\* the future, so no reply is ever given twice (GetReply, IsReadyForRemoval).
RetrievedIsErased ==
  mtx = NoThread => \A id \in Live : invokes[id].future # "empty"

\* Erasing an entry destroys a std::async future, and that destructor blocks
\* until the worker returns.  Nobody ever does that while holding m_mtx.
NoBlockingErase ==
  [][\A id \in Live \ DOMAIN invokes' : invokes[id].future # "running"]_vars

\* An entry leaves the table only if its reply was handed out, if it was
\* invalidated, or if nobody asked for it during more than the expiration time,
\* in real time and not in modular arithmetic.
DiscardedOnlyWhenUnneeded ==
  [][\A id \in Live \ DOMAIN invokes' :
       \/ invokes[id].future = "empty"
       \/ invokes[id].invalidated
       \/ now > invokes[id].last_access + Expiration]_vars

\* The identifier in the answer to a new request was never given to anybody
\* before (doc/protocol_stack.rst: "a unique integer identifier").
FreshIds ==
  [][\A t \in Thread : NewRequest(t) => reply'[t].id \notin issued]_vars

\* A client that invalidated its request is never told that it is ready and never
\* gets its reply, also not when the worker finishes between two calls.
InvalidatedNeverDelivered ==
  [][\A t \in Thread, id \in Live :
       invokes[id].invalidated /\ reply'[t].id = id /\ HandsOut(reply'[t]) => reply'[t] = reply[t]]_vars

\* As long as the clock is never set back, the locked operations on the table are
\* the atomic operations of AsyncRequests: each takes effect at one instant,
\* a reply is handed over at most once, an identifier never comes back, and a
\* request is only forgotten when it is ready and withdrawn or stale.
ImplementsAsyncRequests == Requests!Spec

=============================================================================
