---------------------------- MODULE AsyncRequests ----------------------------
(***************************************************************************)
(* What the server promises about asynchronous requests, without mutex,    *)
(* threads inside operations, futures, timestamps or a table:              *)
(*                                                                         *)
(*   unused --Issue--> running --Complete--> ready --HandOver/Drop--> gone *)
(*                                                                         *)
(* Each operation takes effect in one step, the one that answers it.  A    *)
(* reply is handed over at most once and never after the request was       *)
(* withdrawn; the server forgets a request on its own account only if it   *)
(* is ready and either withdrawn or stale (not asked for in a long time).  *)
(***************************************************************************)
CONSTANTS
  Client,   \* those who call operations
  Request   \* identifiers of requests

VARIABLES
  status,     \* of each identifier
  withdrawn,  \* pending requests that were invalidated
  stale,      \* pending requests nobody asked for in a long time
  answer      \* what each client was last answered; None or Denied while it waits

vars == <<status, withdrawn, stale, answer>>

None == [command |-> "none"]

Denied(id) == [command |-> "denied", id |-> id]

Says(c, id, res, rdy) == [command |-> c, id |-> id, result |-> res, ready |-> rdy]

Pending(id) == status[id] \in {"running", "ready"}

Disposable(id) == status[id] = "ready" /\ id \in withdrawn \union stale

Init ==
  /\ status = [id \in Request |-> "unused"]
  /\ withdrawn = {}
  /\ stale = {}
  /\ answer = [c \in Client |-> Says("unknown", 0, "none", FALSE)]

Tell(c, r) == answer' = [answer EXCEPT ![c] = r]

Begin(c) ==
  /\ Tell(c, None)
  /\ UNCHANGED <<status, withdrawn, stale>>

\* The request is forgotten.
Forget(id) ==
  /\ status' = [status EXCEPT ![id] = "gone"]
  /\ withdrawn' = withdrawn \ {id}
  /\ stale' = stale \ {id}

ForgetIfDisposable(id) ==
  IF Disposable(id) THEN Forget(id) ELSE UNCHANGED <<status, withdrawn, stale>>

Issue(c, id) ==
  /\ status[id] = "unused"
  /\ status' = [status EXCEPT ![id] = "running"]
  /\ Tell(c, Says("new", id, "Success", FALSE))
  /\ UNCHANGED <<withdrawn, stale>>

\* The request could not be started; its identifier is lost.
FailIssue(c, id) ==
  /\ status[id] = "unused"
  /\ status' = [status EXCEPT ![id] = "gone"]
  /\ Tell(c, Says("new", 0, "thrown", FALSE))
  /\ UNCHANGED <<withdrawn, stale>>

Complete(id) ==
  /\ status[id] = "running"
  /\ status' = [status EXCEPT ![id] = "ready"]
  /\ UNCHANGED <<withdrawn, stale, answer>>

Reject(c) ==
  /\ \E res \in {"ServerTransportDecodingError", "InvalidAsynchronousOperationError"} :
       Tell(c, Says("unknown", 0, res, FALSE))
  /\ UNCHANGED <<status, withdrawn, stale>>

NotPending(c, id) ==
  /\ ~Pending(id)
  /\ \/ \E cmd \in {"poll", "get", "invalidate"} :
          Tell(c, Says(cmd, id, "InvalidRequestIdentifierError", FALSE))
     \/ Tell(c, Says("wait", id, "none", FALSE))
  /\ UNCHANGED <<status, withdrawn, stale>>

\* The request is asked for.
Contact(id) ==
  /\ Pending(id) /\ id \notin withdrawn
  /\ stale' = stale \ {id}
  /\ UNCHANGED <<status, withdrawn, answer>>

AnswerPoll(c, id) ==
  /\ Pending(id)
  /\ \/ Tell(c, Says("poll", id, "Success", status[id] = "ready" /\ id \notin withdrawn))
     \/ Tell(c, Says("wait", id, "none", status[id] = "ready" /\ id \notin withdrawn))
     \/ Disposable(id) /\ Tell(c, Says("poll", id, "InvalidAsynchronousOperationError", FALSE))
  /\ UNCHANGED <<status, withdrawn, stale>>

HandOver(c, id) ==
  /\ status[id] = "ready" /\ id \notin withdrawn
  /\ \E res \in {"Invoked", "ServerProtocolException"} : Tell(c, Says("get", id, res, FALSE))
  /\ Forget(id)

\* The reply is asked for of a request that is not ready, or withdrawn ...
Deny(c, id) ==
  /\ Pending(id) /\ ~(status[id] = "ready" /\ id \notin withdrawn)
  /\ Tell(c, Denied(id))
  /\ UNCHANGED <<status, withdrawn, stale>>

\* ... and is refused, also when the request has become ready meanwhile.
Refuse(c, id) ==
  /\ Pending(id) /\ answer[c] = Denied(id)
  /\ Tell(c, Says("get", id, "InvalidAsynchronousOperationError", FALSE))
  /\ ForgetIfDisposable(id)

Withdraw(c, id) ==
  /\ Pending(id)
  /\ withdrawn' = withdrawn \union {id}
  /\ Tell(c, None)
  /\ UNCHANGED <<status, stale>>

AnswerWithdraw(c, id) ==
  /\ Pending(id) /\ id \in withdrawn
  /\ Tell(c, Says("invalidate", id, "Success", FALSE))
  /\ ForgetIfDisposable(id)

Drop(id) ==
  /\ Disposable(id)
  /\ Forget(id)
  /\ UNCHANGED answer

\* The client has taken note of the answer.
Collect(c) ==
  /\ Tell(c, Says("unknown", 0, "none", FALSE))
  /\ UNCHANGED <<status, withdrawn, stale>>

EndCleanUp(c) ==
  /\ Tell(c, Says("cleanup", 0, "none", FALSE))
  /\ UNCHANGED <<status, withdrawn, stale>>

\* Time passes: requests that are not asked for become stale.
TimePasses ==
  /\ stale \subseteq stale'
  /\ stale' \subseteq {id \in Request : Pending(id)}
  /\ UNCHANGED <<status, withdrawn, answer>>

Next ==
  \/ \E c \in Client :
       \/ Begin(c) \/ Collect(c) \/ Reject(c) \/ EndCleanUp(c)
       \/ \E id \in Request :
            \/ Issue(c, id) \/ FailIssue(c, id) \/ NotPending(c, id)
            \/ AnswerPoll(c, id)
            \/ HandOver(c, id) \/ Deny(c, id) \/ Refuse(c, id)
            \/ Withdraw(c, id) \/ AnswerWithdraw(c, id)
  \/ \E id \in Request : Complete(id) \/ Contact(id) \/ Drop(id)
  \/ TimePasses

Spec == Init /\ [][Next]_vars

=============================================================================
