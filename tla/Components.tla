----------------------------- MODULE Components -----------------------------
(***************************************************************************)
(* The components that do not interact with each other: ClientTiming,      *)
(* ServerTiming, FunctionProtocol, EncodedVariable, LoggedStacks and       *)
(* AsyncInvocation.  A behaviour chooses one of them; the variables of the *)
(* others do not change, except that those with a variable of the same     *)
(* name share it, as it belongs to the one that was chosen.                *)
(***************************************************************************)
EXTENDS ClientTiming, ServerTiming, Sequences

CONSTANTS Name, Argument, Target, Conversion, Function,   \* of FunctionProtocol
          Value, RawValue, MaxUpdates,         \* of EncodedVariable
          AppResult, MaxPolls,                 \* of LoggedStacks
          App, MaxStarts                       \* of AsyncInvocation

VARIABLES
  component,
  \* of FunctionProtocol
  output, packed, called, wanted, found, val,
  \* of FunctionProtocol and LoggedStacks
  pc, threw,
  \* of LoggedStacks
  stack, m_async, loggers, op, message, result, polls, inner, inner_op, inner_result, invoked, log,
  \* of EncodedVariable
  raw, holds, value, got, seen, monitored, updates, told, meant,
  \* of EncodedVariable and AsyncInvocation
  call, outcome,
  \* of AsyncInvocation
  status, withdrawn, stale, answer, plain, m_id, m_synchronous, m_sync_reply, starts, last, plainly, origin,
  ready, late, given_up

Fn == INSTANCE FunctionProtocol WITH asked <- wanted
Variable == INSTANCE EncodedVariable
Stacks == INSTANCE LoggedStacks WITH packet <- message
Invocation == INSTANCE AsyncInvocation

ASSUME FunctionAssumption == Fn!ArgumentAssumption
ASSUME VariableAssumption == Variable!RawValueAssumption
ASSUME StacksAssumption == Stacks!AppResultAssumption
ASSUME InvocationAssumption == Invocation!MaxStartsAssumption

timing == <<now, clientVars, serverVars>>
function == <<output, packed, called, wanted, found, val>>
place == <<pc, threw>>
stacks == <<stack, m_async, loggers, op, message, result, polls, inner, inner_op, inner_result, invoked, log>>
variable == <<raw, holds, value, got, seen, monitored, updates, told, meant>>
operation == <<call, outcome>>
invocation ==
  <<status, withdrawn, stale, answer, plain, m_id, m_synchronous, m_sync_reply, starts, last, plainly,
    origin, ready, late, given_up>>
vars == <<component, timing, function, place, stacks, variable, operation, invocation>>

-----------------------------------------------------------------------------
(* Variables of components that were not chosen *)

NoFunction == output = 0 /\ packed = 0 /\ called = 0 /\ wanted = 0 /\ found = 0 /\ val = 0

NoPlace == pc = 0 /\ threw = 0

NoStacks ==
  /\ stack = 0 /\ m_async = 0 /\ loggers = 0 /\ op = 0 /\ message = 0 /\ result = 0 /\ polls = 0
  /\ inner = 0 /\ inner_op = 0 /\ inner_result = 0 /\ invoked = 0 /\ log = 0

NoVariable ==
  /\ raw = 0 /\ holds = 0 /\ value = 0 /\ got = 0 /\ seen = 0 /\ monitored = 0 /\ updates = 0
  /\ told = 0 /\ meant = 0

NoOperation == call = 0 /\ outcome = 0

NoInvocation ==
  /\ status = 0 /\ withdrawn = 0 /\ stale = 0 /\ answer = 0 /\ plain = 0
  /\ m_id = 0 /\ m_synchronous = 0 /\ m_sync_reply = 0 /\ starts = 0
  /\ last = 0 /\ plainly = 0 /\ origin = 0 /\ ready = 0 /\ late = 0 /\ given_up = 0

Init ==
  /\ ClientInit /\ ServerInit
  /\ \/ /\ component \in {"client", "server"}
        /\ NoFunction /\ NoPlace /\ NoStacks /\ NoVariable /\ NoOperation /\ NoInvocation
     \/ /\ component = "function"
        /\ Fn!Init /\ NoStacks /\ NoVariable /\ NoOperation /\ NoInvocation
     \/ /\ component = "variable"
        /\ Variable!Init /\ NoFunction /\ NoPlace /\ NoStacks /\ NoInvocation
     \/ /\ component = "stacks"
        /\ Stacks!Init /\ NoFunction /\ NoVariable /\ NoOperation /\ NoInvocation
     \/ /\ component = "invocation"
        /\ Invocation!Init /\ NoFunction /\ NoPlace /\ NoStacks /\ NoVariable

Next ==
  /\ UNCHANGED component
  /\ \/ /\ component = "client" /\ ClientNext
        /\ UNCHANGED <<serverVars, function, place, stacks, variable, operation, invocation>>
     \/ /\ component = "server" /\ ServerNext
        /\ UNCHANGED <<clientVars, function, place, stacks, variable, operation, invocation>>
     \/ /\ component = "function" /\ Fn!Next
        /\ UNCHANGED <<timing, stacks, variable, operation, invocation>>
     \/ /\ component = "variable" /\ Variable!Next
        /\ UNCHANGED <<timing, function, place, stacks, invocation>>
     \/ /\ component = "stacks" /\ Stacks!Next
        /\ UNCHANGED <<timing, function, variable, operation, invocation>>
     \/ /\ component = "invocation" /\ Invocation!Next
        /\ UNCHANGED <<timing, function, place, stacks, variable>>

Spec == Init /\ [][Next]_vars

-----------------------------------------------------------------------------
(* The properties of the components, which their modules state and explain. *)

\* FunctionProtocolPack, FunctionProtocolExtract: arguments arrive.
PackedIsExtracted == component = "function" => Fn!PackedIsExtracted

\* ValidateFunctionProtocolInput: no value is taken for one of another type, but that an
\* AnyValue variable with a type of its own holds what the library converts to it.
ExtractedIsField == component = "function" => Fn!ExtractedIsField

\* FunctionProtocolPrepareOutput: a pack changes no field that is there.
FieldsAreKept == [][component = "function" => Fn!KeepsFields]_vars

\* EncodedProcessVariable::GetValue: what is read was really held during the call.
ReadsAreCurrent == [][component = "variable" => Variable!CurrentRead]_vars

\* EncodedProcessVariable::SetMonitorCallback: the callback is told what one would read.
CallbackTellsValue == component = "variable" => Variable!CallbackTellsValue

\* RPCLoggingClientStack, RPCLoggingServerStack: all loggers tell the same call.
LogsAgree == component = "stacks" => Stacks!LogsAgree

\* LogProtocolDecorator, LogAnyFunctorDecorator: exceptions of loggers and others end
\* where they belong.
ExceptionsAreContained == component = "stacks" => Stacks!ExceptionsAreContained

\* AsyncInvocation::GetReply: it gives the reply to the last Start, or the last plain one.
ReplyIsOfLastStart == [][component = "invocation" => Invocation!GivesLastStart]_vars

\* AsyncInvocation::PollOnce: an announced reply is delivered.
ReadyReplyArrives == [][component = "invocation" => Invocation!KeepsAnnouncement]_vars

\* AsyncInvocation::Invalidate: no reply is delivered after it.
NoReplyAfterInvalidate == [][component = "invocation" => Invocation!StaysWithdrawn]_vars

\* AsyncInvocation::PollOnce: its decoding errors mean that the request is of no use.
PollFailsOnlyIfUnneeded == [][component = "invocation" => Invocation!RefusalIsJustified]_vars

=============================================================================
