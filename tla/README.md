# Verification of sup-protocol

TLA+ models of `sup-protocol`, the library that carries calls of an application protocol
(`Protocol::Invoke`, `Protocol::Service`) over an RPC layer, synchronously or asynchronously, and
that waits for process variables. TLC checks the models on small instances, and TLAPS proves every
safety property of the passing runs for every value of the parameters that satisfies the stated
assumptions. Paths are relative to `src/src/lib/sup/protocol/`.

## 1. The system

| Component | State | Operations | Interaction |
|---|---|---|---|
| `AsyncInvoke` (`base/async_invoke.cpp`) | future of a worker, `m_invalidated`, `m_last_access` | construct, `WaitForReady`, `IsReadyForRemoval`, `GetReply`, `Invalidate` | `std::async` worker runs `Protocol::Invoke`; reads the system clock |
| `AsyncInvokeServer` (`base/async_invoke_server.cpp`) | `m_invokes`, `m_last_id`, `m_mtx` | `HandleInvoke` (new, poll, get, invalidate), `WaitForReady`, `CleanUpExpiredRequests` | called by every thread of the network layer |
| `ExpirationTimeoutHandler` | `m_last_timestamp`, its own mutex | `IsCleanUpNeeded` | decides for `ProtocolRPCServer` when to sweep |
| `ProtocolRPCServer` (`base/protocol_rpc_server.cpp`) | owns the two above | `operator()` | classifies a packet, calls the protocol or the table |
| `AsyncInvocation` (`base/async_invocation.cpp`) | `m_id`, `m_synchronous`, `m_sync_reply` | `Start`, `PollOnce`, `GetReply`, `Invalidate` | calls the functor of the network layer |
| `PollingTimeoutHandler` | start, timeout, interval | `Wait` | sleeps, reads the system clock |
| `ProtocolRPCClient` (`base/protocol_rpc_client.cpp`) | configuration | `Invoke`, `Service` | drives an `AsyncInvocation` and a `PollingTimeoutHandler` |
| Packets (`base/protocol_rpc.cpp`, `protocol_encodings.cpp`) | none | create, check, extract | used by client and server |
| `WaitForVariableValue`, `VariableCallbackGuard`, `BusyWaitForValue` (`factory/`) | mutex, condition variable, result; the callback of the variable | wait | the callback runs on a thread of the process variable |
| `EncodedProcessVariable` (`encoded_variable_t.h`) with `Base64VariableCodec` | wrapped variable | get, set, wait for availability, `SetMonitorCallback` | encodes and decodes, wraps callbacks |
| `RPCLoggingServerStack` (`factory/rpc_logging_server_stack.cpp`) | protocol, functor, RPC server | construct, destroy | owns the functor that threads of the network layer call, and the protocol that workers call |
| `RPCLoggingClientStack` (`factory/rpc_logging_client_stack.cpp`) | functor, client, decorators | `Invoke`, `Service` | composition of the client and the decorators |
| `LogProtocolDecorator`, `LogAnyFunctorDecorator` (`decorators/`) | what they wrap, and the loggers | `Invoke`, `Service`, `operator()` | call loggers of the application, which may throw |
| Configurations (`base/protocol_rpc_client_config.cpp`, `base/protocol_rpc_server_config.cpp`, `base/timing_utils.cpp`) | plain data | make, validate, parse an encoding, convert a duration | read by client and server when they are made |
| Function protocol (`base/function_protocol*.cpp`) | none | pack, call, extract | a caller packs arguments, a callee extracts them |
| Results (`protocol_result.h`) | none | categories of codes | travel in packets as numbers |

What is hard here, and what the properties are for:

* **Windows inside critical sections.** The table is locked, but workers finish and the clock
  moves meanwhile, and most operations look at a future or the clock twice. No reply may be given
  twice, none may be dropped that somebody still needs, an invalidated one must not be delivered.
* **Blocking destructors.** Erasing an entry whose worker runs blocks with the mutex held.
* **Decisions that age.** Whether to sweep is decided in one critical section and done in another.
* **Failures.** The network loses requests and answers, clients give up, the server is restarted,
  a worker cannot be started, the system clock is set back.
* **Identifiers** are counted per process and handed to clients that may outlive it.
* **Other versions** of clients and servers, and packets with odd fields.
* **Destruction** of a stack while threads are inside its functor and workers inside its protocol.
* **Long sequences of legal calls** on one `AsyncInvocation`, which keeps members of earlier ones.
* **Durations** that are negative, that round, or that do not fit into 64 bits.
* **Loggers** of the application in the middle of a call, missing or throwing.
* **Callbacks** that refer to locals of a function which is about to return, two locks taken in
  two orders, wake-ups that could be lost.

`PROJECT.json` lists every hazard with its line and the properties that watch it.

## 2. The modules

| Module | Models | Relation |
|---|---|---|
| `AsyncInvokeServer` | the table: `AsyncInvokeServer` with its `AsyncInvoke`s | the core |
| `AsyncRequests` | what the table promises, without threads, mutex or timestamps | implemented by `AsyncInvokeServer` |
| `ProtocolRPCServer` | `operator()` with `ExpirationTimeoutHandler` | instantiates `AsyncInvokeServer` as `Table` |
| `RPCSystem` | clients, network and server | instantiates `ProtocolRPCServer` as `Server` |
| `AsyncInvocation` | an application that drives an `AsyncInvocation` itself | instantiates `AsyncRequests` as `Server` |
| `ServerStack` | the life of an `RPCLoggingServerStack` | instantiates `ProtocolRPCServer` as `Server` |
| `LoggedStacks` | a call through both stacks with their loggers | extends `ProtocolResults` |
| `ProtocolResults` | the codes of results | |
| `RPCPackets`, `RPCExchange` | packets, and one exchange of them | `RPCExchange` extends `RPCPackets`, which extends `ProtocolResults` |
| `FunctionProtocol` | packing, calling and extracting | extends `RPCPackets` |
| `Configuration` | configurations, their validation, conversion of durations | extends `RPCPackets` |
| `ClientTiming`, `ServerTiming` | what client and server make of configured times | extend `Configuration` |
| `WaitForVariable` | waiting for a process variable | on its own |
| `EncodedVariable` | reading, writing and monitoring an encoded variable | extends `RPCPackets` |
| `MC...` | symmetry and input sets for TLC | one for each module that has a run of its own |
| `Components` | the six modules that do not interact, one of them chosen | extends `ClientTiming` and `ServerTiming`, instantiates `FunctionProtocol`, `EncodedVariable`, `LoggedStacks` and `AsyncInvocation` |
| `..._proofs` | theorems, section 5 | extend the module they are named for |
| `RPCServing_proofs` | more theorems about `RPCSystem` | extends `RPCSystem_proofs`, instantiates `ProtocolRPCServer_proofs` |

Operators named `Bug_X` are copies of `X` with a plausible mistake. They are no part of a
specification; putting them in the place of `X` shows that a property notices the mistake.

### AsyncInvokeServer

`pc[t]` says where thread `t` is inside a locked operation; `mtx` is `m_mtx`, `invokes` is
`m_invokes` (a function on the identifiers present), `last_id` is `m_last_id`. An operation is one
step up to the point where it next looks at a future or at the clock:

* `NewRequest` (or `NewRequestThrows`, when `std::async` fails after the identifier was drawn).
* `Poll` takes the removal check; `Touch` is the first half of `AsyncInvoke::WaitForReady`, which
  renews the access time; `Check` looks at the future and returns. `WaitForReady` shares the last
  two.
* `GetReply` and `Invalidate` do the operation on the entry; `Reap` is the `IsReadyForRemoval` and
  `erase` at the end of both.
* `CleanUp`, `SweepOne` for each entry, `SweepEnd`: the loop of `CleanUpExpiredRequests`.
* `Finish` is the end of a worker, `Tick` is the system clock, which may be set back.

`IsReadyForRemoval` looks at the future and then at the clock; it is one step because a future that
is ready stays ready, so the test has the value it has when the clock is read, or the worker
finishes after its look and the entry counts as unfinished. Times are small numbers, and their
differences are taken modulo `TimeModulus`, as 64-bit unsigned integers are.

### AsyncRequests

An identifier is `unused`, `running`, `ready` or `gone`, a pending one may be `withdrawn` or `stale`.
The refinement maps an erased entry, or one whose future is consumed, by what clients can see:
consumed and erased happen in one critical section, so that the hand-over is the step that ends it.
A `GetReply` that is refused says so (`Denied`) at its first look at the future; the entry may be
dropped in a later step of the same call, when the worker has finished meanwhile.

### ProtocolRPCServer

`stage[t]` is where thread `t` is in `operator()`. `Receive` contains `IsCleanUpNeeded`, which has a
mutex of its own and is atomic. `Never` stands for `m_last_timestamp` 0, long before any instant.
`garbage[t]` is a history variable: the entries that were removable when `t` decided to sweep and that nobody
renewed since.

### RPCSystem

Client `c` and thread `c` of the server belong together: a call of the functor is `Receive` in the
server, and its answer is taken when thread `c` is free again. A lost request or answer is an
exception of the functor; an answer is lost after the server has handled the request. The network
layer itself is outside the repository. `Restart` loses everything the server had in memory and
fails the calls in progress. The history variables `sent`, `sending` and `owner` serve the
properties. `async_supported` is chosen in `Init` and never changes: a server without the asynchronous
protocol ignores the field and answers synchronously. The clients in `Lossy` have a network that loses
packets; those in `Punctual` are clients whose polls reach the server within the expiration time,
which restricts the environment: the clock waits for them.

### ServerStack

`phase` names the member that is constructed or destroyed next, `alive` holds those that exist. The
members are constructed and destroyed in the order of their declaration and its reverse.
`RPCServerInterface` is implemented by the network layer; as usual for such a server, it takes no new calls
when it is destroyed and waits for those in progress (`DestroyServer`). `DestroyInvoke` is the
destructor of one entry of the table: that of a `std::async` future waits for the worker.
Decorators, if there are any, are part of the member that they wrap.

### AsyncInvocation

`RPCSystem` uses an `AsyncInvocation` as `ProtocolRPCClient` does. Here the application calls its four
operations in any order and starts it again. The server is not that of the code but its promise,
`AsyncRequests`: `Serve` is any of its steps that may answer the call under way. A `Start` may also
be answered by a plain reply (`AnswerPlainly`), by a server without the asynchronous protocol. The
object is modelled member by member: a `Start` that gets an identifier leaves `m_synchronous`
and `m_sync_reply` as they were, one that gets a plain reply leaves `m_id`. History variables say which
`Start` a reply belongs to (`origin`), whether the reply was announced (`ready`), whether the server may have
forgotten it (`late`) and whether an `Invalidate` reached the server (`given_up`).

### LoggedStacks

One call, as the stacks keep nothing that calls share. `pc` is where the calling thread is, from
`"input"` (the logger of the client's protocol decorator) through client, functor, network and server to the
protocol and back; an asynchronous call comes back to `"functor"` for every poll, and the protocol runs in a
thread of its own (`inner`). A stack made of a functor consists of the middle part only. Any of the six
loggers may be missing. What a logger throws passes through the decorator, which has no `try`:
where it ends is decided further out, and that is what `ExceptionsAreContained` states.

### Configuration, ClientTiming and ServerTiming

Durations are integers, in quarters of a nanosecond, so that rounding happens; 64-bit integers have
`2 * Half` values, and `ToNanoseconds` of a duration is the set of values that it may give: the one that
`lround` and the cast to unsigned give, or any at all if `lround` is out of range, where
the standard leaves it open. The two validation functions are called by nothing in the library, so that
`client_accepted` and `server_accepted` are chosen by the application, and unvalidated configurations run, too.
`ClientTiming` is `PollingTimeoutHandler` in its own terms, unsigned differences and signed sleeps, one client alone;
`ServerTiming` has one request, as requests do not disturb each other, and every step handles a whole packet.
The clock is not set back here; what happens then is shown by `AsyncInvokeServer_clock`.

### EncodedVariable

The network variable is `raw`: whether it is available and its AnyValue, which others replace at any
time, by something encoded or by something else. An operation of the decorator is a call (`call`), the answer
of the network variable (`got`) and the return, and the variable may change in between. `holds`
is the value of an application that the variable stands for, `seen` all of them since the operation began,
and `meant` the one at the update that a callback is about. Updates are reported later, in order.

### RPCPackets and RPCExchange

AnyValues are records with one field named for the type, packets are functions from field names to
AnyValues; `With` adds fields to one. The server's choice between an answer of its own and
the refusals is an `IF`, as in the code: a refused request is never handled as well. `did` is what protocol and table say, chosen freely. A reply to a call is compared with a
direct call of the protocol (`DirectOutcome`). Results are numbers, as in packets, those of
applications next to those of the layers. A stranger sends any packet over a set in which each
field is absent, of the right type or of a wrong one.

`Info` is the question of `GetApplicationProtocolInfo`, which goes through `Service`; its answer is that
of `HandleApplicationProtocolInfo`, or anything else.

### FunctionProtocol

A caller packs any number of arguments, well or badly, then `CallFunctionProtocol` looks for the
function, then the callee extracts one argument as any kind into any variable. What was packed is
kept in the history variable `packed`. Texts are records that say where they come from, so that the
description of a type can be told from other texts. Conversions between types are those of `sup-dto`:
`Conversion` says which there are, and what they give. They matter where the callee extracts an AnyValue into a variable with a
type of its own, which keeps its type and takes what the library makes of the field (`Extractions`), or
the extraction throws. An extraction as another kind asks for the type of the field first, and takes nothing else.

### WaitForVariable

`ProcessVariable` is an interface. The variable of the model has a lock, and three flags chosen in
`Init` that never change: whether it calls back with its lock held (`underLock`) or without it (as the variable of the
unit tests does), whether it has callbacks at all (`supported`), and whether it is wrapped in an
`EncodedProcessVariable` (`encoded`). A variable that calls back without its lock is updated by one
thread at a time: if two did it at once, their callbacks could come in the wrong order and the older
one would have the last word, which is for the variable to prevent. The wait is split at
every lock, at the predicate, at the sleep and at the read; wake-ups may be spurious.

## 3. The runs

| Run | Bounds | Shows |
|---|---|---|
| `AsyncInvokeServer_safety` | 2 threads, 2 ids, clock 0..2 forward | one reply per request, no blocking erase, fresh identifiers, no delivery after invalidation, nothing needed is discarded, implements `AsyncRequests` |
| `AsyncInvokeServer_clock` | 1 thread, 1 id | counterexample, section 6 |
| `ProtocolRPCServer_safety` | 2 threads, 2 ids, clock 0..1, all kinds of packets | a sweep removes what it was decided for |
| `ProtocolRPCServer_liveness` | 2 threads, 1 id, clock 0..2 | every packet is answered, garbage is reclaimed while packets arrive |
| `RPCSystem_served` | 2 clients, 2 ids, clock 0..2, either kind of server; one client is punctual, the other slow and lossy | the punctual client is served with its own reply, nobody gets a foreign one |
| `RPCSystem_failures` | 1 client, 2 ids, clock 0..3, losses, a restart, calls of every kind | every call ends |
| `RPCExchange_packets` | all operations, encodings and answers; 1890 strange packets | calls and the application protocol info are transparent, strangers are answered |
| `WaitForVariable_wait` | 2 writers, 3 updates, every kind of variable | no lost update, no callback in a dead frame, the wait ends |
| `WaitForVariable_guard`, `_timeout` | 1 writer | counterexamples, section 6 |
| `ServerStack_destruction` | 2 threads, 1 id, clock 0..1 both ways | nobody meets a destroyed member, destruction ends |
| `Components_alone`, client | `Half` = 8 (4-bit integers), clock 0..7, durations -5, 1, 6, 11 and 80 quarters, every encoding | an accepted configuration is kept to |
| `Components_alone`, server | the same | an abandoned request is reclaimed in time |
| `Components_alone`, function | 3 names, one of them `"function"`, 17 arguments of all kinds, 6 variables to extract into, some types that convert | arguments arrive, no type is confused, no field is lost |
| `Components_alone`, variable | 2 values, 5 foreign AnyValues, 2 pending updates | what is read was held during the call, callbacks tell the update's value |
| `Components_alone`, stacks | all sets of loggers, 2 results, 2 polls | loggers agree, exceptions end where they should |
| `Components_alone`, invocation | 3 starts | the reply is that of the last `Start`, an announced one arrives, none does after `Invalidate`, a failed poll gives up nothing that is needed |

`Components_alone` is one run for six components because they share nothing: a behaviour chooses
one of them (`component`) and the variables of the others stand still, which spares TLC the product of
their states. Components with a variable of the same name share its declaration in `Components`, as only the chosen one
uses it. Its properties are those of the components, each for the behaviours that chose it.

Why the bounds are enough: operations exclude each other, so two threads give every order of two
operations with workers and clock in between, which is what the windows need. Two identifiers let a
request come and go beside another one, and let a sweep meet an entry it keeps and one it erases.
With an expiration time of 1 the clock values 0..2 hold an access, an instant at which it is
just not expired, and one at which it is. The bound on identifiers stops new requests, not the others; the
bound on the clock is the last instant. The wait for a variable needs an update before, during and
after the read. The durations are one below zero, one that rounds to 0, one just between two integers, one that rounds
up, and one that does not fit into 4 bits; clock and integers are small enough for every difference to wrap. Three
starts are a first one, a second that finds its members, and a third that finds those of both kinds.
Symmetry of threads is used for safety only.

Deadlock is checked except where a model really stops: one exchange of packets, the components alone (a call is
over, a clock at its bound), a stack that is destroyed, and a wait that has returned with no updates left.

## 4. Fairness

* A thread inside a critical section of the table runs (`WF` on `Step`), as the scheduler sees to it.
* In the server, the mutex is not withheld for ever from one thread (`SF` on `Handler`): a thread
  that waits for a `std::mutex` that is free again and again gets it eventually. The C++
  standard does not promise this; the implementations in use do so in practice.
* Liveness of reclaiming also assumes that workers finish, that time passes and that packets keep
  arriving: the server sweeps on packets only. `InvokeTerminates` assumes nothing of workers.
* `DestructionEnds` assumes that workers and calls of the protocol return (`WF` on `WorkerEnds`): the
  destructors wait for them. Nobody has to destroy a stack.
* Nobody has to call or write: new calls and updates of a variable have no fairness.
* A sleeping waiter is only sure to wake when notified or at the deadline.

## 5. What is proved

Eight modules hold theorems. Each proves inductive invariants (`Init => IInv`, `IInv /\ [Next]_vars => IInv'`), one
lemma for each action or group of actions, and draws its theorems from them. The assumptions are the named `ASSUME`s of the
modules, which `Components` repeats for those it instantiates; TLC evaluates all of them. Where a theorem needs more, it says so with a switch of the model:

* `ClockMayStepBack = FALSE`: the system clock is never set back. Without it requests are discarded while they are
  needed, as `AsyncInvokeServer_clock` shows.
* `ServerMayRestart = FALSE`: a restarted server has forgotten its requests and counts identifiers anew. Without it
  identifiers are not unique (section 6).
* `LaunchMayFail = FALSE`: `std::async` finds a thread. Otherwise a start fails with an exception.

**`AsyncInvokeServer_proofs`**, for any set of threads, any bound on identifiers and clock, and any
expiration time:

* `TypeCorrect`, `RepliesAreErased`, `NeverBlocksInErase`, `IdsAreFresh`, `InvalidatedIsWithheld`, also for a
  clock that is set back;
* `DiscardsOnlyUnneeded` and `TableImplementsRequests`, if the clock is never set back.

`RetrievedIsErased` is not inductive: a state with a free mutex and a thread inside `Reap` satisfies it.
The invariant `IInv` adds that identifiers in the table are at most `last_id`; that
exactly the holder of the mutex is inside an operation; that the entry an operation works on is in
the table; and that a consumed future is the target of the `Reap` of the holder. That clients were given only identifiers
that were drawn is an invariant of its own (`IssuedWereDrawn`), as a restart of the server breaks it. The action properties
follow from `ErasedOnlyIfReady`: an entry disappears only in `Reap` or `SweepOne`, which found it ready for
removal. `DiscardsOnlyUnneeded` further needs `AccessInThePast`, which is an invariant only while the clock goes
forward; then the modular difference is the real one.

What the holder of the mutex may still answer is `HolderAnswers`: who looks at a future has found the request not
invalidated, and holds the mutex since; who is about to reap has already answered. `InvalidatedIsWithheld` follows from it, and so does
the refinement, where it decides which operation of `AsyncRequests` a step is. `TableImplementsRequests` maps each step to a step or a
stutter, one lemma for each group of actions: a new request is `Issue`; the two halves of a poll are `Contact` and
`AnswerPoll`; the look at the future in a `GetReply` is `Begin` or `Deny`, one that invalidates is `Withdraw`; the `Reap` at their end is
`HandOver`, `Refuse` or `AnswerWithdraw`, the last two with or without dropping the entry; an entry in a sweep is `Drop` or a
stutter; and a `Tick` is `TimePasses`, which is where the clock must not be set back: a stale request would become fresh.

**`ProtocolRPCServer_proofs`**, for any threads, any packets, any interval and expiration time: `TypeCorrect`, and
`SweepsAreComplete` if the clock is never set back. The invariant of the table is carried over by an instance of its
proofs: each step of `operator()` is a step of the table or leaves it alone. It adds that a thread is inside an operation of the table
exactly in the stages that hold its mutex, and that packets of clients have identifiers. That a sweep is complete needs `GarbageInv`:
what was removable when a thread decided, and was not renewed since, is still removable however late the sweep comes,
because futures stay ready, invalidations stay, and elapsed times grow; the sweep has passed it only if it is gone.

**`RPCSystem_proofs`**, for any number of clients, any losses, clock and timeouts, if the server is not
restarted: `ClientsHoldDistinctIds` and `ClientsGetTheirOwnReply`. That identifiers differ is not inductive, because an
identifier is on its way before a client holds it. `IInv` says more: what a client holds, or what the server has
answered to its start, was given out for its own request (`HoldsOwn`). For that, a client that starts has asked for
nothing else (`AsksNew`), one that polls holds an identifier (`HoldsId`), and identifiers given out are at most
`last_id` (`IdsCounted`). `HandlerOfOne` is the lemma about the server: a step of `operator()` changes the answer of its
own thread only, and leaves with a new identifier or with none.

**`RPCServing_proofs`**, for any number of clients: `SystemTypeCorrect`, whatever is lost, restarted or set back,
and `PunctualClientsAreServed`, under all three switches. The latter is the promise of
the whole asynchronous protocol. Its invariant `Served` follows the request of a punctual client through the table: from the
answer to its start until its reply is handed over, the entry is in the table, was not invalidated, and its last access is no longer ago
than the expiration time, since the polls of a punctual client are in time. So no sweep, no `Reap` of another thread, and no other client
can remove it; and once a poll has found it ready, the `GetReply` that follows does, too. The steps of the server in `RPCSystem` are those
of an instance of `ProtocolRPCServer_proofs` (`SameTable`, `SameReceive` and the lemmas after them), whose invariants are used.

**`RPCExchange_proofs`**, for any payloads, results, outputs, identifiers and both encodings:
`CallsThroughPacketsAreTransparent`, `InfoThroughPacketsIsTransparent`, `ClientsUnderstandTheTable` and, for any packet at all,
`AnybodyIsAnswered`. Two lemmas carry the argument: what is added to a packet as a payload is what is extracted from
it (`AddedIsCarried`), and no field that is added later disturbs it (`CommandIsAdded`). The invariant says that the
reply is the answer to the request that was sent, and the outcome what the client makes of the reply. `OutputAssumption`: there is
only one empty AnyValue, so that the reply which carries no output brings back the empty one.

**`WaitForVariable_proofs`**, for any number of writers, values and updates: `WaitTypeCorrect`, `WaitLosesNoUpdate` and
`CallbackIsContained`. `IInv` adds who holds which lock, that at most one update is under way where the variable calls
back without its lock, that the callback is installed while the function waits, that a writer reports the current
value, and that whoever sets the result while the function sleeps goes on to wake it.

**`ServerStack_proofs`**, for any number of threads and requests: `FunctorOutlivesCalls` and `ProtocolOutlivesWorkers`.
`IInv` relates the phase to the members that exist: threads are inside `operator()` only while the server exists, requests exist only
until the table is destroyed, and each phase has the members it needs.

**`Components_proofs`**, for each component alone, and then for `Components`, where the chosen component runs (`StacksRun` and so on)
and every step that changes anything is one of it (`OnlyChosenChanges`):

* Timing, for integers of any width (`Half`), any durations and any clock that is not set back: `ClientWaitsAsConfigured`
  and `ServerReclaimsAbandoned`. The client's invariant relates the converted durations to the
  configuration (each is within half a nanosecond); with that and a clock in order, `WaitsAsConfigured` is inductive,
  and only `Wait` has to be argued. The server's says that a request that was spared by a sweep was not expired then, and that
  no packet was handled later than the interval after a sweep without another sweep.
* `LoggedStacks`, for any loggers, results of the application and number of polls: `ExceptionsStayContained` and `LoggersAgree`. The first
  invariant says which results may exist in which place, and where a logger may have thrown. The second says, for each
  place of the call, what each logger has told so far, poll by poll and worker by worker. `AppResultAssumption`: the results of
  an application are `Success` and codes of its own range.
* `EncodedVariable`, for any values and updates: `CallbackTellsTheValue` and `ReadsAreOfTheirTime`. The invariant says that `holds` is the
  meaning of what the network variable holds, and that an answer under way means something it held since the call began.
  `RawValueAssumption`: what the codec did not make, it does not decode.
* `FunctionProtocol`, for any names, arguments, functions and conversions: `PackedArrives`, `ExtractedIsTheField` and `PacksKeepFields`. The invariant says
  that every argument packed has its field, and that fields are AnyValues. Two lemmas say that packing and extracting are
  inverse to each other, kind by kind. `ExtractedIsTheField` leaves out AnyValue variables with a type of their own, which take what the library
  makes of the field. `ArgumentAssumption` is what an AnyValue is: it has one type.
* `AsyncInvocation`, for any number of starts: `RepliesAreOfTheLastStart`, `AnnouncedRepliesArrive`, `NothingAfterInvalidate` and
  `PollsFailOnlyIfUnneeded`. The invariant has
  a part for each: the identifier held is the one of the last start, unless a plain reply is kept (`StartsAreKept`); what was announced is
  still ready and not withdrawn at the server, or already handed over (`AnnouncementIsKept`); what was given up is withdrawn or gone
  (`GivenUpIsAbandoned`); what a poll was refused is unneeded, and stays so until `PollOnce` returns (`RefusalStands`). They rest on identifiers being issued once (`Identifiers`), which is a promise of `AsyncRequests`, and `TableImplementsRequests` is the
  proof that the table keeps it.

The attempts corrected the models twice. A client whose call was answered synchronously had lost that answer when the server was restarted; the reply
has left the server by then, and `RPCSystem` keeps it now. And `RPCExchange` had left it to `CHOOSE` whether a request that must be refused
is handled; it is refused.

Only model-checked: all liveness (`PacketsAnswered`, `GarbageReclaimed`, `InvokeTerminates`, `WaitTerminates`,
`DestructionEnds`), as fairness is beyond the prover. Each safety invariant and action property of a passing run has its theorem.
The compositions are proved as far as the models compose: `AsyncInvocation` and `RPCSystem` are two views of the same class, and
that the second implements the first is not stated.

## 6. Where code and documentation disagree

The first three are runs that are expected to be violated; the quotations are in `PROJECT.json`.

1. A system clock that is set back makes every request expired at once, because the difference of
   unsigned timestamps wraps (`AsyncInvokeServer_clock`). `PollingTimeoutHandler::Wait` subtracts in
   the same way, so that a client whose clock is set back gives up before its timeout; `WaitsAsConfigured` is
   claimed for a clock that goes forward.
2. `VariableCallbackGuard` does not remove its callback from an `EncodedProcessVariable`; the next
   update calls an empty function and throws (`WaitForVariable_guard`).
3. `WaitForVariableValue` does not end at its timeout while updates keep coming
   (`WaitForVariable_timeout`).

More came up while modelling and have no run of their own:

* `AsyncInvokeServer::Poll` also refuses an expired request with the code that its comment explains by
  an invalidation.
* Identifiers are unique within one server process only: after a restart two clients may hold the
  same one, and one is given what the other asked for. `UniqueRequestId` and `OwnReply` are claimed without restarts; what holds with one is
  that calls end (`InvokeTerminates`). `RPCSystem` with `ServerMayRestart = TRUE` and two clients
  violates `UniqueRequestId`.
* `AsyncInvocation::PollOnce` looks for the ready flag first, and an error reply of the server has
  none, so that every error of the server is reported as `ClientTransportDecodingError`. An application that gives up then, as
  `ProtocolRPCClient` does, gives up nothing that is still needed (`PollFailsOnlyIfUnneeded`).
* A second `Start` on an `AsyncInvocation` whose first was answered by a plain reply leaves that reply in
  place: `PollOnce` says ready at once and `GetReply` gives the reply of the earlier `Start`. `ReplyIsOfLastStart`
  states what holds: it makes this exception.
* `ValidateProtocolRPCClientConfig` and `ValidateProtocolRPCServerConfig` are called by nothing in the library; what the
  timing properties promise is for configurations that the application validated.

## 7. What is not modelled, and the plan

Not modelled, and why:

* the text of log entries, `ProtocolResultToString` and the names of codes: formatting, with no state;
* the codec below Base64 (the serialisation of AnyValues) and conversions between types: both belong to `sup-dto`;
* the network layer: external, present as a functor that may throw and as the server that calls;
* dependency injection (`protocol_di.cpp`), exception types, and the interfaces in `protocol_factory.h`: no behaviour;
* the value of the timestamp in packets: nothing reads it;
* the life of a server stack made from a functor: that of `ServerStack` without the protocol;
* the checks for null pointers in constructors.

Next, in this order:

1. Proofs: that a client of `RPCSystem` with the server behind it behaves as `AsyncInvocation` says, so that the proofs about
   `AsyncInvocation` hold for `ProtocolRPCClient` by refinement.
2. An abstract specification of a call, "at most one execution, and its result or a failure", implemented by `RPCSystem`.
3. Server stacks and clients in one model: clients whose server stack is destroyed and built again.
