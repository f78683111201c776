# TLA+ models of roolet

roolet is an RPC server. Applications connect over TCP and send one-line JSON
commands; some of them register as *RPC servers* and get the calls of the others. This
directory has TLA+ models of the live Go server, the TLC runs that check them, and
TLAPS proofs for any numbers of connections, workers and places in a queue.
Paths below are relative to the repository; `src/roolet/` has the Go packages,
`clients/python3/` the client libraries.

## 1. The system

### Parts and state

| Part | Code | State | Operations |
|---|---|---|---|
| Connection server | `connectionserver/connectionserver.go` | sockets, a reader and a writer goroutine for each connection | accept, read a command, write an instruction, clean up |
| Worker manager | `coresupport/coresupport.go` | `instructionsChannel`, worker goroutines, `outChannels` (groups of back channels with a RWMutex each) | `Processing`, `worker`, `Send`, `AppendBackChannel`, `RemoveBackChannel`, `SendExit`, `Stop` |
| Launcher | `corelauncher/corelauncher.go` | signals | `Launch`, stop on a signal |
| Instruction routing | `coreprocessing/coreprocessing.go` | `MethodInstructionDict`, `RpcServerManager` (servers of each method, task ids, directions, results) | `Execute`, `Append`, `Remove`, `GetCidVariants` |
| Core methods | `coremethods/coremethods.go` | none of their own | auth, registration, status, routing of a call, return of a result |
| Connection state | `connectionsupport/connectionsupport.go` | a `ClientStateData` for each cid, in cells with locks | `NewConnection`, `UpdateState`, `RemoveConnection`, `ClientInGroup`, `ClientBusy`, `IsAuth` |
| Statistic | `statistic/statistic.go` | items, the channel `messages`, the flag `active` under a RWMutex | `SendMsg`, `Close`, `statProcessing` |
| Dictionary | `helpers/helpers.go` (`AsyncStrDict`) | parts with a lock each, one shared counter | `Set`, `SetUnsafe`, `Get`, `Exists`, `Delete`, `Clear`, `Size` |
| Task ids | `helpers/helpers.go` (`TaskIdGenerator`) | a counter | `CreateTaskId` |
| Python clients | `clients/python3/libroolet` | connection, worker pool of a server, polling client | connect, auth, register, call, serve |
| Prototype | `rlserver/rlserver.go`, `protocol/protocol.go`, `clients/python3/roolet` | an earlier server, not started by `roolet.go`: a flag `active`, a context for each connection, the buffer of the core workers, a dispatcher with a map of answer channels under a RWMutex, methods of servers and a busy account | accept, handshake, handlers of `protocol.go`, answers, status broadcast, stop |
| Transport, options, crypto, logger | `transport`, `options`, `cryptosupport`, `rllogger` | – | encoding, configuration, signatures, output |

### How the parts interact

A reader takes a line from its socket, names its instruction type with
`MethodInstructionDict`, and puts the instruction into `instructionsChannel`
(`Processing`). A worker takes it, runs the handler and the post handler of its type
(`Execute`), and sends each resulting instruction to the back channel of the
connection it is for (`Send`). The writer of that connection writes it and applies
its `StateChanges` with `UpdateState`. The first command of a connection is
processed *before* its back channel is in `outChannels`. When a read fails, the
reader takes the connection out of the RPC methods (if its group is server by then),
out of the back channels, and out of the connection data, and closes the socket.
A call is answered with a task id, and an `execute` instruction goes to a free server;
the server's `result` is kept in a dictionary or pushed to a web-socket client.
Every part counts with the statistic, from many goroutines.

In the prototype, `connectionHandler` answers the handshake itself and puts later
commands into one buffer; a core worker runs their handler and puts the answers into
the channels of the dispatcher, from which `conntectionWriteAnswer` writes. A channel
is added after the first command is in the buffer. A stop closes all channels, waits
until no connection is counted, and closes the buffer.

### What is hard

* Reader, writer, workers and `Stop` share channels, maps and locks, in an order that
  no test fixes: the first answer races with its back channel, two readers race to
  make the group of an index, a writer closes a channel that is still registered.
* A full back channel blocks a worker with a read lock in its hand, and the writer that would
  empty it writes to its socket without a deadline: a client that does not read can hold up others.
* The state that routing reads (group, auth, status) is written by another goroutine,
  after the answer is on the wire.
* `Stop` closes queues under the goroutines that use them; no panic is recovered.
* The connection data has a lock for the manager and one for each cell, and not every
  method takes the one that guards what it reads.
* The number of a task id is added in one atomic step and read in another.
* The prototype sends into bounded channels with the lock of its dispatcher in its hand,
  and closes them from two places.
* The dictionary has no lock across its parts; the statistic sends into a channel
  under a lock that its own shutdown needs.

`PROJECT.json` lists the hazards with their lines and the properties for them.

### What makes each part correct

* Pipeline: a command is answered at most once, on the connection that sent it; only
  known races drop an answer; a removed connection is out of reach; cleanup ends, and nobody
  waits in a circle; only a client that does not read holds up others.
* Routing: a call reaches a server that was registered, unless its group was replaced; a task has one client and one
  server; an acknowledged result is kept; the status seen by the router is the one the
  server asked for last.
* Connection data: no two connections have one id; a record is in the cell its cid names,
  as long as the connection lives; a map has one writer and no reader beside it.
* Task ids: a number is shared by overlapping calls at most.
* Prototype: a channel is closed once and never under a sender; nothing but the
  full channel of a client that is gone or does not read, or a stop with a full buffer, can
  hold everybody up.
* Dictionary: a key with one writer behaves as in a map; with several writers copies
  disappear, values do not.
* Statistic: nothing is sent on a closed channel, nothing is counted twice or lost, a
  sender is delayed but not blocked for good.

## 2. Modules

| Module | What it is |
|---|---|
| `Pipeline` | listener, readers, writers, workers, back-channel groups and their locks, `Stop`; panics end the process (`halt`) |
| `Delivery` | abstract: the phases of a command, from accepted to answered or lost |
| `PipelineProperties` | types, invariants, action and liveness properties of `Pipeline`, its inductive invariant, and the mapping to `Delivery` |
| `PipelineProofs`, `PipelineOnceProofs` | proofs of types and the safety properties, and of `AtMostOnce` and the refinement of `Delivery` |
| `Rpc` | what workers do with a command: auth, registration, status, calls, results; records of connections; cleanup |
| `RpcProperties`, `RpcProofs`, `RpcAnswerProofs` | its properties, proofs about its calls and tasks, and about its answers and states |
| `AsyncStrDict` | the dictionary, in steps as small as the lock of one part |
| `StrMap` | abstract: a map with calls that take effect inside their interval |
| `AsyncStrDictProperties`, `AsyncStrDictProofs` | its properties, the mapping to `StrMap`, its proofs |
| `Statistic`, `StatisticProperties`, `StatisticProofs` | the statistic |
| `ConnectionSupport` | ids, cells and locks of the connection data, and who calls them |
| `TaskIds` | the counter of task ids |
| `CallSupport` | both together: a worker looks at the status of a server and makes a task id |
| `CallSupportProperties`, `CallSupportProofs` | properties and proofs of `CallSupport` |
| `RlServer`, `RlServerProperties`, `RlServerProofs` | the prototype server |
| `MCPipeline`, `MCRpc`, `MCAsyncStrDict`, `MCStatistic`, `MCCallSupport`, `MCRlServer` | instances for TLC |

### Pipeline and the code

`reader`, `writer` and `worker` are places in `connectionReadProcessing`,
`connectionWriteProcessing` and `worker`; an action is the code from one place where
another goroutine can interfere to the next. `back[c]` is the buffered back channel,
`in` the queue. A group is named by the reader that allocated it, so that the
replacement of one group by another (`slot`, `made`) is visible; `chans` is its map,
`rlock` and `wlock` are its RWMutex. `Send` takes the read lock, sends, and unlocks:
two steps, as a full channel blocks it in between. The kinds of a command are all
that the pipeline can tell apart: a plain answer, one with state changes, an exit.
`written`, `dropped` and `unwritten` are histories for the properties. A worker has one
instruction to send here, the answer to the command it took; several, also for other
connections, are in `Rpc`. `CloseSocket` and `CloseBack` are steps of their own, so that the
cleanup of the reader may come between them.

A `Write` has no deadline. `Unread(c)` is a writer in `Write`, or before it, with its client
there; when the client does not read, it may stay so for good. `JammedAt(c)` is what comes of that:
a worker, or `Stop`, waits for room in the channel of such a client with the lock of the group.

### Rpc and the code

Connections write to each other here: a call of one puts an instruction into the back channel of
another. So the back channels have their capacity, `Send` is the lookup with the read lock and
then the channel send, and `slot`, `home` and `rlock` are the groups, which group a channel is
in, and the read locks; a reader has the write lock at "put" and "delete". A reader with an old
look at the slot replaces a group with the channels in it (`LookGroup`, `CreateGroup`), and a worker
may wait, with a group locked, for a connection whose command it does not handle (`JammedAt`, as
in `Pipeline`). Only `instructionsChannel` is without a bound: that the readers wait for
it is the matter of `Pipeline`, and so is `Stop`. `worker[w]` is the
handler a worker is in. A handler is one step where the code does one thing that
others see, and several where they can come in between: registration publishes the
names of the methods before the servers behind them (`RegisterClientMethods`,
`AppendMethods`); routing reads the servers, then the status of one after the other
(`GetCidVariants`, `SkipBusy`, `ProcRouteRpc`). Commands are `<<type, parameter>>`;
a server that registers has all the methods; a token is good or bad; a task id is a
fresh number; status 3 stands for all that the code gives no meaning, `Nobody` for what is no number. Calls of the statistic are left out.

### ConnectionSupport, TaskIds and the code

`index` and `total` are the counters of the manager, `mlock` its lock, `cells` the
places of its storage that are not nil; `data[g]` is the set of ids in the map of a
cell and `wlock`, `rlock` its lock. What a record says is in `Rpc`. `GroupIndex` and
`Clamped` are the arithmetic of `NewConnection`. A use of a map takes two steps, so that
two uses without a common lock overlap, which Go reports as a concurrent map access and
ends the process. The reader's part of a connection's life is `NewConnection`, `create`,
the look at the group in the cleanup, the back channel with the same index, and
`Remove`; its writer does `UpdateState`; a worker does `IsAuth`, `ClientInGroup` or
`ClientBusy` for any connection whose cid is known, also one that has gone. `total` never goes
down, as in the code. In `TaskIds` the two steps of `CreateTaskId` are the atomic add and
the load; the random part of an id may be equal for any two. `CallSupport` lets a worker
that found a server free go on to the task id (`ProcRouteRpc`).

### RlServer and the code

`handler[c]` is the place of `connectionHandler`, `context[c]` the temporary key, auth and
group of its `ConnectionContext`, `info[c]` whether the connection is counted;
`worker`, `caster` and `writer` are the places of `coreWorker`, `serviceBroadcasting` and
`conntectionWriteAnswer`, `main` that of `Run` and its stop. `chans` is the map of the
dispatcher, `dlock` its write lock, and `Readers` who is in the map under the read
lock, or like `RemoveChannel` deletes there. A listener accepts a
connection (`ListenerAccept`) and counts it (`Count`) in two steps, between which the stop may close
the buffer; `late` is who was counted after the stop. `Put` and `PutAll` take the lock and send to one
channel after the other in steps of their own, as each send may block. `methods` and `busy` are
`ServerMethods` for one method and `ServerBusyAccounting`. Handlers of `protocol.go` are
one step of the worker: they change only their own tables. The key of a request is
checked until it has auth, and omitted after that, as in the code. A client uses the cid it was
offered: this is an assumption on clients, which the code does not check (`protocol.go:219`), so that
a channel replaced by that of another connection, and the empty message that ends it, are left out. One stop signal arrives. Connections in `Early` have been accepted and have
sent their client data when the model starts.

### AsyncStrDict and the code

`pool` is the content of the parts, `seek` the counter. The method `getSeek` is three
steps (load, reset, add), as it is three atomic operations. A client is in one
method at a time; `i` is its loop counter and `at` the part it decided on.
`StrMap` lets `Size` return up to `MaxSize`, here every key once in each part.

### Statistic and the code

The read lock of `SendMsg` is `readers`; `writing` is a pending or held `Lock()` and
keeps new readers out, as Go's RWMutex does. A full channel disables `Push`.
Values are integers: the code has `float32` (`statistic.go:15`), whose rounding is not modelled, so
that `Counted` speaks of which messages are counted and not of the precision of the sum.
Printing and the calc handlers, of which the server sets none, are left out.

## 3. Runs

`tlc -config <run>.cfg <module>`. Times are of two TLC workers on a small machine.

| Run | Instance | Checks | Shows | States |
|---|---|---|---|---|
| `pl_safety` | 2 connections of one group that may leave, 2 workers, 2 commands with state changes of one and a plain one of the other, buffer 1 | `OnlyFirstDropped`, `RemovedUnreachable`, `AtMostOnce`, `RestsOnlyDone` | what may be dropped, what a removal guarantees, no second answer; nobody waits in a circle, and nothing is left undone but what a client that does not read holds up | 0.8 M |
| `pl_stop` | 2 connections of one group that stay, a plain command of one and an exit of the other, 1 worker, buffer 1, 2 signals | `TypeOK`, `StopNotifies`, `ImplementsDelivery` | every panic and every step of `Stop`; an exit reaches every connection of a group; the refinement, up to every panic | 0.8 M |
| `pl_live` | 2 connections of one group, 3 plain commands of one that stays and an exit of the other, which may leave, 1 worker, buffer 1, fair, nobody has to read | `RestsOnlyDone`, `LaterAnswered`, `CleanupEnds` | commands after the first are answered and a reader gets through its cleanup, and leaves no answer behind, unless a client stops reading for good; that 3 commands are enough to hold up the worker, and nothing worse | 0.3 M |
| `d_map` | 2 clients, 2 keys with one writer each, 4 parts, all methods but SetUnsafe | `OneWriterOneCopy`, `ImplementsStrMap` | a key with one writer is in one place, and the dictionary is a map | 0.8 M |
| `d_shared` | 3 clients set one key, 2 parts | `TypeOK`, `SeekBound`, `SetHeals`, `NeverVanishes` | the counter stays near its limit, copies are removed, the last one never | 0.6 M |
| `st_full` | 2 senders, a channel of one place, a `Close` at any time, fair | `TypeOK`, `NoSendOnClosed`, `Counted`, `SendReturns`, `CloseStopsWithRoom` | locking, counting, who is delayed and when a close ends | 42 k |
| `r_route` | a client and a server of one group, 2 workers, channels of 1; the server sends 3 commands, is busy, registers as a client too, may leave; the client calls, fails in its auth, or returns a result without a task | `TypeOK`, `LostOnlyGone`, `NoneForgotten`, `AnswersAwaited`, `ResultKept`, `StatusSettles` | when a call is lost, that answers match commands, that none is forgotten, which status counts | 1.8 M |
| `r_live` | 2 servers of one group, of which one calls too, and the other exits or asks for a status that is none, 1 worker, channels of 1, fair, nobody has to read | `TaskRouting`, `TaskReachesServer` | whose task is whose; a routed task reaches its server, unless it leaves or is cut off with its group, or somebody stops reading for good | 0.12 M |
| `cs_ids` | 3 connections, 2 workers, groups of 2, 2 groups, 3 calls | `TypeOK`, `UniqueIds`, `RecordsOfLiving`, `OnlyUpdateRaces`, `GroupsFill`, `TaskIdsApart` | ids, cells, which use of a map races, what the last group is for, and which task numbers may be equal | 1.1 M |
| `proto` | a server and a service of the prototype, 1 core worker, a registration, and a call or an unknown command, buffers of 1, a stop | `TypeOK`, `ChannelInv`, `MapInv`, `ClosedLate`, `HangsOnlyStuck` | whose channel is open, which delete races, who meets the closed buffer, and all that hangs | 1.7 M |
| `st_stuck` | as `st_full` | `CloseStops`, violated | a shutdown on a full channel never ends | |
| `r_record` | one connection that leaves | `StateToUpdate`, violated | an update of a record that is gone | |

Every property of a passing run is paired, in `PROJECT.json`, with a mutated
definition (`Mut...` in the modules) that breaks it.

### Bounds

* Connections: 2 (3 in `cs_ids`). The races are between a connection's own two goroutines, a
  worker and `Stop`, or between two readers of a group; a third connection repeats them.
  In `cs_ids` the third one begins a second group, the last.
* Workers: 2 where a shared lock matters or two handlers may overlap, else 1.
* Buffers of 1 are full as soon as they are used.
* `MaxCmds` 2 has a first command, which races with its back channel, and a later one,
  which must not. A server needs 3: auth, registration, and a result or a status.
* `MaxSignals` 2: the second signal meets the closed channels. `MaxTasks`, `MaxCalls` and
  `MaxMsgs` bound histories; `GroupSize` and `GroupCount` 2 (100 and 1000 in the code)
  reach the last group and the index out of range. `Leaving` says whose peer may break a
  connection, `Kinds` what the commands of each ask for. In `pl_stop` nobody leaves: the stop meets
  every place of readers, writers and worker, and exits still end connections.
* `Parts` is even and small (2 or 4, 64 in the code): the middle-out order of `Get` and the
  limits of the counter appear with 2 and 4.
* The symmetric sets (workers; connections in `cs_ids`; clients of a shared key) are used
  for safety and action properties only.

`CHECK_DEADLOCK FALSE` is in the Statistic configurations, where the goroutines really
can block for good, in `cs_ids`, where connections and calls are bounded and a panic
ends the process, and in `proto`, where `Run` returns after a stop: there `HangsOnlyStuck`
is the exact account of every standstill. It speaks of who is free to go on by the guards
they wait at (`CanGo`). `RestsOnlyDone` (Pipeline), `NoneForgotten` (Rpc) and the theorem `HangsOnlyFull`
(Statistic) are stated by guards in the same way. In the other runs `Quiet` names the states where
everybody waits for clients, so that any other standstill is reported. TLC does not report a
writer that an unread `Write` holds up, as the client may always read on: the states in which
nobody but such writers could go on are those of `Jammed`, `Unread` and `Dead` in these properties.

### Fairness

Weak fairness for each reader, writer, worker and the main goroutine: Go runs every
goroutine that can run, and its RWMutex hands over. Nothing is assumed of clients: they may send
nothing, leave at any time, and stop reading. So the `Write` of a writer to a client that is there
has no fairness (`~Unread(c) /\ Writer(c)`): the code sets no deadline on it
(`connectionserver.go:83`, `:98`), and TCP keeps a connection whose peer acknowledges its probes. A
writer whose peer is gone gets its error and goes on. `SendReturns` and `CloseStopsWithRoom` assume that a sender goes
on once it is in `SendMsg`, not that anybody calls it.

`LaterAnswered`, `CleanupEnds` and `TaskReachesServer` are a leads-to for each command, connection
or task, or else `<>[]` of a client that does not read: one that from some time on is
always in `Unread` or holds up a `Send`. A client that reads again, however late, is no excuse. For
`CleanupEnds` it has to be in the group of the reader. In `pl_live` and `r_live` these excuses happen: without
`Jammed` each of the three properties is violated, by the hold-up that the code allows.

## 4. Proofs

All with TLAPS (SMT, Zenon, LS4), `tlapm <module>.tla`; no part is omitted. Assumptions are
the named `ASSUME`s of the modules (`PipelineAssumption`, `RpcAssumption`,
`DictAssumption`, `StatAssumption`, `SupportAssumption`, `CallAssumption`, `RlAssumption`): types of the constants, a positive capacity,
finite sets where a count is taken (clients and keys of the dictionary, the workers that make task
ids), and that `Nobody`, `Main`, `Cast` and
`NoValue` are no connection, worker or value. Numbers of connections, workers, groups, keys, and the
bounds are arbitrary.

| Module | Theorem | States |
|---|---|---|
| `PipelineProofs` | `TypeCorrect`, `PipelineInvariant` | `[]TypeOK`, `[]PipelineInv` |
| | `LaterNotDropped`, `RemoveIsBarrier` | `[]OnlyFirstDropped`, `[]RemovedUnreachable` |
| | `GroupNotified` | `StopNotifies` |
| `PipelineOnceProofs` | `AnsweredOnce` | `[]AtMostOnce` |
| | `NoCircularWait` | `[]RestsOnlyDone` |
| | `PipelineImplementsDelivery` | `ImplementsDelivery` |
| `RpcProofs` | `TypeCorrect`, `ServersHaveChannels` | `[]TypeOK`, `[]ServerInv` |
| | `CallsReachRegistered` | `[]LostOnlyGone` |
| | `TasksRouted`, `ResultsKept` | `[]TaskRouting`, `[]ResultKept` |
| `RpcAnswerProofs` | `AnswersOnce` | `[]AnswersAwaited` |
| | `NothingForgotten` | `[]NoneForgotten` |
| | `StatusOfLast` | `[]StatusSettles`, if clients wait for their answers (`Lockstep`) |
| `AsyncStrDictProofs` | `TypeCorrect`, `SeekBounded`, `KeysStay` | `[]TypeOK`, `[]SeekBound`, `NeverVanishes` |
| | `SoleWriterOneCopy`, `AloneSetHeals` | `[]OneWriterOneCopy`, `SetHeals` |
| | `DictIsMap` | `ImplementsStrMap`, if every key has one writer at most and nobody calls `SetUnsafe` |
| `StatisticProofs` | `TypeCorrect`, `LockHolds`, `SendIsSafe` | `[]TypeOK`, `[]LockInv`, `[]NoSendOnClosed` |
| | `EachMessageCounts` | `[]Counted` |
| | `HangsOnlyFull` | `[](CanGo \/ AtRest \/ Stuck)` |
| `CallSupportProofs` | `TypeCorrect`, `IdsUnique` | `[]TypeOK`, `[]UniqueIds` |
| | `RecordsFollow`, `MapsGuarded` | `[]RecordsOfLiving`, `[]OnlyUpdateRaces` |
| | `GroupsBounded`, `TaskNumbersApart` | `[]GroupsFill`, `[]TaskIdsApart` |
| `RlServerProofs` | `TypeCorrect`, `ChannelsKept` | `[]TypeOK`, `[]ChannelInv` |
| | `MapGuarded`, `BufferClosedLate` | `[]MapInv`, `[]ClosedLate` |
| | `HangsClassified` | `[]HangsOnlyStuck` |

**Pipeline.** `OnlyFirstDropped` and `RemovedUnreachable` are not inductive. `PipelineInv`
adds why they hold: a reader that goes on to a second command has added its
channel (`CommandInv`); a group is made once by a reader of its index and the index is
never nil again (`SlotInv`); who is in a critical section of a group holds its lock
and uses a channel in its map (`LockInv`); the map has a connection exactly between
`AppendBackChannel` and `RemoveBackChannel`, unless a group was replaced by the
creation race (`RegistryInv`). Removal takes the write lock, so no reader of the lock
has the channel in its hand afterwards. `StopNotifies` needs one more invariant, `ExitSent`:
while `SendExit` has the lock, each channel of the group has its exit on its way or is still to
be sent to; what is on its way stays so, and the lock keeps the map of the group as it is.

`OnceInv` (`PipelineOnceProofs`) says where commands are: each one is with its client, in
`instructionsChannel`, with a worker, in a back channel, with a writer, written, dropped or
unwritten, in exactly one of these (`OnePlace`), and no place has two copies of it. There is a
lemma for each step that moves a command (`ProcessingMoves`, `WorkerTakeMoves`, ...) and
one frame lemma per goroutine for the steps that move none (`AllSame`). `AtMostOnce` follows at once. The
phase of a command is read off its place, so the same lemmas show that every
step is one of the moves of `Delivery` or a stutter; that commands are accepted in the order
sent holds because the ids that are still new are those above the count of the reader.

`RestsOnlyDone` is the absence of deadlock, for any number of groups and workers (at least
one) and any size of the channels: if no guard lets a goroutine go on, and no client that does not read
holds up a send (`Jammed`), every lock is free, no
instruction is queued and every command has its answer, or its client is gone or does not read, or its group was lost, or
it is a first one that was dropped. Whoever waits for a lock waits for its holder (`LockHeld`); a holder in its
critical section waits only for room in a back channel that has a writer (`ChannelStarted`), and
that writer either has something to take, or is in `Unread`, which is `Jammed` when the channel is full, or it
ended and closed the channel, so that the send panics and does not wait. So nobody has a lock (`NobodyHolds`), main waits for a signal (`MainWaits`, from
`StopOrder`), readers are gone or read (`ReadersWait`), and commands are nowhere on their way
(`NobodyWaits`). The places of `OnceInv` then leave to a command only "answered", "dropped" or
"unwritten", and the last only if the socket is no longer open (`SocketInv`).

**Rpc.** A lost call was for a server past its cleanup, or whose group was replaced. A server is a
candidate only if it is in the methods, gets there only with its auth in the record, the record is
written by its writer, and a writer runs only after its channel was put in a group. `ServerInv` says
this of every place between the record and the queue of the worker. The channel, once there,
can only go to "removed", or its group can lose the slot: `GroupInv` says that a group is named by the reader
that made it, and a reader makes one once, so that no slot goes back to a group it had and a
`Replaced` server stays so.

`TaskRouting` and `ResultKept` are about what connections have seen, and hold because of what is
still on its way. `TaskInv` follows a task through both: the server that has it or will
(`Target`) is one, since a new task has a number above all others; the client that is or will be
told of it (`Told`) is its direction, which nobody changes later; a result that is or will be
acknowledged (`Acked`) is in the buffer. The last needs that a result is only of a task that
was made, so that it has a direction, and that no record has the group of web-sockets, which
registration refuses: otherwise the result would be pushed and not kept.

`AnswersAwaited` (`RpcAnswerProofs`) is a count: the commands of a connection that are in the queue,
with a worker, or answered in its back channel (`Pending`) are no more than the answers its peer
waits for (`Enough`). Pushed calls and results are in the same channel and do not count; each
worker answers first and pushes afterwards (`RepliesInv`). No step computes a cardinality: a step
that moves a command is an injection of the places taken after it into those taken before
(`Injects`), so that one library fact about injections does it for all. For `StatusSettles` the same count
leaves a client in lockstep one pending command; that one is the last that asked for a status,
and what it asked for is with a worker, in the answer, with the writer or in the record (`StatusFor`).
Without `Lockstep` two workers may answer in either order, and the property is not claimed.

`NoneForgotten` is the other half of this: nothing is skipped when a worker fails to send one of its
instructions. Of tasks, `TasksPlaced` says that each one is given to its server, on its way, or lost with a
server that was gone or cut off. Of commands, `Covered` is the count in the other direction, with the injections
reversed: the peer waits for no more answers than there are pending commands, unless its connection
ended or its answer found no channel (`Deprived`). The cleanup
of a channel and the end of its writer come after the end of the connection (`RestInv`), so that an
answer in the channel is taken or is nobody's.

At rest is to be shown as well, as workers and readers wait for each other here. Who has a read lock is at
the channel send (`RestInv`), to a channel with a writer (`SendsOpen`): it waits for room only, so the
channel is full and its writer, who does not go on, is in `Unread`. That is `Jammed`. If nobody is jammed there is no read
lock, so no reader waits for one with the write lock, so nobody waits for a write lock: workers
are idle and readers gone or reading (`AtRest`). Then `Pending` has only what is in the channels of
those that do not read.

**AsyncStrDict.** `SeekBound` needs `BumpInv`: each client between its look at the counter
and its add accounts for one step above the limit. `NeverVanishes` needs `DedupInv`: the copy
that a `Set` removes is never the last one it knows of. `OneWriterOneCopy` needs `SoleInv`: on its
way down the only writer of a key knows that no part above its counter has it, or that no part
but the one it found. `SetHeals` needs the same of a client that is alone, without the single writer
(`Swept`): what is below its counter is still to come, all else it has removed, but one.

`ImplementsStrMap` is proved by a step simulation. The value of a key is that of its only copy, and a
key moves from one part to another only by way of none (`CopyStaysOrGoes`): so a `Get` or `Delete`
that has not found it yet either has it still in front, in the order of its probes, or
the key was without a value during the call (`SeenInv`). `Store`, the last probe of `Get` and
`Delete`, and every part of `Clear` and `Size` are the steps of the map; the others stutter, as they
leave the values, and with them the history `seen`, alone. `Size` returns at most the number of keys
for each part (`SizeInv`): one key may be counted in two parts if it moves in between.

**Statistic.** `LockInv`: who passed the test of `active` holds the read lock; `stop` waits
for it and the close follows `stop`. `Counted` is about a sum over the channel, a recursive function.
The sums are carried from step to step (`Balanced`: some function adds up the channel, and
balances the items), so that a step only appends to them or drops the first. That this function
is the one `Counted` means is shown by the least place where the two would differ
(`BufferedIsSum`, with `WFMin` of the library). `HangsOnlyFull` follows from `LockInv`
and `StopInv` (the lock is pending or held exactly at the stop; the one value of `Close` is in one
place): when nobody can go on, all is at rest, or it is the `Stuck` that `st_stuck` shows.

**CallSupport.** `SupportInv` adds to the four properties the locks (`LockInv`: who counts, or
writes a map, has the lock for it, and readers of a cell and its writer exclude each
other) and `IdInv`: an id is at most `index`, but for the connection that has the
lock of the manager, whose id is the next. That `GroupIndex` names a place of the storage for
every number is the lemma `CellInGroups`. `GroupsFill`: ids are numbers of the count (`NumInv`), and those that
fall into a group but the last are within an interval of `GroupSize` numbers. `TaskIdsApart`:
the ids can be given to workers so that those of one worker grow (`IssuedTo`); then the ids
of one number belong to different workers.

**RlServer.** `ServerInv` has the places of the goroutines, the lock (`MapInv`: who sends has
it, and nobody reads the map then) and `ChannelPlaces`: who sends does so to a channel that is
in the dispatcher, and a connection has no channel, open or closed, before it adds one.
`StopInv` orders the close of the buffer after the stop, with `Run` having seen no counted
connection: so who is counted when it is closed was counted after the stop (`ClosedLate`), also if it was accepted before. `DataInv` has the types of messages, buffers, contexts and answers,
in parts of which a step disturbs one or two.

`HangsOnlyStuck` follows from these, and `SocketInv` (a handler that reads or puts has its socket; a
writer ends only with its client or an empty command). If nobody is free, and somebody has the
lock of the dispatcher, it is a send to a full channel whose writer ended, or is in an unread `Write` (`LockedIsStuck`).
If the lock is free, nobody waits for it, so that only handlers in `Put` can wait: for workers that
are all done (`UnlockedIsIdle`).

Only model-checked: the liveness properties (`LaterAnswered`, `CleanupEnds`, `TaskReachesServer`,
`SendReturns`, `CloseStopsWithRoom`), as fairness is out of the prover's reach. Every other property of a passing run is a theorem. What the liveness properties rest on is proved as
safety: `HangsOnlyStuck`, `NoCircularWait`, `NothingForgotten` and `HangsOnlyFull` say of every
instance that a state where nobody can go on has nothing left to do, or is one of the hangs
section 5 names. "Can go on" is written as the guards of the actions, not with ENABLED; the
guards of Rpc leave out the bounds of the model but name the same waits. Induction over an operator is
out of reach too; where a recursive function had to be reasoned about (`Counted`), a least
counterexample takes its place.

## 5. Where code and claims differ

Shown by a run:

* `st_stuck`: `SendMsg` waits for room in `messages` with the read lock; if `statProcessing` took
  the close first, its `stop()` waits for the write lock and nobody empties the
  channel (`statistic.go:164-171`, `260-264`).
* `r_record`: `UpdateState` takes the record of a connection out of a map without a test; the
  reader may have removed it after the answer was written
  (`connectionsupport.go:254-270`), and the nil pointer ends the process.

Met while modelling, and part of the models' behaviour, without a run of their own:

* the answer to the first command of a connection can be dropped, after which a client
  that waits for it waits forever (`OnlyFirstDropped` is exact about it);
* a client that stays and does not read holds up its writer in `Write`, which has no deadline
  (`connectionserver.go:83`, `:98`); its back channel fills, and the worker that sends to it waits with the
  read lock of the group (`coresupport.go:80-84`): the commands that this worker would take, and readers that
  add or remove a channel of the group, wait as long (`Jammed` in `RestsOnlyDone`, `LaterAnswered`, `CleanupEnds`,
  `NoneForgotten` and `TaskReachesServer`);
* two readers that find no group for an index make one each, and the second takes the place of the first
  with the channels in it (`coresupport.go:185-187`): answers to a connection of the first, and calls to a server that is still
  there and registered, are dropped (`GroupLost`, and `Replaced` in `LostOnlyGone` and `CutOff`);
* a server that leaves before its writer has set the group stays in the methods
  (`connectionserver.go:190-195`), and calls to it are lost (`LostOnlyGone`);
* two concurrent `Set` of a new key leave it in two parts; a `Get` that scans the
  parts while copies are removed can miss a key that always had a value. `SetHeals` and
  `NeverVanishes` say what does hold;
* group 1000 has no place in `outChannels`: after 99,900 connections, gone ones
  included, the next one ends the process (`GroupsFill`);
* `UpdateState` looks a record up without the lock of its cell, beside `create` and `Remove`
  of others: a concurrent map access (`OnlyUpdateRaces`);
* in the prototype, the comment at `rlserver.go:465` leaves the close of a channel to the
  dispatcher, which closes it only at the end of the input: a writer that ended after a write
  error or an empty command leaves its channel behind, and a `Write` to a client that does not read
  has no deadline (`rlserver.go:336`): once such a channel is full, `Put` waits with
  the lock of the dispatcher, and everybody with it; at a stop the workers may end before a
  handler has room for its message (both are the `Stuck` of `HangsOnlyStuck`);
* in the prototype, a message of a client without a group ends the process (`WorkerUnknownGroup`), a
  delete under the read lock meets another use of the map (`MapInv`), and a connection
  counted after the stop, which may have been accepted before it, meets the closed buffer (`ClosedLate`); a second signal is sent on
  the closed `signalChannel` (not modelled);
* no handler is registered for `getresult`, which the Python client polls with
  (`NoHandler`);
* a writer and a reader both take back the count of a connection (not modelled).

## 6. Not modelled, and the plan

Not modelled:

* encoding, crypto, configuration, logging, file and random helpers, test scripts: pure functions and I/O;
* the rounding of the `float32` sums of the statistic; the texts of answers; `ProcPing`, which changes no state;
* `Inc`, `Dec` and `Clear` of a cell, which only tests call;
* of the prototype: the goroutine of `RlStatistic`, which nobody reads, and the web socket
  server, which handles nothing; its Python client package;
* the worker pool and the connection loop of the Python server library: the loop ends in
  TODOs (`server.py:236-240`), so that no command ever comes to the pool or to its
  queues, and `WorkerPool.stop` makes coroutines that nobody runs. A model would be of a
  program that is not written yet;
* the polling loop of `RpcClient.call`: it sends `getresult`, which has no handler on the
  server (section 5), so that its first answer is an error. `Rpc` has that command, and its proofs are for any commands.

Done: the pipeline, routing, dictionary, statistic, connection data, task ids and the
prototype, and, as safety, what the leads-to properties rest on. Left, in this order:

1. an abstract life of a task (called, given, returned, kept) refined by `Rpc`;
2. the Python worker pool, once its connection loop exists.
