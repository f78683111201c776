--------------------------------- MODULE Rpc ---------------------------------
(***************************************************************************)
(* Routing of remote calls: what the workers do with a command             *)
(* (coremethods.go, coreprocessing.go), the state of the connections it    *)
(* reads and changes (connectionsupport.go), and the parts of the reader   *)
(* and the writer of a connection that do the same (connectionserver.go).  *)
(* RPC servers are connections too: they register methods, and get the     *)
(* calls of other connections, so a worker may wait here, with a group     *)
(* locked, for a connection whose command it is not handling.  The look at *)
(* outChannels and the lock that follows are one step.  Only               *)
(* instructionsChannel has no bound here: Pipeline has its wait for room.  *)
(***************************************************************************)
EXTENDS Integers, Sequences, FiniteSets

CONSTANTS
    Conns,
    Workers,
    Groups,     \* indexes of outChannels in use
    GroupOf,    \* connData.index of each connection
    BufferSize, \* option.BufferSize: capacity of the back channels
    Methods,  \* names of remote methods, none of them a command of the protocol
    Commands, \* what each connection may send, see AllCommands
    MaxCmds,  \* bound: commands on each connection
    MaxTasks, \* bound: calls that are routed
    Leaving,  \* bound: connections whose peer may break them
    Lockstep, \* clients wait for the answer before the next command
    Nobody    \* no connection, no task id, no record, no change

GroupConnectionServer == 1
GroupConnectionClient == 2
GroupConnectionWsClient == 3
ClientStatusActive == 1
ClientStatusBusy == 2

Tasks == 1..MaxTasks

\* A command has a type, chosen by the reader from its method, and the parameter that
\* matters: the group, the status, the task, the method.  A status is any 16-bit number, of
\* which 3 stands for all that mean nothing, or no number; a "badauth" has a token that
\* does not check.  An "external" names a registered method, a "skip" an unknown one; a server that
\* registers has all the methods.
AllCommands ==
    ({"auth", "badauth", "exit"} \X {Nobody}) \cup ({"reg"} \X (1..4))
    \cup ({"status"} \X ((1..3) \cup {Nobody}))
    \cup ({"result", "getresult"} \X (Tasks \cup {Nobody})) \cup ({"call"} \X Methods)

ASSUME RpcAssumption ==
    /\ Commands \in [Conns -> SUBSET AllCommands]
    /\ MaxCmds \in [Conns -> Nat] /\ MaxTasks \in Nat /\ Lockstep \in BOOLEAN
    /\ Leaving \subseteq Conns /\ Nobody \notin Conns \cup Nat
    /\ GroupOf \in [Conns -> Groups] /\ BufferSize \in Nat \ {0}

VARIABLES
    reader,    \* place of connectionReadProcessing
    sock,      \* "none", "open", "broken" by the peer or "closed" by the server
    sent,      \* commands read from each connection
    waiting,   \* of them, those without an answer
    state,     \* ClientStateData of each connection, Nobody without one
    chan,      \* its back channel: "none", "open" (put in a group) or "removed" from it
    slot,      \* outChannels: the group of each index by the reader that made it, or Nobody
    home,      \* the group its back channel is put in, Nobody before
    out,       \* content of the back channel
    writer,    \* place of connectionWriteProcessing
    cur,       \* newInstruction of each writer
    in,        \* instructionsChannel
    worker,    \* place of each worker in Execute, or "send"
    job,       \* its instruction
    cand,      \* the servers ProcRouteRpc has not looked at
    outs,      \* instructions it has to send
    rlock,     \* the group it has the read lock of, for the send to a channel, or Nobody
    known,     \* MethodInstructionDict: methods of type External
    methods,   \* RpcServerManager.methods
    tasks,     \* TaskIdGenerator.index
    direction, \* ResultDirectionDict
    buffer,    \* ResultBufferDict: tasks that have a result
    given,     \* history: tasks each server got
    told,      \* history: tasks each client was told of
    acked,     \* history: tasks whose result was acknowledged
    lost,      \* history: what a Send found no channel for
    last,      \* history: the last status each server asked for
    halt       \* "no" or the cause of a panic

conn == <<reader, sock, sent>>
line == <<chan, slot, home, out>>
task == <<tasks, direction, buffer>>
registry == <<known, methods>>
work == <<worker, job, cand, outs, rlock>>
hist == <<given, told, acked>>
vars == <<conn, waiting, state, line, writer, cur, in, work, registry, task, hist, lost,
          last, halt>>

NoChange == <<"none", 0>>
Changes ==
    {NoChange} \cup ({"auth"} \X BOOLEAN) \cup ({"group"} \X {1, 2}) \cup ({"status"} \X (1..3))

\* An instruction on its way out: an answer, or a command for a server ("execute")
\* or for a web-socket client ("result"), with its StateChanges and its task.
Out(to, type, change, t) == [to |-> to, type |-> type, change |-> change, task |-> t]
Ok(w, change, t) == Out(job[w].cid, "ok", change, t)
Problem(w, change) == Out(job[w].cid, "problem", change, Nobody)

newClientStateData == [auth |-> FALSE, group |-> 0, status |-> 0]

\* ConnectionStateChecker: without a record the answer is no.
IsAuth(c) == state[c] # Nobody /\ state[c].auth
ClientInGroup(c, g) == state[c] # Nobody /\ state[c].group = g
ClientBusy(c) == state[c] # Nobody /\ state[c].status = ClientStatusBusy

\* StateChanges.update
Updated(s, change) ==
    CASE change[1] = "auth" -> [s EXCEPT !.auth = change[2]]
      [] change[1] = "group" -> [s EXCEPT !.group = change[2]]
      [] change[1] = "status" -> [s EXCEPT !.status = change[2]]
      [] OTHER -> s

Init ==
    /\ reader = [c \in Conns |-> "none"] /\ sock = [c \in Conns |-> "none"]
    /\ sent = [c \in Conns |-> 0] /\ waiting = [c \in Conns |-> 0]
    /\ state = [c \in Conns |-> Nobody]
    /\ chan = [c \in Conns |-> "none"] /\ out = [c \in Conns |-> <<>>]
    /\ slot = [g \in Groups |-> Nobody] /\ home = [c \in Conns |-> Nobody]
    /\ writer = [c \in Conns |-> "none"] /\ cur = [c \in Conns |-> Nobody]
    /\ in = <<>>
    /\ worker = [w \in Workers |-> "idle"] /\ job = [w \in Workers |-> Nobody]
    /\ cand = [w \in Workers |-> {}] /\ outs = [w \in Workers |-> <<>>]
    /\ rlock = [w \in Workers |-> Nobody]
    /\ known = {} /\ methods = [m \in Methods |-> {}]
    /\ tasks = 0 /\ direction = [t \in Tasks |-> Nobody] /\ buffer = {}
    /\ given = [c \in Conns |-> {}] /\ told = [c \in Conns |-> {}] /\ acked = {}
    /\ lost = {} /\ last = [c \in Conns |-> 0]
    /\ halt = "no"

-----------------------------------------------------------------------------
\* connectionReadProcessing

Goto(c, from, to) ==
    /\ reader[c] = from
    /\ reader' = [reader EXCEPT ![c] = to]

NewConnection(c) ==
    /\ Goto(c, "none", "read")
    /\ sock' = [sock EXCEPT ![c] = "open"]
    /\ state' = [state EXCEPT ![c] = newClientStateData]
    /\ UNCHANGED <<sent, waiting, in, line, writer, methods, last>>

\* MethodInstructionDict.Get: what a method is by now.
MutTypeOf(k) == IF k[1] # "call" THEN k[1] ELSE "external" \* also for unknown methods
TypeOf(k) ==
    IF k[1] # "call" THEN k[1] ELSE IF k[2] \in known THEN "external" ELSE "skip"

\* Processing of a command the client sent.  A server returns results of tasks it
\* got, a client asks for results of tasks it was told of.
Processing(c, k) ==
    /\ sent[c] < MaxCmds[c] /\ (Lockstep => waiting[c] = 0)
    /\ k[1] = "result" => k[2] \in given[c] \cup {Nobody}
    /\ k[1] = "getresult" => k[2] \in told[c]
    /\ Goto(c, "read", IF chan[c] = "none" THEN "back" ELSE "read")
    /\ sent' = [sent EXCEPT ![c] = @ + 1] /\ waiting' = [waiting EXCEPT ![c] = @ + 1]
    /\ in' = Append(in, [cid |-> c, type |-> TypeOf(k), arg |-> k[2]])
    /\ last' = CASE k[1] = "status" /\ k[2] # Nobody -> [last EXCEPT ![c] = k[2]]
                 [] k[1] = "result" -> [last EXCEPT ![c] = ClientStatusActive]
                 [] OTHER -> last
    /\ UNCHANGED <<sock, state, line, writer, methods>>

\* The group named by the index of c, and a lock on group o that a reader has asked for
\* or has, which keeps out those who ask later.
Slot(c) == slot[GroupOf[c]]
Locked(o) == \E c \in Conns : reader[c] \in {"put", "delete"} /\ home[c] = o
Unlock(o) == \A w \in Workers : rlock[w] # o \* its readers are out
Reachable(c) == chan[c] = "open" /\ home[c] = Slot(c)

\* AppendBackChannel, with the first command in the queue already: a look at the slot ...
LookGroup(c) ==
    /\ Goto(c, "back", IF Slot(c) = Nobody THEN "create" ELSE "append")
    /\ UNCHANGED <<sock, sent, waiting, state, line, writer, in, methods, last>>

\* ... that may be old when the new group takes the place of another, channels and all ...
CreateGroup(c) ==
    /\ Goto(c, "create", "append")
    /\ slot' = [slot EXCEPT ![GroupOf[c]] = c]
    /\ UNCHANGED <<sock, sent, waiting, state, chan, home, out, writer, in, methods, last>>

\* ... exists() and the Lock(true) of put() on the group that is there by now ...
AppendBackChannel(c) ==
    /\ ~Locked(Slot(c))
    /\ Goto(c, "append", "put")
    /\ home' = [home EXCEPT ![c] = Slot(c)]
    /\ UNCHANGED <<sock, sent, waiting, state, chan, slot, out, writer, in, methods, last>>

\* ... and put.  The writer was started before, and until now had nobody to wait for.
Put(c) ==
    /\ Unlock(home[c])
    /\ Goto(c, "put", "read")
    /\ chan' = [chan EXCEPT ![c] = "open"]
    /\ writer' = [writer EXCEPT ![c] = "recv"]
    /\ UNCHANGED <<sock, sent, waiting, state, slot, home, out, in, methods, last>>

PeerBreak(c) ==
    /\ c \in Leaving /\ sock[c] = "open"
    /\ sock' = [sock EXCEPT ![c] = "broken"]
    /\ UNCHANGED <<reader, sent, waiting, state, line, writer, in, methods, last>>

\* ReadLine failed: is it a server that has to leave the methods?
ReadError(c) ==
    /\ sock[c] \in {"broken", "closed"}
    /\ Goto(c, "read", IF ClientInGroup(c, GroupConnectionServer) THEN "methods" ELSE "channel")
    /\ UNCHANGED <<sock, sent, waiting, state, line, writer, in, methods, last>>

Remove(c) == [m \in Methods |-> methods[m] \ {c}]

LeaveServers(c) ==
    /\ Goto(c, "methods", "channel")
    /\ methods' = Remove(c)
    /\ UNCHANGED <<sock, sent, waiting, state, line, writer, in, last>>

\* exists() and the Lock(true) of Remove: only in the group that the slot has now.
RemoveBackChannel(c) ==
    /\ Slot(c) # Nobody => ~Locked(Slot(c))
    /\ Goto(c, "channel", IF Reachable(c) THEN "delete" ELSE "record")
    /\ UNCHANGED <<sock, sent, waiting, state, line, writer, in, methods, last>>

Delete(c) ==
    /\ Unlock(home[c])
    /\ Goto(c, "delete", "record")
    /\ chan' = [chan EXCEPT ![c] = "removed"]
    /\ UNCHANGED <<sock, sent, waiting, state, slot, home, out, writer, in, methods, last>>

RemoveConnection(c) ==
    /\ Goto(c, "record", "close")
    /\ state' = [state EXCEPT ![c] = Nobody]
    /\ UNCHANGED <<sock, sent, waiting, line, writer, in, methods, last>>

Close(c) ==
    /\ Goto(c, "close", "gone")
    /\ sock' = [sock EXCEPT ![c] = "closed"]
    /\ UNCHANGED <<sent, waiting, state, line, writer, in, methods, last>>

Reader(c) ==
    /\ halt = "no"
    /\ \/ LookGroup(c) \/ CreateGroup(c) \/ AppendBackChannel(c) \/ Put(c)
       \/ ReadError(c) \/ LeaveServers(c) \/ RemoveBackChannel(c) \/ Delete(c)
       \/ RemoveConnection(c) \/ Close(c)
    /\ UNCHANGED <<cur, work, known, task, hist, lost, halt>>

Peer(c) ==
    /\ halt = "no"
    /\ NewConnection(c) \/ PeerBreak(c) \/ \E k \in Commands[c] : Processing(c, k)
    /\ UNCHANGED <<cur, work, known, task, hist, lost, halt>>

-----------------------------------------------------------------------------
\* Execute: the handler of an instruction, and its post handler

Take(w) ==
    /\ worker[w] = "idle" /\ in # <<>>
    /\ in' = Tail(in)
    /\ job' = [job EXCEPT ![w] = Head(in)]
    /\ worker' = [worker EXCEPT ![w] = Head(in).type]
    /\ UNCHANGED <<cand, outs, line, registry, task, rlock, lost, halt>>

\* The handlers are done: the worker has these instructions to send.
Answer(w, instructions) ==
    /\ outs' = [outs EXCEPT ![w] = instructions]
    /\ worker' = [worker EXCEPT ![w] = "send"]
    /\ UNCHANGED <<job, in, line, rlock, lost, halt>>

ProcAuth(w) ==
    /\ \/ worker[w] = "auth" /\ Answer(w, <<Ok(w, <<"auth", TRUE>>, Nobody)>>)
       \/ worker[w] = "badauth" /\ Answer(w, <<Problem(w, <<"auth", FALSE>>)>>)
    /\ UNCHANGED <<cand, registry, task>>

MutMayRegister(w) == job[w].arg \in {GroupConnectionServer, GroupConnectionClient} \* by all
MayRegister(w) ==
    IsAuth(job[w].cid) /\ job[w].arg \in {GroupConnectionServer, GroupConnectionClient}

\* ProcRegistration: no for who has no auth, for web-sockets, for unknown groups ...
RefuseRegistration(w) ==
    /\ worker[w] = "reg" /\ ~MayRegister(w)
    /\ Answer(w, <<Problem(w, NoChange)>>)
    /\ UNCHANGED <<cand, registry, task>>

RegisterClient(w) ==
    /\ worker[w] = "reg" /\ MayRegister(w) /\ job[w].arg = GroupConnectionClient
    /\ Answer(w, <<Ok(w, <<"group", GroupConnectionClient>>, Nobody)>>)
    /\ UNCHANGED <<cand, registry, task>>

\* ... the names of a server's methods first, for the readers ...
RegisterClientMethods(w) ==
    /\ worker[w] = "reg" /\ MayRegister(w) /\ job[w].arg = GroupConnectionServer
    /\ known' = Methods
    /\ worker' = [worker EXCEPT ![w] = "append"]
    /\ UNCHANGED <<job, cand, outs, in, line, methods, task, rlock, lost, halt>>

\* ... then the server behind each of them, for the router.
AppendMethods(w) ==
    /\ worker[w] = "append"
    /\ methods' = [m \in Methods |-> methods[m] \cup {job[w].cid}]
    /\ Answer(w, <<Ok(w, <<"group", GroupConnectionServer>>, Nobody)>>)
    /\ UNCHANGED <<cand, known, task>>

\* What is a number is the status from now on, whatever it means.
ProcUpdateStatus(w) ==
    LET s == job[w].arg IN
    /\ worker[w] = "status"
    /\ Answer(w, IF s = Nobody THEN <<Problem(w, NoChange)>>
                 ELSE <<Ok(w, <<"status", s>>, Nobody)>>)
    /\ UNCHANGED <<cand, registry, task>>

\* ProcRouteRpc: the servers of the method at this moment ...
GetCidVariants(w) ==
    /\ worker[w] = "external"
    /\ worker' = [worker EXCEPT ![w] = "pick"]
    /\ cand' = [cand EXCEPT ![w] = methods[job[w].arg]]
    /\ UNCHANGED <<job, outs, in, line, registry, task, rlock, lost, halt>>

SkipBusy(w, s) ==
    /\ worker[w] = "pick" /\ s \in cand[w] /\ ClientBusy(s)
    /\ cand' = [cand EXCEPT ![w] = @ \ {s}]
    /\ UNCHANGED <<worker, job, outs, in, line, registry, task, rlock, lost, halt>>

\* ... none of them, or all busy ...
NoServer(w) ==
    /\ worker[w] = "pick" /\ cand[w] = {}
    /\ Answer(w, <<Problem(w, NoChange)>>)
    /\ UNCHANGED <<cand, registry, task>>

MutSetDirection(t, c) == \* the result goes to who is known as a client
    IF ClientInGroup(c, GroupConnectionClient) THEN [direction EXCEPT ![t] = c] ELSE direction
SetDirection(t, c) == [direction EXCEPT ![t] = c]

\* ... or one that is free: a new task.  ProcCallServerMethod adds the command for
\* the server, which the worker sends after the answer.
ProcRouteRpc(w, s) ==
    LET t == tasks + 1  c == job[w].cid IN
    /\ worker[w] = "pick" /\ s \in cand[w] /\ ~ClientBusy(s)
    /\ t \in Tasks
    /\ tasks' = t
    /\ direction' = SetDirection(t, c)
    /\ cand' = [cand EXCEPT ![w] = {}]
    /\ Answer(w, <<Ok(w, NoChange, t), Out(s, "execute", NoChange, t)>>)
    /\ UNCHANGED <<buffer, registry>>

MutActiveAgain(w) == IF job[w].arg # Nobody THEN <<"status", ClientStatusActive>> ELSE NoChange
ActiveAgain(w) == <<"status", ClientStatusActive>>

\* ProcResultReturned: the server is active again, even if it forgot the task.
ResultWithoutTask(w) ==
    /\ worker[w] = "result" /\ job[w].arg = Nobody
    /\ Answer(w, <<Problem(w, ActiveAgain(w))>>)
    /\ UNCHANGED <<cand, registry, task>>

\* ProcResultReturned and ProcRecordResult: a web-socket client gets the result, for
\* any other it is kept.  A task without a direction is passed over.
ResultReturned(w) ==
    LET t == job[w].arg
        target == direction[t]
        push == target # Nobody /\ ClientInGroup(target, GroupConnectionWsClient)
        ok == Ok(w, ActiveAgain(w), t) IN
    /\ worker[w] = "result" /\ t # Nobody
    /\ Answer(w, IF push THEN <<ok, Out(target, "result", NoChange, t)>> ELSE <<ok>>)
    /\ buffer' = IF target # Nobody /\ ~push THEN buffer \cup {t} ELSE buffer
    /\ UNCHANGED <<cand, registry, tasks, direction>>

MutNoHandler(w) == \* the error, and then the end of Execute adds it again
    /\ worker[w] \in {"skip", "getresult"}
    /\ Answer(w, <<Problem(w, NoChange), Problem(w, NoChange)>>)
    /\ UNCHANGED <<cand, registry, task>>

\* An unknown method, and getresult, have no handler.
NoHandler(w) ==
    /\ worker[w] \in {"skip", "getresult"}
    /\ Answer(w, <<Problem(w, NoChange)>>)
    /\ UNCHANGED <<cand, registry, task>>

ExitHandler(w) ==
    /\ worker[w] = "exit"
    /\ Answer(w, <<Out(job[w].cid, "exit", NoChange, Nobody)>>)
    /\ UNCHANGED <<cand, registry, task>>

\* worker: one instruction after the other, whether the one before found its channel
\* or not.
MutRest(w) == IF Reachable(Head(outs[w]).to) THEN Tail(outs[w]) ELSE <<>> \* stop at a failure
Rest(w) == Tail(outs[w])

Sent(w) ==
    /\ outs' = [outs EXCEPT ![w] = Rest(w)]
    /\ worker' = [worker EXCEPT ![w] = IF Rest(w) = <<>> THEN "idle" ELSE "send"]

\* Send on a nil group.
SendNil(w) ==
    /\ worker[w] = "send" /\ outs[w] # <<>> /\ rlock[w] = Nobody
    /\ Slot(Head(outs[w]).to) = Nobody
    /\ halt' = "nil group"
    /\ UNCHANGED <<work, in, line, registry, task, lost>>

\* Send: Lock(false) and the lookup, that finds the channel ...
SendLookup(w) ==
    LET c == Head(outs[w]).to IN
    /\ worker[w] = "send" /\ outs[w] # <<>> /\ rlock[w] = Nobody
    /\ Slot(c) # Nobody /\ ~Locked(Slot(c)) /\ Reachable(c)
    /\ rlock' = [rlock EXCEPT ![w] = Slot(c)]
    /\ UNCHANGED <<worker, job, cand, outs, in, line, registry, task, lost, halt>>

\* ... or does not, and Send returns false.
SendMissed(w) ==
    LET o == Head(outs[w]) IN
    /\ worker[w] = "send" /\ outs[w] # <<>> /\ rlock[w] = Nobody
    /\ Slot(o.to) # Nobody /\ ~Locked(Slot(o.to)) /\ ~Reachable(o.to)
    /\ Sent(w)
    /\ lost' = lost \cup {o}
    /\ UNCHANGED <<job, cand, rlock, in, line, registry, task, halt>>

\* What the writer has received and not written is still the head of out.
Room(c) == Len(out[c]) < BufferSize + (IF writer[c] = "recv" THEN 1 ELSE 0)

\* Send: the channel send, with the lock, and then the Unlock.
Send(w) ==
    LET o == Head(outs[w]) IN
    /\ worker[w] = "send" /\ outs[w] # <<>> /\ rlock[w] # Nobody
    /\ writer[o.to] # "ended" /\ Room(o.to)
    /\ Sent(w)
    /\ out' = [out EXCEPT ![o.to] = Append(@, o)]
    /\ rlock' = [rlock EXCEPT ![w] = Nobody]
    /\ UNCHANGED <<job, cand, in, chan, slot, home, registry, task, lost, halt>>

SendClosed(w) ==
    /\ worker[w] = "send" /\ outs[w] # <<>> /\ rlock[w] # Nobody
    /\ writer[Head(outs[w]).to] = "ended"
    /\ halt' = "send on closed back channel"
    /\ UNCHANGED <<work, in, line, registry, task, lost>>

Worker(w) ==
    /\ halt = "no"
    /\ \/ Take(w) \/ ProcAuth(w) \/ RefuseRegistration(w) \/ RegisterClient(w)
       \/ RegisterClientMethods(w) \/ AppendMethods(w) \/ ProcUpdateStatus(w)
       \/ GetCidVariants(w) \/ NoServer(w)
       \/ (\E s \in Conns : SkipBusy(w, s) \/ ProcRouteRpc(w, s))
       \/ ResultWithoutTask(w) \/ ResultReturned(w) \/ NoHandler(w) \/ ExitHandler(w)
       \/ SendNil(w) \/ SendLookup(w) \/ SendMissed(w) \/ Send(w) \/ SendClosed(w)
    /\ UNCHANGED <<conn, waiting, state, writer, cur, hist, last>>

-----------------------------------------------------------------------------
\* connectionWriteProcessing

WriterGoto(c, from, to) ==
    /\ writer[c] = from
    /\ writer' = [writer EXCEPT ![c] = to]

\* The writer is in Write, or about to be, to a client that is there.  There is no
\* deadline: the Write returns when the client reads, or leaves, and nothing says that it
\* does either.
Unread(c) == writer[c] = "recv" /\ out[c] # <<>> /\ sock[c] = "open"

\* Receive an instruction and write its answer or its command.
Write(c) ==
    LET o == Head(out[c]) IN
    /\ out[c] # <<>> /\ sock[c] # "closed"
    /\ WriterGoto(c, "recv", IF o.type = "exit" THEN "exit"
                             ELSE IF o.change = NoChange THEN "recv" ELSE "update")
    /\ cur' = [cur EXCEPT ![c] = o]
    /\ out' = [out EXCEPT ![c] = Tail(@)]
    /\ waiting' = IF o.type \in {"execute", "result"} THEN waiting
                  ELSE [waiting EXCEPT ![c] = @ - 1]
    /\ given' = IF o.type = "execute" THEN [given EXCEPT ![c] = @ \cup {o.task}] ELSE given
    /\ told' = IF o.type = "ok" /\ o.change = NoChange
               THEN [told EXCEPT ![c] = @ \cup {o.task}] ELSE told
    /\ acked' = IF o.type = "ok" /\ o.change # NoChange /\ o.task # Nobody
                THEN acked \cup {o.task} ELSE acked
    /\ UNCHANGED <<sock, state, halt>>

\* A failed Write ends the writer ...
WriteError(c) ==
    /\ out[c] # <<>> /\ sock[c] \in {"broken", "closed"}
    /\ WriterGoto(c, "recv", IF Head(out[c]).type = "exit" THEN "exit" ELSE "end")
    /\ cur' = [cur EXCEPT ![c] = Head(out[c])]
    /\ out' = [out EXCEPT ![c] = Tail(@)]
    /\ UNCHANGED <<sock, waiting, state, hist, halt>>

\* ... as an exit does, that closes the connection first ...
CloseSocket(c) ==
    /\ WriterGoto(c, "exit", "end")
    /\ sock' = [sock EXCEPT ![c] = "closed"]
    /\ UNCHANGED <<cur, out, waiting, state, hist, halt>>

\* ... and the channel last.
EndWriter(c) ==
    /\ WriterGoto(c, "end", "ended")
    /\ UNCHANGED <<sock, cur, out, waiting, state, hist, halt>>

\* UpdateState changes the record of the connection ...
UpdateState(c) ==
    /\ WriterGoto(c, "update", "recv")
    /\ state[c] # Nobody
    /\ state' = [state EXCEPT ![c] = Updated(@, cur[c].change)]
    /\ UNCHANGED <<sock, cur, out, waiting, hist, halt>>

\* ... that follows a nil pointer when the reader has removed the record.
UpdateStateNil(c) ==
    /\ writer[c] = "update" /\ state[c] = Nobody
    /\ halt' = "nil state record"
    /\ UNCHANGED <<sock, writer, cur, out, waiting, state, hist>>

Writer(c) ==
    /\ halt = "no"
    /\ \/ Write(c) \/ WriteError(c) \/ CloseSocket(c) \/ EndWriter(c)
       \/ UpdateState(c) \/ UpdateStateNil(c)
    /\ UNCHANGED <<reader, sent, chan, slot, home, in, work, registry, task, lost, last>>

-----------------------------------------------------------------------------
\* Nothing to do but to wait for clients.
Quiet ==
    \/ halt # "no"
    \/ /\ in = <<>> /\ \A w \in Workers : worker[w] = "idle"
       /\ \A c \in Conns : reader[c] \in {"read", "gone"}

Next ==
    \/ \E c \in Conns : Peer(c) \/ Reader(c) \/ Writer(c)
    \/ \E w \in Workers : Worker(w)
    \/ Quiet /\ UNCHANGED vars

Spec == Init /\ [][Next]_vars

\* Goroutines that can run do; clients may send nothing, not read, and leave when they like.
FairSpec ==
    /\ Spec
    /\ \A c \in Conns : WF_vars(Reader(c)) /\ WF_vars(~Unread(c) /\ Writer(c))
    /\ \A w \in Workers : WF_vars(Worker(w))
=============================================================================
