------------------------------ MODULE RlServer ------------------------------
(***************************************************************************)
(* The prototype server, rlserver.go with the handlers of protocol.go: the *)
(* handler and the writer of each connection, the core workers, the status *)
(* broadcast and the stop, around one AnswerDispatcher.  A client uses the *)
(* cid that it was offered, here its connection.                           *)
(***************************************************************************)
EXTENDS Integers, Sequences, FiniteSets

CONSTANTS
    Conns,
    Workers,
    Commands,   \* what each connection may send to the core, <<target, data>>
    Early,      \* connections that are accepted and have given their data at the start
    Group,      \* the group each connection names in its client data
    BufferSize, \* capacity of msgToCoreBuffer and of the answer channels
    MaxMsgs,    \* bound: commands to the core of each connection
    Cast, Nobody

GroupClientService == 1
GroupClientServer == 2
Targets == {"status", "register", "call", "ping", "unknown"}

ASSUME RlAssumption ==
    /\ Group \in [Conns -> {GroupClientService, GroupClientServer}]
    /\ Commands \in [Conns -> SUBSET (Targets \X {"ok", "busy", "bad"})]
    /\ BufferSize \in Nat \ {0} /\ MaxMsgs \in [Conns -> Nat]
    /\ Cast # Nobody /\ {Cast, Nobody} \cap Workers = {}

VARIABLES
    active,        \* of the server
    listener,      \* place of upConnection
    main,          \* place of Run
    late,          \* history: connections counted after the stop
    handler,       \* place of each connectionHandler
    context,       \* ConnectionContext: temporary key, auth, group; a cid with the group
    info,          \* connectionInfo: the connection is active
    msg, sent,     \* the message for the core, and how many went before
    sock,
    core, closed,  \* msgToCoreBuffer, and whether it is closed
    chans, shut,   \* of the dispatcher: its channels; and the channels closed
    dlock,         \* who has the write lock of the dispatcher
    answers,       \* the answer channel of each connection: "cmd" or "empty" commands
    writer, cur,   \* place of each conntectionWriteAnswer, and the command it writes
    worker, todo,  \* place of each coreWorker, and the answers it has to put
    caster, pend,  \* place of serviceBroadcasting, and who has not got the status
    methods, busy, \* ServerMethods, of one method, and ServerBusyAccounting
    halt           \* cause of a panic, "no" without one

server == <<active, listener, main, late>>
conn == <<handler, context, info, msg, sent>>
buffer == <<core, closed>>
dispatcher == <<chans, shut, dlock>>
out == <<writer, cur>>
cast == <<caster, pend>>
accounting == <<methods, busy>>
vars == <<server, conn, sock, buffer, dispatcher, answers, out, worker, todo, cast,
          accounting, halt>>

Msgs == [cid : Conns, group : 0..2, target : Targets, data : {"ok", "busy", "bad"}]
NoMsg(c) == [cid |-> c, group |-> 0, target |-> "unknown", data |-> "ok"]
NewContext == [key |-> FALSE, auth |-> FALSE, group |-> 0]

\* Output of a fatal line panics, and so does the Go runtime; the process ends.
Panic(cause) == halt' = cause

Init ==
    /\ active = TRUE /\ listener = "check" /\ main = "run" /\ late = {}
    /\ handler = [c \in Conns |-> IF c \in Early THEN "read" ELSE "none"]
    /\ context = [c \in Conns |-> IF c \in Early THEN [key |-> FALSE, auth |-> TRUE, group |-> Group[c]]
                                   ELSE NewContext]
    /\ info = [c \in Conns |-> TRUE]
    /\ sock = [c \in Conns |-> IF c \in Early THEN "open" ELSE "none"]
    /\ msg = [c \in Conns |-> NoMsg(c)] /\ sent = [c \in Conns |-> 0]
    /\ core = <<>> /\ closed = FALSE
    /\ chans = {} /\ shut = {} /\ dlock = Nobody
    /\ answers = [c \in Conns |-> <<>>]
    /\ writer = [c \in Conns |-> "none"] /\ cur = [c \in Conns |-> "cmd"]
    /\ worker = [w \in Workers |-> "check"] /\ todo = [w \in Workers |-> <<>>]
    /\ caster = "check" /\ pend = {}
    /\ methods = <<>> /\ busy = {}
    /\ halt = "no"

-----------------------------------------------------------------------------
\* upConnection, and the clients

ListenerCheck ==
    /\ listener = "check" /\ active
    /\ \E c \in Conns : handler[c] = "none" \* bound: nobody else comes
    /\ listener' = "accept"
    /\ UNCHANGED <<late, handler, sock>>

\* Accept, which may return after the stop.
ListenerAccept(c) ==
    /\ listener = "accept" /\ handler[c] = "none"
    /\ listener' = "count"
    /\ handler' = [handler EXCEPT ![c] = "accepted"]
    /\ sock' = [sock EXCEPT ![c] = "open"]
    /\ UNCHANGED late

\* ChangeConnectionCount(1), and the go of the handler; the stop may be over by now.
Count(c) ==
    /\ listener = "count" /\ handler[c] = "accepted"
    /\ listener' = "check"
    /\ handler' = [handler EXCEPT ![c] = "read"]
    /\ late' = IF active THEN late ELSE late \cup {c}
    /\ UNCHANGED sock

PeerBreak(c) ==
    /\ sock[c] = "open"
    /\ sock' = [sock EXCEPT ![c] = "broken"]
    /\ UNCHANGED <<listener, late, handler>>

Listener ==
    /\ ListenerCheck \/ \E c \in Conns : ListenerAccept(c) \/ Count(c) \/ PeerBreak(c)
    /\ UNCHANGED <<active, main, context, info, msg, sent, buffer, dispatcher, answers, out,
                   worker, todo, cast, accounting, halt>>

-----------------------------------------------------------------------------
\* The lock of the dispatcher

MutReaders == {c \in Conns : handler[c] \in {"delete", "gone"}} \* without RUnLockChange
\* Handlers in RemoveChannel, which takes the read lock.
Readers == {c \in Conns : handler[c] = "delete"}
MutCanLock == dlock = Nobody \* Lock does not wait for the readers
CanLock == dlock = Nobody /\ Readers = {}
CanRLock == dlock = Nobody

-----------------------------------------------------------------------------
\* connectionHandler

HandlerGoto(c, from, to) ==
    /\ handler[c] = from
    /\ handler' = [handler EXCEPT ![c] = to]

\* The count of connections goes down, and the socket is closed with it.
HandlerEnd(c, from) == HandlerGoto(c, from, "gone")

\* The fast handlers and the update of the context; a failed one changes nothing.  The
\* key of a request after auth has no use, and is left out.
sendAuthRequest(c) == ~context[c].auth /\ context' = [context EXCEPT ![c].key = TRUE]
sendAuthResult(c) ==
    /\ context[c].key
    /\ context' = [context EXCEPT ![c].key = FALSE, ![c].auth = TRUE]
sendReady(c) ==
    /\ context[c].auth /\ context[c].group = 0 \* set only once
    /\ context' = [context EXCEPT ![c].group = Group[c]]

\* The answer is written at once, and the handler reads on when the client has read it.
FastCommand(c) ==
    /\ handler[c] = "read"
    /\ sendAuthRequest(c) \/ sendAuthResult(c) \/ sendReady(c)
    /\ UNCHANGED <<handler, info, msg, sent, sock, core, dispatcher, writer, halt>>

\* NewCoreMsg, for a command that needs auth.
NewCoreMsg(c) ==
    /\ HandlerGoto(c, "read", "put")
    /\ context[c].auth /\ sent[c] < MaxMsgs[c]
    /\ \E k \in Commands[c] :
          msg' = [msg EXCEPT ![c] = [cid |-> c, group |-> context[c].group,
                                     target |-> k[1], data |-> k[2]]]
    /\ sent' = [sent EXCEPT ![c] = @ + 1]
    /\ UNCHANGED <<context, info, sock, core, dispatcher, writer, halt>>

\* The message is in the buffer before its connection has a channel.
PutCore(c) ==
    /\ ~closed /\ Len(core) < BufferSize
    /\ HandlerGoto(c, "put", IF writer[c] = "none" THEN "used" ELSE "read")
    /\ core' = Append(core, msg[c])
    /\ msg' = [msg EXCEPT ![c] = NoMsg(c)]
    /\ UNCHANGED <<context, info, sent, sock, dispatcher, writer, halt>>

PutCoreClosed(c) ==
    /\ handler[c] = "put" /\ closed
    /\ Panic("send on closed core buffer")
    /\ UNCHANGED <<conn, sock, core, dispatcher, writer>>

\* checkUsedChannel only warns, but looks into the map: another handler may delete.
checkUsedChannel(c) ==
    /\ CanRLock
    /\ \/ HandlerGoto(c, "used", "add") /\ UNCHANGED halt
       \/ /\ handler[c] = "used" /\ \E d \in Conns : handler[d] = "delete"
          /\ Panic("concurrent map access") /\ UNCHANGED handler
    /\ UNCHANGED <<context, info, msg, sent, sock, core, dispatcher, writer>>

\* AddChannel, and the go of the writer.
AddChannel(c) ==
    /\ CanLock
    /\ HandlerGoto(c, "add", "read")
    /\ chans' = chans \cup {c}
    /\ writer' = [writer EXCEPT ![c] = "recv"]
    /\ UNCHANGED <<context, info, msg, sent, sock, core, shut, dlock, halt>>

\* A command that ends the connection, or does not parse, or a read error: the channel
\* stays where it is.
Leave(c) ==
    /\ HandlerEnd(c, "read")
    /\ sock' = [sock EXCEPT ![c] = "closed"]
    /\ UNCHANGED <<context, info, msg, sent, core, dispatcher, writer, halt>>

\* io.EOF, once the client is gone; without a cid there is nothing to remove.
Eof(c) ==
    /\ sock[c] = "broken"
    /\ IF context[c].group # 0
       THEN HandlerGoto(c, "read", "remove") /\ UNCHANGED sock
       ELSE HandlerEnd(c, "read") /\ sock' = [sock EXCEPT ![c] = "closed"]
    /\ info' = [info EXCEPT ![c] = FALSE]
    /\ UNCHANGED <<context, msg, sent, core, dispatcher, writer, halt>>

\* RLockChange, the lookup and close(*channelPtr); the map is being changed until the
\* next step.
RemoveChannel(c) ==
    /\ CanRLock
    /\ \/ c \in chans /\ HandlerGoto(c, "remove", "delete") /\ shut' = shut \cup {c}
       \/ c \notin chans /\ HandlerEnd(c, "remove") /\ UNCHANGED shut
    /\ sock' = IF c \in chans THEN sock ELSE [sock EXCEPT ![c] = "closed"]
    /\ UNCHANGED <<context, info, msg, sent, core, chans, dlock, writer, halt>>

MutChansWithout(c) == chans \* closed, but not deleted
ChansWithout(c) == chans \ {c}
DeleteChannel(c) ==
    /\ HandlerEnd(c, "delete")
    /\ chans' = ChansWithout(c)
    /\ sock' = [sock EXCEPT ![c] = "closed"]
    /\ UNCHANGED <<context, info, msg, sent, core, shut, dlock, writer, halt>>

\* Two handlers write the map under the read lock.
DeleteRace(c) ==
    /\ handler[c] = "delete" /\ \E d \in Conns \ {c} : handler[d] = "delete"
    /\ Panic("concurrent map access")
    /\ UNCHANGED <<conn, sock, core, dispatcher, writer>>

\* Lines that a client sends, and when it leaves, are its own choice.
HandlerRead(c) == FastCommand(c) \/ NewCoreMsg(c) \/ Leave(c)
HandlerLocks(c) == checkUsedChannel(c) \/ AddChannel(c) \/ RemoveChannel(c)
HandlerGoes(c) ==
    \/ PutCore(c) \/ PutCoreClosed(c) \/ Eof(c) \/ DeleteChannel(c) \/ DeleteRace(c)
HandlerFrame ==
    UNCHANGED <<server, closed, answers, cur, worker, todo, cast, accounting>>

-----------------------------------------------------------------------------
\* conntectionWriteAnswer

WriterGoto(c, from, to) ==
    /\ writer[c] = from
    /\ writer' = [writer EXCEPT ![c] = to]

\* A closed channel yields an empty command after its last one.
Receive(c) ==
    /\ answers[c] # <<>> \/ c \in shut
    /\ WriterGoto(c, "recv", "write")
    /\ cur' = [cur EXCEPT ![c] = IF answers[c] = <<>> THEN "empty" ELSE Head(answers[c])]
    /\ answers' = [answers EXCEPT ![c] = IF @ = <<>> THEN @ ELSE Tail(@)]

\* An empty command is the last one.
EndsWith(c) == cur[c] = "empty"

\* The Write of a live client returns when the client reads: it has no deadline, and
\* nothing says that a client reads.
Unread(c) == writer[c] = "write" /\ info[c] /\ sock[c] = "open"

Write(c) ==
    /\ info[c] /\ sock[c] # "closed"
    /\ WriterGoto(c, "write", IF EndsWith(c) THEN "ended" ELSE "recv")
    /\ UNCHANGED <<cur, answers>>

\* The connection is not active, or the Write fails.
WriterEnds(c) ==
    /\ ~info[c] \/ sock[c] # "open"
    /\ WriterGoto(c, "write", "ended")
    /\ UNCHANGED <<cur, answers>>

WriterStep(c) ==
    /\ Receive(c) \/ Write(c) \/ WriterEnds(c)
    /\ UNCHANGED <<server, conn, sock, buffer, dispatcher, worker, todo, cast, accounting, halt>>

-----------------------------------------------------------------------------
\* coreWorker

WorkerGoto(w, from, to) ==
    /\ worker[w] = from
    /\ worker' = [worker EXCEPT ![w] = to]

WorkerCheck(w) ==
    /\ WorkerGoto(w, "check", IF active THEN "recv" ELSE "done")
    /\ UNCHANGED <<todo, core, dispatcher, answers, accounting, halt>>

To(c, kind) == [to |-> c, kind |-> kind]

\* The place of the first server of the method that is not busy, if there is one.
SearchFree ==
    {n \in DOMAIN methods : methods[n] \notin busy /\ \A k \in 1..(n - 1) : methods[k] \in busy}

\* denyMethodForGroupHandler
Denied(m) ==
    \/ m.group = GroupClientServer /\ m.target = "call"
    \/ m.group = GroupClientService /\ m.target = "register"

\* ProcessingMsg and its handlers: the answers, to the sender unless they name another,
\* and what they change in methods and busy.
ProcessingMsg(w, m) ==
    LET c == m.cid IN
    \/ /\ Denied(m) \/ m.target = "unknown" \/ (m.target = "register" /\ m.data = "bad")
       /\ todo' = [todo EXCEPT ![w] = <<To(c, "empty")>>]
       /\ UNCHANGED accounting
    \/ /\ m.target \in {"status", "ping"}
       /\ busy' = CASE m.target = "ping" -> busy
                    [] m.target = "status" /\ m.data = "busy" -> busy \cup {c}
                    [] OTHER -> busy \ {c}
       /\ todo' = [todo EXCEPT ![w] = <<To(c, "cmd")>>]
       /\ UNCHANGED methods
    \/ /\ m.target = "register" /\ ~Denied(m) /\ m.data # "bad"
       /\ methods' = Append(methods, c)
       /\ todo' = [todo EXCEPT ![w] = <<To(c, "cmd")>>]
       /\ UNCHANGED busy
    \/ /\ m.target = "call" /\ ~Denied(m)
       /\ \/ SearchFree = {} /\ todo' = [todo EXCEPT ![w] = <<To(c, "cmd")>>]
          \/ \E n \in SearchFree :
                todo' = [todo EXCEPT ![w] = <<To(c, "cmd"), To(methods[n], "cmd")>>]
       /\ UNCHANGED accounting

WorkerTake(w) ==
    /\ core # <<>> /\ Head(core).group # 0
    /\ WorkerGoto(w, "recv", "put")
    /\ core' = Tail(core)
    /\ ProcessingMsg(w, Head(core))
    /\ UNCHANGED <<dispatcher, answers, halt>>

\* The message of a client without a group.
WorkerUnknownGroup(w) ==
    /\ core # <<>> /\ Head(core).group = 0
    /\ worker[w] = "recv"
    /\ Panic("unknown group")
    /\ UNCHANGED <<worker, todo, core, dispatcher, answers, accounting>>

\* The empty message of the closed buffer.
WorkerEmpty(w) ==
    /\ core = <<>> /\ closed
    /\ WorkerGoto(w, "recv", "done")
    /\ UNCHANGED <<todo, core, dispatcher, answers, accounting, halt>>

MutAfterPut(w) == IF todo[w] # <<>> THEN "put" ELSE "check"
\* The next answer, if there is one.
AfterPut(w) == IF Len(todo[w]) > 1 THEN "put" ELSE "check"

\* Put: LockChange and the lookup; an answer without a channel is lost.
Put(w) ==
    LET c == Head(todo[w]).to IN
    /\ worker[w] = "put" /\ CanLock
    /\ IF c \in chans
       THEN /\ WorkerGoto(w, "put", "send")
            /\ dlock' = w
            /\ UNCHANGED todo
       ELSE /\ WorkerGoto(w, "put", AfterPut(w))
            /\ todo' = [todo EXCEPT ![w] = Tail(@)]
            /\ UNCHANGED dlock
    /\ UNCHANGED <<core, chans, shut, answers, accounting, halt>>

\* Put: the channel send, under the lock, and the unlock.
Send(w) ==
    LET c == Head(todo[w]).to IN
    /\ WorkerGoto(w, "send", AfterPut(w))
    /\ Len(answers[c]) < BufferSize
    /\ answers' = [answers EXCEPT ![c] = Append(@, Head(todo[w]).kind)]
    /\ todo' = [todo EXCEPT ![w] = Tail(@)]
    /\ dlock' = Nobody
    /\ UNCHANGED <<core, chans, shut, accounting, halt>>

WorkerStep(w) ==
    WorkerCheck(w) \/ WorkerTake(w) \/ WorkerUnknownGroup(w) \/ WorkerEmpty(w) \/ Send(w)
WorkerFrame == UNCHANGED <<server, conn, sock, closed, out, cast>>

-----------------------------------------------------------------------------
\* serviceBroadcasting

\* IsActive and HasClients; it sleeps between two rounds.
CastCheck ==
    /\ caster = "check" /\ CanRLock
    /\ caster' = IF ~active THEN "ended" ELSE IF chans # {} THEN "lock" ELSE "check"
    /\ UNCHANGED <<dlock, answers, pend>>

\* PutAll: LockChange, and the channels to send to; there may be none by now.
PutAll ==
    /\ caster = "lock" /\ CanLock
    /\ IF chans = {} THEN caster' = "check" /\ UNCHANGED <<dlock, pend>>
       ELSE caster' = "send" /\ dlock' = Cast /\ pend' = chans
    /\ UNCHANGED answers

\* One send of PutAll, in the order of the map; UnLockChange after the last.
PutOne(c) ==
    /\ caster = "send" /\ c \in pend /\ Len(answers[c]) < BufferSize
    /\ answers' = [answers EXCEPT ![c] = Append(@, "cmd")]
    /\ pend' = pend \ {c}
    /\ IF pend = {c} THEN caster' = "check" /\ dlock' = Nobody ELSE UNCHANGED <<caster, dlock>>

CastFrame ==
    UNCHANGED <<server, conn, sock, buffer, chans, shut, out, worker, todo, accounting, halt>>

-----------------------------------------------------------------------------
\* Run

\* bound: one signal
Signal ==
    /\ main = "run"
    /\ main' = "stop" /\ active' = FALSE
    /\ UNCHANGED <<chans, shut, closed>>

CloseAll ==
    /\ main = "stop" /\ CanLock
    /\ main' = "wait"
    /\ shut' = shut \cup chans /\ chans' = {}
    /\ UNCHANGED <<active, closed>>

MutHasConnection == \E c \in Conns : sock[c] = "open"
\* From Count to the end of the handler.
Counted(c) == handler[c] \notin {"none", "accepted", "gone"}
HasConnection == \E c \in Conns : Counted(c)
CloseBuffer ==
    /\ main = "wait" /\ ~HasConnection
    /\ main' = "finish" /\ closed' = TRUE
    /\ UNCHANGED <<active, chans, shut>>

\* statistic.Finish() waits for its goroutine; then the process ends.
Finish ==
    /\ main = "finish" /\ main' = "done"
    /\ UNCHANGED <<active, chans, shut, closed>>

MainFrame ==
    UNCHANGED <<listener, late, conn, sock, core, dlock, answers, out, worker, todo, cast,
                accounting, halt>>

-----------------------------------------------------------------------------
Running == halt = "no" /\ main # "done"

Reads(c) == Running /\ HandlerRead(c) /\ HandlerFrame
Locks(c) == Running /\ HandlerLocks(c) /\ HandlerFrame
Goes(c) == Running /\ HandlerGoes(c) /\ HandlerFrame
Writer(c) == Running /\ WriterStep(c)
Worker(w) == Running /\ WorkerStep(w) /\ WorkerFrame
WorkerPut(w) == Running /\ Put(w) /\ WorkerFrame
Caster == Running /\ (CastCheck \/ (\E c \in Conns : PutOne(c))) /\ CastFrame
CasterPut == Running /\ PutAll /\ CastFrame
MainStep == Running /\ (CloseBuffer \/ Finish) /\ MainFrame
MainClose == Running /\ CloseAll /\ MainFrame

Next ==
    \/ Running /\ Listener
    \/ \E c \in Conns : Reads(c) \/ Locks(c) \/ Goes(c) \/ Writer(c)
    \/ \E w \in Workers : Worker(w) \/ WorkerPut(w)
    \/ Caster \/ CasterPut
    \/ MainStep \/ MainClose \/ (Running /\ Signal /\ MainFrame)

Spec == Init /\ [][Next]_vars
=============================================================================
