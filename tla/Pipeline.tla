------------------------------ MODULE Pipeline ------------------------------
(***************************************************************************)
(* The command pipeline of the live server: the listener, a reader and a   *)
(* writer per connection (connectionserver.go), the workers and the groups *)
(* of back channels with their locks (coresupport.go), and the goroutine   *)
(* that stops them on a signal (corelauncher.go).                          *)
(*                                                                         *)
(* A connection stands for its cid, its back channel, its two goroutines   *)
(* and, since a reader allocates at most one outChannelGroup, for the one  *)
(* it may allocate.  No panic is recovered anywhere in the program: a panic*)
(* ends the process, and "halt" keeps its cause.                           *)
(***************************************************************************)
EXTENDS Naturals, Sequences, FiniteSets

CONSTANTS
    Conns,       \* connections the listener may accept
    Workers,     \* option.Workers goroutines
    Groups,      \* indexes of outChannels in use
    GroupOf,     \* connData.index of each connection
    BufferSize,  \* option.BufferSize: capacity of instructionsChannel and back channels
    MaxCmds,     \* bound: commands a client sends on each connection
    Leaving,     \* bound: connections whose peer may break them
    MaxSignals,  \* bound: signals the process gets
    Kinds,       \* what the commands of each connection ask for, see AllKinds
    Main,        \* the main goroutine, as the owner of a lock
    Nobody       \* no owner, a nil group pointer, an empty cid

\* What tells two commands apart here: an answer without state changes (ping),
\* one with them (auth, registration, statusupdate, result), or an exit.
AllKinds == {"plain", "state", "exit"}

ASSUME PipelineAssumption ==
    /\ GroupOf \in [Conns -> Groups]
    /\ BufferSize \in Nat \ {0}
    /\ MaxCmds \in [Conns -> Nat] /\ MaxSignals \in Nat
    /\ Kinds \in [Conns -> SUBSET AllKinds] /\ Leaving \subseteq Conns
    /\ Nobody \notin Conns \cup {Main} /\ Main \notin Conns
    /\ IsFiniteSet(Workers)

VARIABLES
    listener,  \* startListener: "check", "accept" or "closed"
    reader,    \* place of connectionReadProcessing in the code, per connection
    cmd,       \* the last command a reader took from its socket
    sock,      \* "open", "broken" by the peer, "closed" by the server
    record,    \* the connection has its record in the data manager
    writer,    \* place of connectionWriteProcessing, per connection
    cur,       \* newInstruction of each writer
    back,      \* the back channels
    in,        \* instructionsChannel
    closed,    \* instructionsChannel and workerStopSignalChannel are closed
    worker,    \* place of each worker
    job,       \* the output instruction a worker is sending
    stops,     \* values buffered in workerStopSignalChannel
    slot,      \* outChannels: the group of each index, Nobody for nil
    made,      \* groups allocated so far, named by the reader that did
    chans,     \* the connections in the channels map of each group
    rlock,     \* workers in Send's critical section, per group
    wlock,     \* who called Lock(true) on a group and has not unlocked it
    main,      \* place of Launch and CoreWorkerManager.Stop
    signals,   \* signals received
    todo,      \* groups SendExit was not called for yet
    pend,      \* channels SendExit has not reached yet
    written,   \* history: ids of the answers written to each socket
    dropped,   \* history: <<cid, id>> for which Send returned false
    unwritten, \* history: <<cid, id>> whose Write failed
    halt       \* "no", "exit" or the cause of the panic

conn == <<sock, record>>
group == <<slot, made, chans, wlock>>
stop == <<main, signals, todo, pend>>
hist == <<written, dropped, unwritten>>
vars == <<listener, reader, cmd, conn, writer, cur, back, in, closed, worker, job,
          stops, group, rlock, stop, hist, halt>>

Instructions == [cid : Conns, id : Nat \ {0}, kind : AllKinds]
ExitInstruction == [cid |-> Nobody, id |-> 0, kind |-> "exit"] \* no answer, no cid
NoInstruction == [cid |-> Nobody, id |-> 0, kind |-> "plain"]  \* before the first one

HasAnswer(i) == i.id > 0
NeedExit(i) == i.kind = "exit"
Slot(c) == slot[GroupOf[c]]
BackClosed(c) == writer[c] = "ended" \* close is the writer's last step
Panic(cause) == halt' = cause

Init ==
    /\ listener = "check"
    /\ reader = [c \in Conns |-> "none"] /\ cmd = [c \in Conns |-> NoInstruction]
    /\ sock = [c \in Conns |-> "none"] /\ record = [c \in Conns |-> FALSE]
    /\ writer = [c \in Conns |-> "none"] /\ cur = [c \in Conns |-> NoInstruction]
    /\ back = [c \in Conns |-> <<>>] /\ in = <<>> /\ closed = FALSE
    /\ worker = [w \in Workers |-> "idle"] /\ job = [w \in Workers |-> NoInstruction]
    /\ stops = 0
    /\ slot = [g \in Groups |-> Nobody] /\ made = {}
    /\ chans = [o \in Conns |-> {}]
    /\ rlock = [o \in Conns |-> {}] /\ wlock = [o \in Conns |-> Nobody]
    /\ main = "wait" /\ signals = 0 /\ todo = {} /\ pend = {}
    /\ written = [c \in Conns |-> <<>>] /\ dropped = {} /\ unwritten = {}
    /\ halt = "no"

-----------------------------------------------------------------------------
\* startListener and the network

\* isAcceptForConnection: the first signal set the status off.
ListenerCheck ==
    /\ listener = "check"
    /\ listener' = IF signals = 0 THEN "accept" ELSE "closed"
    /\ UNCHANGED <<reader, sock, record>>

\* Accept, and the new goroutine's NewConnection.
ListenerAccept(c) ==
    /\ listener = "accept" /\ reader[c] = "none"
    /\ listener' = "check"
    /\ reader' = [reader EXCEPT ![c] = "read"]
    /\ sock' = [sock EXCEPT ![c] = "open"]
    /\ record' = [record EXCEPT ![c] = TRUE]

\* The client, or the network, ends the connection.
PeerBreak(c) ==
    /\ c \in Leaving /\ sock[c] = "open"
    /\ sock' = [sock EXCEPT ![c] = "broken"]
    /\ UNCHANGED <<listener, reader, record>>

Listener ==
    /\ ListenerCheck \/ \E c \in Conns : ListenerAccept(c) \/ PeerBreak(c)
    /\ UNCHANGED <<cmd, writer, cur, back, in, closed, worker, job, stops, group,
                   rlock, stop, hist, halt>>

-----------------------------------------------------------------------------
\* connectionReadProcessing

ReaderGoto(c, from, to) ==
    /\ reader[c] = from
    /\ reader' = [reader EXCEPT ![c] = to]

\* ReadLine and ParseCommand: lines may be buffered when the socket is gone, and
\* a line that does not parse changes nothing here.
ReadCommand(c) ==
    /\ cmd[c].id < MaxCmds[c]
    /\ ReaderGoto(c, "read", "process")
    /\ \E k \in Kinds[c] :
          cmd' = [cmd EXCEPT ![c] = [cid |-> c, id |-> cmd[c].id + 1, kind |-> k]]
    /\ UNCHANGED <<conn, writer, in, group, halt>>

MutEnqueueEmpty(c) == Append(in, NoInstruction) \* NewCoreInstruction without the message
Enqueue(c) == Append(in, cmd[c])

\* CoreWorkerManager.Processing; a back channel is made after the first command.
Processing(c) ==
    /\ ~closed /\ Len(in) < BufferSize
    /\ ReaderGoto(c, "process", IF writer[c] = "none" THEN "back" ELSE "read")
    /\ in' = Enqueue(c)
    /\ UNCHANGED <<cmd, conn, writer, group, halt>>

ProcessingClosed(c) ==
    /\ reader[c] = "process" /\ closed
    /\ Panic("send on closed instructionsChannel")
    /\ UNCHANGED <<reader, cmd, conn, writer, in, group>>

\* go connectionWriteProcessing, and the look for the group of the connection.
StartWriter(c) ==
    /\ ReaderGoto(c, "back", IF Slot(c) = Nobody THEN "create" ELSE "append")
    /\ writer' = [writer EXCEPT ![c] = "recv"]
    /\ UNCHANGED <<cmd, conn, in, group, halt>>

\* outChannels[index] = newOutChannelGroup(), decided on that earlier look.
CreateGroup(c) ==
    /\ ReaderGoto(c, "create", "append")
    /\ slot' = [slot EXCEPT ![GroupOf[c]] = c]
    /\ made' = made \cup {c}
    /\ UNCHANGED <<cmd, conn, writer, in, chans, wlock, halt>>

\* Append on what outChannels[index] is by now: exists() is false, ids being
\* unique, and put() calls Lock(true), which keeps new readers of the lock out.
AppendBackChannel(c) ==
    /\ ReaderGoto(c, "append", "put")
    /\ wlock[Slot(c)] = Nobody
    /\ wlock' = [wlock EXCEPT ![Slot(c)] = c]
    /\ UNCHANGED <<cmd, conn, writer, in, slot, made, chans, halt>>

\* Give the locked group o its new channels, once its readers are out.
ChangeChannels(c, o, channels) ==
    /\ wlock[o] = c /\ rlock[o] = {}
    /\ chans' = [chans EXCEPT ![o] = channels]
    /\ wlock' = [wlock EXCEPT ![o] = Nobody]
    /\ UNCHANGED <<cmd, conn, writer, in, slot, made, halt>>

MutPut(c) == \* Append with its test on exists() the wrong way round
    ReaderGoto(c, "put", "read") /\ \E o \in Conns : ChangeChannels(c, o, chans[o])

Put(c) ==
    /\ ReaderGoto(c, "put", "read")
    /\ \E o \in Conns : ChangeChannels(c, o, chans[o] \cup {c})

ReadError(c) ==
    /\ sock[c] # "open"
    /\ ReaderGoto(c, "read", "remove")
    /\ UNCHANGED <<cmd, conn, writer, in, group, halt>>

\* Nil check, exists() and the Lock(true) of Remove.
RemoveBackChannel(c) ==
    /\ Slot(c) # Nobody => wlock[Slot(c)] = Nobody
    /\ IF Slot(c) # Nobody /\ c \in chans[Slot(c)]
       THEN /\ ReaderGoto(c, "remove", "delete")
            /\ wlock' = [wlock EXCEPT ![Slot(c)] = c]
       ELSE ReaderGoto(c, "remove", "forget") /\ UNCHANGED wlock
    /\ UNCHANGED <<cmd, conn, writer, in, slot, made, chans, halt>>

Delete(c) ==
    /\ ReaderGoto(c, "delete", "forget")
    /\ \E o \in Conns : ChangeChannels(c, o, chans[o] \ {c})

RemoveConnection(c) ==
    /\ ReaderGoto(c, "forget", "close")
    /\ record' = [record EXCEPT ![c] = FALSE]
    /\ UNCHANGED <<cmd, sock, writer, in, group, halt>>

\* The deferred connection.Close().
ReaderClose(c) ==
    /\ ReaderGoto(c, "close", "gone")
    /\ sock' = [sock EXCEPT ![c] = "closed"]
    /\ UNCHANGED <<cmd, record, writer, in, group, halt>>

ReaderStep(c) ==
    \/ Processing(c) \/ ProcessingClosed(c) \/ StartWriter(c) \/ CreateGroup(c)
    \/ AppendBackChannel(c) \/ Put(c) \/ ReadError(c) \/ RemoveBackChannel(c)
    \/ Delete(c) \/ RemoveConnection(c) \/ ReaderClose(c)

ReaderFrame ==
    UNCHANGED <<listener, cur, back, closed, worker, job, stops, rlock, stop, hist>>

-----------------------------------------------------------------------------
\* worker

WorkerGoto(w, from, to) ==
    /\ worker[w] = from
    /\ worker' = [worker EXCEPT ![w] = to]

\* A value, or the close, of workerStopSignalChannel.
WorkerStop(w) ==
    /\ stops > 0 \/ closed
    /\ WorkerGoto(w, "idle", "done")
    /\ stops' = IF stops > 0 THEN stops - 1 ELSE 0
    /\ UNCHANGED <<job, in, back, rlock, dropped, halt>>

\* Receive an instruction; Execute makes one output for the same cid.  Those that make
\* one for another connection too, and the loop over both, are in Rpc.
WorkerTake(w) ==
    /\ in # <<>>
    /\ WorkerGoto(w, "idle", "route")
    /\ job' = [job EXCEPT ![w] = Head(in)]
    /\ in' = Tail(in)
    /\ UNCHANGED <<stops, back, rlock, dropped, halt>>

\* A closed, empty channel yields a zero instruction: Execute has no handler for
\* its type 0 and MakeErrAnswer dereferences its nil command.
WorkerTakeClosed(w) ==
    /\ worker[w] = "idle" /\ in = <<>> /\ closed
    /\ Panic("nil command")
    /\ UNCHANGED <<worker, job, in, stops, back, rlock, dropped>>

\* Send on a nil group.
SendNil(w) ==
    /\ worker[w] = "route" /\ Slot(job[w].cid) = Nobody
    /\ Panic("nil group")
    /\ UNCHANGED <<worker, job, in, stops, back, rlock, dropped>>

MutHoldLock(o, w) == rlock \* unlock before the channel send
HoldLock(o, w) == [rlock EXCEPT ![o] = @ \cup {w}]
MutReleaseLock(w) == rlock \* an early return without the unlock
ReleaseLock(w) == [o \in Conns |-> rlock[o] \ {w}]

\* Send: Lock(false) and the lookup; without an entry the answer is dropped.
SendLookup(w) ==
    LET c == job[w].cid  o == Slot(c) IN
    /\ worker[w] = "route" /\ o # Nobody /\ wlock[o] = Nobody
    /\ IF c \in chans[o]
       THEN /\ WorkerGoto(w, "route", "send")
            /\ rlock' = HoldLock(o, w)
            /\ UNCHANGED dropped
       ELSE /\ WorkerGoto(w, "route", "idle")
            /\ dropped' = dropped \cup {<<c, job[w].id>>}
            /\ UNCHANGED rlock
    /\ UNCHANGED <<job, in, stops, back, halt>>

\* Send: the channel send and, after it, the Unlock.
Send(w) ==
    LET c == job[w].cid IN
    /\ WorkerGoto(w, "send", "idle")
    /\ ~BackClosed(c) /\ Len(back[c]) < BufferSize
    /\ back' = [back EXCEPT ![c] = Append(@, job[w])]
    /\ rlock' = ReleaseLock(w)
    /\ UNCHANGED <<job, in, stops, dropped, halt>>

SendClosed(w) ==
    /\ worker[w] = "send" /\ BackClosed(job[w].cid)
    /\ Panic("send on closed back channel")
    /\ UNCHANGED <<worker, job, in, stops, back, rlock, dropped>>

WorkerStep(w) ==
    \/ WorkerStop(w) \/ WorkerTake(w) \/ WorkerTakeClosed(w)
    \/ SendNil(w) \/ SendLookup(w) \/ Send(w) \/ SendClosed(w)

WorkerFrame ==
    UNCHANGED <<listener, reader, cmd, conn, writer, cur, closed, group, stop,
                written, unwritten>>

-----------------------------------------------------------------------------
\* connectionWriteProcessing

WriterGoto(c, from, to) ==
    /\ writer[c] = from
    /\ writer' = [writer EXCEPT ![c] = to]

Receive(c) ==
    /\ back[c] # <<>>
    /\ WriterGoto(c, "recv", "write")
    /\ cur' = [cur EXCEPT ![c] = Head(back[c])]
    /\ back' = [back EXCEPT ![c] = Tail(@)]
    /\ UNCHANGED <<sock, written, unwritten, halt>>

\* An answer is in Write to a client that is there.  There is no deadline: the Write
\* returns when the client reads, or leaves, and nothing says that it does either.
Unread(c) == writer[c] = "write" /\ HasAnswer(cur[c]) /\ sock[c] = "open"

\* Write the answer, if there is one; then UpdateState, the exit, or the loop.
Write(c) ==
    /\ HasAnswer(cur[c]) => sock[c] # "closed"
    /\ WriterGoto(c, "write", CASE cur[c].kind = "state" -> "update"
                                [] cur[c].kind = "exit" -> "exit"
                                [] OTHER -> "recv")
    /\ written' = IF HasAnswer(cur[c])
                  THEN [written EXCEPT ![c] = Append(@, cur[c].id)] ELSE written
    /\ UNCHANGED <<cur, back, sock, unwritten, halt>>

MutWriteError(c) == \* the loop goes on and writes again
    /\ writer[c] = "write" /\ HasAnswer(cur[c]) /\ sock[c] # "open"
    /\ unwritten' = unwritten \cup {<<c, cur[c].id>>}
    /\ UNCHANGED <<writer, cur, back, sock, written, halt>>

WriteError(c) ==
    /\ HasAnswer(cur[c]) /\ sock[c] # "open"
    /\ WriterGoto(c, "write", IF NeedExit(cur[c]) THEN "exit" ELSE "end")
    /\ unwritten' = unwritten \cup {<<c, cur[c].id>>}
    /\ UNCHANGED <<cur, back, sock, written, halt>>

\* dataManager.UpdateState.
UpdateState(c) ==
    /\ record[c]
    /\ WriterGoto(c, "update", "recv")
    /\ UNCHANGED <<cur, back, sock, written, unwritten, halt>>

UpdateStateNil(c) ==
    /\ writer[c] = "update" /\ ~record[c]
    /\ Panic("nil state record")
    /\ UNCHANGED <<writer, cur, back, sock, written, unwritten>>

\* NeedExit: connection.Close().
CloseSocket(c) ==
    /\ WriterGoto(c, "exit", "end")
    /\ sock' = [sock EXCEPT ![c] = "closed"]
    /\ UNCHANGED <<cur, back, written, unwritten, halt>>

\* The loop is over: close(*backChannel).  After a failed Write without an exit the socket
\* is left to the reader.
CloseBack(c) ==
    /\ WriterGoto(c, "end", "ended")
    /\ UNCHANGED <<cur, back, sock, written, unwritten, halt>>

WriterStep(c) ==
    \/ Receive(c) \/ Write(c) \/ WriteError(c)
    \/ UpdateState(c) \/ UpdateStateNil(c) \/ CloseSocket(c) \/ CloseBack(c)

WriterFrame ==
    UNCHANGED <<listener, reader, cmd, record, in, closed, worker, job, stops, group,
                rlock, stop, dropped>>

-----------------------------------------------------------------------------
\* Launch and CoreWorkerManager.Stop

\* main is "out" when the select of Launch also has the value of OutSignalChannel.
Signal ==
    /\ main \in {"wait", "out"} /\ signals < MaxSignals
    /\ signals' = signals + 1
    /\ main' = "stop"
    /\ UNCHANGED <<stops, closed, wlock, back, todo, pend, halt>>

\* One value per worker: the channel has room for them the first time.
StopSignals ==
    /\ main = "stop" /\ ~closed
    /\ stops' = Cardinality(Workers)
    /\ main' = "close"
    /\ UNCHANGED <<signals, closed, wlock, back, todo, pend, halt>>

StopTwice ==
    /\ main = "stop" /\ closed
    /\ Panic("send on closed workerStopSignalChannel")
    /\ UNCHANGED <<main, signals, stops, closed, wlock, back, todo, pend>>

CloseChannels ==
    /\ main = "close"
    /\ closed' = TRUE
    /\ todo' = Groups
    /\ main' = "groups"
    /\ UNCHANGED <<signals, stops, wlock, back, pend, halt>>

SkipNil(g) ==
    /\ main = "groups" /\ g \in todo /\ slot[g] = Nobody
    /\ todo' = todo \ {g}
    /\ UNCHANGED <<main, signals, stops, closed, wlock, back, pend, halt>>

\* SendExit: Lock(true) ...
SendExitLock(g) ==
    /\ main = "groups" /\ g \in todo /\ slot[g] # Nobody
    /\ wlock[slot[g]] = Nobody
    /\ wlock' = [wlock EXCEPT ![slot[g]] = Main]
    /\ todo' = todo \ {g}
    /\ main' = "lock"
    /\ UNCHANGED <<signals, stops, closed, back, pend, halt>>

\* ... obtained when the readers of the lock are out ...
SendExitStart ==
    \E o \in Conns :
        /\ main = "lock" /\ wlock[o] = Main /\ rlock[o] = {}
        /\ pend' = chans[o]
        /\ main' = "send"
        /\ UNCHANGED <<signals, stops, closed, wlock, back, todo, halt>>

MutSendExit(c) == \* a send that gives up on a full channel
    /\ main = "send" /\ c \in pend
    /\ back' = IF Len(back[c]) < BufferSize
               THEN [back EXCEPT ![c] = Append(@, ExitInstruction)] ELSE back
    /\ pend' = pend \ {c}
    /\ UNCHANGED <<main, signals, stops, closed, wlock, todo, halt>>

MutSendExitRoom(c) == \* a full channel is emptied for the exit
    /\ main = "send" /\ c \in pend /\ ~BackClosed(c)
    /\ back' = [back EXCEPT ![c] = <<ExitInstruction>>]
    /\ pend' = pend \ {c}
    /\ UNCHANGED <<main, signals, stops, closed, wlock, todo, halt>>

\* ... a send to each channel ...
SendExit(c) ==
    /\ main = "send" /\ c \in pend
    /\ ~BackClosed(c) /\ Len(back[c]) < BufferSize
    /\ back' = [back EXCEPT ![c] = Append(@, ExitInstruction)]
    /\ pend' = pend \ {c}
    /\ UNCHANGED <<main, signals, stops, closed, wlock, todo, halt>>

SendExitClosed(c) ==
    /\ main = "send" /\ c \in pend /\ BackClosed(c)
    /\ Panic("send on closed back channel")
    /\ UNCHANGED <<main, signals, stops, closed, wlock, back, todo, pend>>

\* ... and the Unlock.
SendExitUnlock ==
    /\ main = "send" /\ pend = {}
    /\ wlock' = [o \in Conns |-> IF wlock[o] = Main THEN Nobody ELSE wlock[o]]
    /\ main' = "groups"
    /\ UNCHANGED <<signals, stops, closed, back, todo, pend, halt>>

OutSignal ==
    /\ main = "groups" /\ todo = {}
    /\ main' = "out"
    /\ UNCHANGED <<signals, stops, closed, wlock, back, todo, pend, halt>>

\* Launch returns, whatever the other goroutines still have to do.
Exit ==
    /\ main = "out"
    /\ halt' = "exit"
    /\ UNCHANGED <<main, signals, stops, closed, wlock, back, todo, pend>>

MainStep ==
    \/ StopSignals \/ StopTwice \/ CloseChannels
    \/ \E g \in Groups : SkipNil(g) \/ SendExitLock(g)
    \/ SendExitStart \/ (\E c \in Conns : SendExit(c) \/ SendExitClosed(c))
    \/ SendExitUnlock \/ OutSignal \/ Exit

MainFrame ==
    UNCHANGED <<listener, reader, cmd, conn, writer, cur, in, worker, job, slot, made,
                chans, rlock, hist>>

-----------------------------------------------------------------------------
\* The process ended, or it waits for clients with every connection cleaned up,
\* every instruction handled and every lock free.
Quiet ==
    \/ halt # "no"
    \/ /\ \A c \in Conns :
             /\ reader[c] = "gone" \/ (reader[c] = "read" /\ c \notin Leaving)
             /\ writer[c] = "recv" => back[c] = <<>>
       /\ \A w \in Workers : worker[w] = "idle"
       /\ \A o \in Conns : rlock[o] = {} /\ wlock[o] = Nobody
       /\ in = <<>> /\ main = "wait"

Read(c) == halt = "no" /\ ReadCommand(c) /\ ReaderFrame
Reader(c) == halt = "no" /\ ReaderStep(c) /\ ReaderFrame
Worker(w) == halt = "no" /\ WorkerStep(w) /\ WorkerFrame
Writer(c) == halt = "no" /\ WriterStep(c) /\ WriterFrame
MainNext == halt = "no" /\ MainStep /\ MainFrame

Next ==
    \/ halt = "no" /\ Listener
    \/ \E c \in Conns : Read(c) \/ Reader(c) \/ Writer(c)
    \/ \E w \in Workers : Worker(w)
    \/ MainNext
    \/ halt = "no" /\ Signal /\ MainFrame
    \/ Quiet /\ UNCHANGED vars

Spec == Init /\ [][Next]_vars

\* Go runs every goroutine that can run and hands over an RWMutex.  Nothing is assumed of
\* clients, of what they send, of when they leave, or of signals, nor that a client that
\* is there ever reads: its Write, without a deadline, may last for good.
FairSpec ==
    /\ Spec
    /\ \A c \in Conns : WF_vars(Reader(c)) /\ WF_vars(~Unread(c) /\ Writer(c))
    /\ \A w \in Workers : WF_vars(Worker(w))
    /\ WF_vars(MainNext)
=============================================================================
