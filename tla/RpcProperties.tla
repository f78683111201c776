---------------------------- MODULE RpcProperties ----------------------------
(***************************************************************************)
(* What is expected of Rpc.                                                *)
(***************************************************************************)
EXTENDS Rpc

Instruction ==
    [to : Conns, type : {"ok", "problem", "execute", "result", "exit"}, change : Changes,
     task : Tasks \cup {Nobody}]
CommandTypes ==
    {"auth", "badauth", "reg", "status", "result", "getresult", "external", "skip", "exit"}
Job ==
    [cid : Conns, type : CommandTypes, arg : (1..4) \cup Tasks \cup Methods \cup {Nobody}]
Record == [auth : BOOLEAN, group : 0..3, status : 0..3]

\* The instruction has the parameter that the handlers of its type take.
Fits(j) ==
    /\ j.type = "status" => j.arg \in (1..3) \cup {Nobody}
    /\ j.type = "result" => j.arg \in Tasks \cup {Nobody}
    /\ j.type = "external" => j.arg \in known

ConnectionsOK ==
    /\ reader \in [Conns -> {"none", "read", "back", "create", "append", "put", "methods",
                             "channel", "delete", "record", "close", "gone"}]
    /\ sock \in [Conns -> {"none", "open", "broken", "closed"}]
    /\ sent \in [Conns -> Nat] /\ waiting \in [Conns -> Int]
    /\ state \in [Conns -> Record \cup {Nobody}]
    /\ chan \in [Conns -> {"none", "open", "removed"}]
    /\ slot \in [Groups -> Conns \cup {Nobody}] /\ home \in [Conns -> Conns \cup {Nobody}]
WritersOK ==
    /\ out \in [Conns -> Seq(Instruction)]
    /\ \A c \in Conns : \A n \in DOMAIN out[c] : out[c][n].to = c
    /\ writer \in [Conns -> {"none", "recv", "update", "exit", "end", "ended"}]
    /\ cur \in [Conns -> Instruction \cup {Nobody}]
    /\ \A c \in Conns : writer[c] \in {"update", "exit", "end"} => cur[c] \in Instruction
WorkersOK ==
    /\ in \in Seq(Job) /\ \A n \in DOMAIN in : Fits(in[n])
    /\ worker \in [Workers -> CommandTypes \cup {"idle", "append", "pick", "send"}]
    /\ job \in [Workers -> Job \cup {Nobody}]
    /\ \A w \in Workers : worker[w] # "idle" => job[w] \in Job /\ Fits(job[w])
    /\ \A w \in Workers : worker[w] \in CommandTypes => job[w].type = worker[w]
    /\ outs \in [Workers -> Seq(Instruction)] /\ rlock \in [Workers -> Conns \cup {Nobody}]
    /\ cand \in [Workers -> SUBSET Conns]
TasksOK ==
    /\ known \subseteq Methods /\ methods \in [Methods -> SUBSET Conns]
    /\ tasks \in 0..MaxTasks /\ direction \in [Tasks -> Conns \cup {Nobody}]
    /\ \A t \in Tasks : direction[t] # Nobody => t <= tasks
    /\ buffer \subseteq 1..tasks
HistoryOK ==
    /\ given \in [Conns -> SUBSET (Tasks \cup {Nobody})]
    /\ told \in [Conns -> SUBSET (Tasks \cup {Nobody})] /\ acked \subseteq Tasks
    /\ lost \subseteq Instruction /\ last \in [Conns -> 0..3]
    /\ halt \in {"no", "nil group", "send on closed back channel", "nil state record"}

\* A worker is in a handler of the type of its instruction, which has the parameter
\* the handler takes; a back channel holds instructions for its own connection; a
\* result is kept for a task that exists.
TypeOK == ConnectionsOK /\ WritersOK /\ WorkersOK /\ TasksOK /\ HistoryOK

-----------------------------------------------------------------------------
\* The channel was put in a group that another reader, with an old look at the slot, then
\* replaced (coresupport.go:185-187).
Replaced(c) == chan[c] = "open" /\ home[c] # Slot(c)

\* A call that was routed is lost only when its server has gone through its cleanup or
\* its group was replaced: a server can register only with its auth in the state, which
\* its writer sets, and a writer has something to write only after AppendBackChannel.  So
\* no call is lost to the first command being handled before its back channel is there.
LostOnlyGone ==
    \A o \in lost : o.type = "execute" => chan[o.to] = "removed" \/ Replaced(o.to)

\* Every command is answered once at most: what the writer writes as an answer finds
\* a command that waits for it.
AnswersAwaited == \A c \in Conns : waiting[c] >= 0

\* A result that was acknowledged to its server is in the buffer: direction has the
\* task before the server can know of it, and the record is made before the answer.
ResultKept ==
    \A s \in Conns : \A t \in given[s] : t \in acked => t \in buffer

\* A task is given to one server at most, and belongs to the client that was told.
TaskRouting ==
    /\ \A r, s \in Conns : r # s => given[r] \cap given[s] = {} /\ told[r] \cap told[s] = {}
    /\ \A c \in Conns : \A t \in told[c] : direction[t] = c

\* Every answer the writer had for c is written, and its state updates are done.
Settled(c) ==
    /\ waiting[c] = 0 /\ writer[c] = "recv" /\ out[c] = <<>> /\ state[c] # Nobody

\* Two workers may handle two commands of one server in any order, so busy and
\* active could end the wrong way round.  They do not for a server that waits for
\* its answers: the router sees the status that the server asked for last.
StatusSettles ==
    \A c \in Conns : Settled(c) /\ last[c] # 0 => state[c].status = last[c]

Routed(t, s) ==
    \/ \E w \in Workers : \E n \in DOMAIN outs[w] :
          outs[w][n].type = "execute" /\ outs[w][n].task = t /\ outs[w][n].to = s
    \/ \E n \in DOMAIN out[s] : out[s][n].type = "execute" /\ out[s][n].task = t

\* A send to the back channel does not wait, if only to panic.
HasRoom(c) == writer[c] = "ended" \/ Room(c)

\* Who waits for nobody: neither for a lock, nor for room in a channel, nor for a value;
\* the bound on tasks keeps nobody of the program waiting.
ReaderFree(c) ==
    CASE reader[c] = "read" -> sock[c] # "open"
      [] reader[c] = "append" -> ~Locked(Slot(c))
      [] reader[c] \in {"put", "delete"} -> Unlock(home[c])
      [] reader[c] = "channel" -> Slot(c) # Nobody => ~Locked(Slot(c))
      [] OTHER -> reader[c] \notin {"none", "gone"}
WriterFree(c) ==
    writer[c] \in {"update", "exit", "end"} \/ (writer[c] = "recv" /\ out[c] # <<>> /\ ~Unread(c))
WorkerFree(w) ==
    LET c == Head(outs[w]).to IN
    CASE worker[w] = "idle" -> in # <<>>
      [] worker[w] = "send" ->
            IF rlock[w] = Nobody THEN Slot(c) # Nobody => ~Locked(Slot(c)) ELSE HasRoom(c)
      [] OTHER -> TRUE

\* A worker waits in Send, with the lock of the group, for room in the channel of a
\* connection that does not read (coresupport.go:84, connectionserver.go:83, :98).
JammedAt(c) ==
    /\ Unread(c) /\ ~HasRoom(c)
    /\ \E w \in Workers : worker[w] = "send" /\ rlock[w] # Nobody /\ Head(outs[w]).to = c
Jammed == \E c \in Conns : JammedAt(c)

\* The server of the task left before it could get it, or is cut off from the workers with
\* its group.
CutOff(t, s) ==
    /\ sock[s] # "open" \/ Replaced(s)
    /\ Routed(t, s) \/ Out(s, "execute", NoChange, t) \in lost \cup {cur[s]}

\* When nobody has anything to do, and no Send is held up by a connection that does not
\* read, a worker that failed to send one instruction has not left out another: every task
\* is with a server, or its server left, does not read or was cut off, and every command
\* is answered, unless its connection is gone, does not read, was too late to register its
\* channel or was cut off.
NoneForgotten ==
    halt = "no" /\ Workers # {} =>
        \/ \E c \in Conns : ReaderFree(c) \/ WriterFree(c)
        \/ \E w \in Workers : WorkerFree(w)
        \/ Jammed
        \/ /\ \A t \in 1..tasks : \E s \in Conns :
                 t \in given[s] \/ CutOff(t, s) \/ (Unread(s) /\ Routed(t, s))
           /\ \A c \in Conns :
                 \/ waiting[c] = 0 \/ sock[c] # "open" \/ Unread(c)
                 \/ \E o \in lost : o.to = c

\* A task reaches its server, also when the client is gone and the answer with the task
\* has nowhere to go: unless the server leaves or its group was replaced, or the server,
\* or one whose full channel keeps a worker and the lock of a group, stops reading for good.
TaskReachesServer ==
    \A t \in Tasks :
        \/ (\E s \in Conns : Routed(t, s)) ~>
              (\E s \in Conns : t \in given[s] \/ CutOff(t, s)) \/ halt # "no"
        \/ <>[](Jammed \/ \E s \in Conns : Unread(s) /\ Routed(t, s))

-----------------------------------------------------------------------------
\* A claim of the code that it does not keep.

\* "update state data of connection by CID" (connectionsupport.go:254): there is a
\* state to update.
StateToUpdate == halt # "nil state record"
=============================================================================
