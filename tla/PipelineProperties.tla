------------------------- MODULE PipelineProperties -------------------------
(***************************************************************************)
(* What is expected of Pipeline: invariants, action properties, liveness   *)
(* and the refinement of Delivery.                                         *)
(***************************************************************************)
EXTENDS Pipeline

ReaderStates == {"none", "read", "process", "back", "create", "append", "put", "remove",
                 "delete", "forget", "close", "gone"}
WriterStates == {"none", "recv", "write", "update", "exit", "end", "ended"}
WorkerStates == {"idle", "route", "send", "done"}
MainStates == {"wait", "stop", "close", "groups", "lock", "send", "out"}
Causes == {"no", "exit", "send on closed instructionsChannel", "nil command", "nil group",
           "send on closed back channel", "nil state record",
           "send on closed workerStopSignalChannel"}

Outputs == Instructions \cup {ExitInstruction}

NetworkOK ==
    /\ listener \in {"check", "accept", "closed"}
    /\ sock \in [Conns -> {"none", "open", "broken", "closed"}]
    /\ record \in [Conns -> BOOLEAN]
ReadersOK ==
    /\ reader \in [Conns -> ReaderStates]
    /\ cmd \in [Conns -> Instructions \cup {NoInstruction}]
    /\ \A c \in Conns : reader[c] = "process" => cmd[c] \in Instructions
WritersOK ==
    /\ writer \in [Conns -> WriterStates]
    /\ cur \in [Conns -> Outputs \cup {NoInstruction}]
WorkersOK ==
    /\ worker \in [Workers -> WorkerStates]
    /\ job \in [Workers -> Instructions \cup {NoInstruction}]
    /\ \A w \in Workers : worker[w] \in {"route", "send"} => job[w] \in Instructions
QueuesOK ==
    /\ in \in Seq(Instructions)
    /\ back \in [Conns -> Seq(Outputs)]
    /\ closed \in BOOLEAN
GroupsOK ==
    /\ slot \in [Groups -> Conns \cup {Nobody}]
    /\ made \subseteq Conns
    /\ chans \in [Conns -> SUBSET Conns]
    /\ rlock \in [Conns -> SUBSET Workers]
    /\ wlock \in [Conns -> Conns \cup {Main, Nobody}]
MainOK ==
    /\ main \in MainStates /\ signals \in Nat
    /\ todo \subseteq Groups /\ pend \subseteq Conns
    /\ halt \in Causes
HistoryOK ==
    /\ written \in [Conns -> Seq(Nat \ {0})]
    /\ dropped \subseteq Conns \X (Nat \ {0}) /\ unwritten \subseteq Conns \X (Nat \ {0})

\* Program counters are places in the code, channels hold instructions that some
\* connection sent or an exit, never the zero instruction, maps hold connections
\* and locks are held by goroutines.
TypeOK ==
    /\ NetworkOK /\ ReadersOK /\ WritersOK /\ WorkersOK
    /\ QueuesOK /\ GroupsOK /\ MainOK /\ HistoryOK
    /\ stops \in 0..Cardinality(Workers)

-----------------------------------------------------------------------------
\* Two readers of one index both saw nil, and the group of one replaced the
\* group of the other (coresupport.go:185-187).
GroupLost == \E o \in made : slot[GroupOf[o]] # o

\* The reader is past RemoveBackChannel.
Removed(c) == reader[c] \in {"forget", "close", "gone"}

\* Processing runs before AppendBackChannel (connectionserver.go:165-172), so a
\* worker may find no channel for the first command of a connection.  No later
\* command meets that: unless a group was lost in the creation race, an answer
\* to it is dropped only after its connection removed its channel itself.
OnlyFirstDropped ==
    GroupLost \/ \A d \in dropped : d[2] > 1 => Removed(d[1])

\* Send holds the read lock during the channel send, which makes Remove, with the
\* write lock, a barrier: once RemoveBackChannel returned, no goroutine holds or
\* can get the channel any more.  So only before that can a send meet a channel
\* that its writer closed.
RemovedUnreachable ==
    GroupLost \/ \A c \in Conns : Removed(c) =>
        /\ \A o \in Conns : c \notin chans[o]
        /\ \A w \in Workers : worker[w] = "send" => job[w].cid # c
        /\ c \notin pend

\* Across queue, worker, back channel and writer no command is answered twice,
\* or answered after its answer was dropped or its write failed.
AtMostOnce ==
    \A c \in Conns :
        /\ \A i, j \in 1..Len(written[c]) : written[c][i] = written[c][j] => i = j
        /\ \A i \in 1..Len(written[c]) : <<c, written[c][i]>> \notin dropped \cup unwritten
        /\ \A d \in dropped : d \notin unwritten

\* An exit instruction is with the writer of c or before it, or the writer ended.
ExitOnItsWay(c) ==
    \/ \E i \in 1..Len(back[c]) : NeedExit(back[c][i])
    \/ writer[c] = "write" /\ NeedExit(cur[c])
    \/ writer[c] \in {"exit", "end", "ended"}

\* SendExit keeps the write lock from its first to its last send: when it unlocks
\* a group, the exit has reached every connection the group has by then.
StopNotifies ==
    [][\A o \in Conns :
          main = "send" /\ wlock[o] = Main /\ main' = "groups" =>
              \A c \in chans'[o] : ExitOnItsWay(c)']_vars

-----------------------------------------------------------------------------
Commands == UNION {{c} \X (1..MaxCmds[c]) : c \in Conns}

AtWriter(c, n) == writer[c] = "write" /\ cur[c].id = n
Answered(c, n) == \E i \in 1..Len(written[c]) : written[c][i] = n
InBack(c, n) == \E i \in 1..Len(back[c]) : back[c][i].id = n
InQueue(c, n) == \E i \in 1..Len(in) : in[i].cid = c /\ in[i].id = n
InWorker(c, n) ==
    \E w \in Workers : worker[w] \in {"route", "send"} /\ job[w].cid = c /\ job[w].id = n

\* The phase of a command, read off the place where it is.
PhaseOf(c, n) ==
    IF Answered(c, n) THEN "answered"
    ELSE IF <<c, n>> \in dropped \cup unwritten THEN "lost"
    ELSE IF InBack(c, n) \/ AtWriter(c, n) THEN "outgoing"
    ELSE IF InWorker(c, n) THEN "working"
    ELSE IF InQueue(c, n) THEN "queued"
    ELSE "new"

Phase == [m \in Commands |-> PhaseOf(m[1], m[2])]

D == INSTANCE Delivery WITH phase <- Phase

\* Goroutines, channels and locks implement Delivery: a command moves from the
\* queue to one worker, to the writer of its own connection and to its socket,
\* or is lost, and never goes back.
ImplementsDelivery == D!Spec

-----------------------------------------------------------------------------
\* A send to the back channel does not wait, if only to panic.
HasRoom(c) == BackClosed(c) \/ Len(back[c]) < BufferSize

\* Who waits for nobody: neither for a lock, nor for room in a channel, nor for a value.
ReaderFree(c) ==
    CASE reader[c] = "read" -> sock[c] # "open"
      [] reader[c] = "process" -> closed \/ Len(in) < BufferSize
      [] reader[c] = "append" -> wlock[Slot(c)] = Nobody
      [] reader[c] \in {"put", "delete"} -> \E o \in Conns : wlock[o] = c /\ rlock[o] = {}
      [] reader[c] = "remove" -> Slot(c) # Nobody => wlock[Slot(c)] = Nobody
      [] OTHER -> reader[c] \notin {"none", "gone"}

WorkerFree(w) ==
    \/ worker[w] = "idle" /\ (stops > 0 \/ closed \/ in # <<>>)
    \/ worker[w] = "route" /\ (Slot(job[w].cid) # Nobody => wlock[Slot(job[w].cid)] = Nobody)
    \/ worker[w] = "send" /\ HasRoom(job[w].cid)

\* Send or SendExit waits, with the lock of the group, for room in the channel of a client
\* that does not read (coresupport.go:84, :107, connectionserver.go:83).
JammedAt(c) ==
    /\ Unread(c) /\ ~HasRoom(c)
    /\ \/ \E w \in Workers : worker[w] = "send" /\ job[w].cid = c
       \/ main = "send" /\ c \in pend
Jammed == \E c \in Conns : JammedAt(c)

\* The writer has nothing to do, or nothing any more.
Settled(c) == writer[c] \in {"none", "ended"} \/ (writer[c] = "recv" /\ back[c] = <<>>)

MainFree ==
    CASE main = "groups" -> \A g \in todo : slot[g] # Nobody => wlock[slot[g]] = Nobody
      [] main = "lock" -> \E o \in Conns : wlock[o] = Main /\ rlock[o] = {}
      [] main = "send" -> \A c \in pend : HasRoom(c)
      [] OTHER -> main # "wait"

CanGo ==
    \/ \E c \in Conns : ReaderFree(c) \/ ~(Settled(c) \/ Unread(c))
    \/ \E w \in Workers : WorkerFree(w)
    \/ MainFree

\* Everybody waits for a client or a signal, with no lock held and nothing queued, and
\* every command was answered, unless its client does not read, is gone or asked for an
\* exit, it was the first of its connection, or a group was lost.
AtRest ==
    /\ in = <<>> /\ \A o \in Conns : wlock[o] = Nobody /\ rlock[o] = {}
    /\ main = "wait" /\ \A w \in Workers : worker[w] = "idle"
    /\ \A c \in Conns :
          /\ reader[c] \in {"none", "gone"} \/ (reader[c] = "read" /\ sock[c] = "open")
          /\ \A n \in 1..cmd[c].id :
                \/ PhaseOf(c, n) = "answered" \/ sock[c] # "open" \/ GroupLost
                \/ n = 1 /\ <<c, n>> \in dropped
                \/ Unread(c) /\ PhaseOf(c, n) = "outgoing"

\* Locks, channels and goroutines never wait for each other in a circle, whatever the
\* size of the channels: the pipeline comes to rest only with nothing left to do, or with
\* a Send held up, and its lock with it, by one client that does not read.
RestsOnlyDone == halt = "no" /\ Workers # {} => CanGo \/ AtRest \/ Jammed

-----------------------------------------------------------------------------
\* Every command read after the first is answered, as long as its client stays, asks
\* for no exit, no group was lost and the process runs on; or else its own client, or one
\* whose full channel keeps a worker and the lock of its group, stops reading for good.
LaterAnswered ==
    \A c \in Conns : \A n \in 2..MaxCmds[c] :
        \/ cmd[c].id >= n ~> Answered(c, n) \/ sock[c] # "open" \/ GroupLost \/ halt # "no"
        \/ <>[](Unread(c) \/ Jammed)

\* A reader that lost its client gets through the locks of its group and ends, unless a
\* client of its group that stops reading for good keeps a worker, with the read lock, in
\* Send; a channel that is only full at times does not stop it.  It removes the back
\* channel without closing it (connectionserver.go:198), which may leave its writer there
\* for good, but not with an answer in the channel.
CleanupEnds ==
    \A c \in Conns :
        \/ reader[c] \in {"remove", "delete"} \/ Removed(c) ~>
              \/ reader[c] = "gone" /\ (Settled(c) \/ GroupLost)
              \/ halt # "no"
        \/ <>[](\E d \in Conns : GroupOf[d] = GroupOf[c] /\ JammedAt(d))
=============================================================================
