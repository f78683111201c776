------------------------- MODULE RlServerProperties -------------------------
(***************************************************************************)
(* What is expected of the prototype server.                               *)
(***************************************************************************)
EXTENDS RlServer

HandlerStates == {"none", "accepted", "read", "put", "used", "add", "remove", "delete", "gone"}
Kinds == {"cmd", "empty"}

\* Places are places of the code, buffers hold no more than their capacity, a worker in
\* put or send has an answer for it, and locks are held by goroutines.
TypeOK ==
    /\ active \in BOOLEAN /\ listener \in {"check", "accept", "count"} /\ late \subseteq Conns
    /\ main \in {"run", "stop", "wait", "finish", "done"}
    /\ handler \in [Conns -> HandlerStates]
    /\ context \in [Conns -> [key : BOOLEAN, auth : BOOLEAN, group : 0..2]]
    /\ info \in [Conns -> BOOLEAN] /\ sock \in [Conns -> {"none", "open", "broken", "closed"}]
    /\ msg \in [Conns -> Msgs] /\ sent \in [Conns -> Nat]
    /\ core \in Seq(Msgs) /\ Len(core) <= BufferSize /\ closed \in BOOLEAN
    /\ chans \subseteq Conns /\ shut \subseteq Conns
    /\ dlock \in Workers \cup {Cast, Nobody}
    /\ answers \in [Conns -> Seq(Kinds)] /\ \A c \in Conns : Len(answers[c]) <= BufferSize
    /\ writer \in [Conns -> {"none", "recv", "write", "ended"}] /\ cur \in [Conns -> Kinds]
    /\ worker \in [Workers -> {"check", "recv", "put", "send", "done"}]
    /\ todo \in [Workers -> Seq([to : Conns, kind : Kinds])]
    /\ \A w \in Workers : (worker[w] \in {"put", "send"}) = (todo[w] # <<>>)
    /\ caster \in {"check", "lock", "send", "ended"} /\ pend \subseteq Conns
    /\ methods \in Seq(Conns) /\ busy \subseteq Conns
    /\ halt \in {"no", "send on closed core buffer", "concurrent map access", "unknown group"}

-----------------------------------------------------------------------------
Sending(c) ==
    \/ \E w \in Workers : worker[w] = "send" /\ Head(todo[w]).to = c
    \/ caster = "send" /\ c \in pend

\* A connection has its channel in the dispatcher from AddChannel to its RemoveChannel or
\* CloseAll, so its answers are lost only before and after that.  The channel is closed by
\* one of these two, once, and nobody sends to it any more: the handler leaves the close
\* to the dispatcher (rlserver.go:465), and the lock keeps the close away from every send.
ChannelInv ==
    \A c \in Conns :
        /\ c \in shut => handler[c] # "remove" \/ c \notin chans
        /\ c \in shut => ~Sending(c)
        /\ c \in chans \cap shut => handler[c] = "delete"
        /\ writer[c] # "none" /\ main \in {"run", "stop"} /\ c \notin chans =>
              c \in shut /\ handler[c] = "gone"

\* The map of the dispatcher changes under the write lock, but for RemoveChannel, which
\* deletes with the read lock (rlserver.go:103): only two of them, or one and a
\* checkUsedChannel, may meet there.
MapInv ==
    /\ dlock # Nobody => Readers = {}
    /\ dlock \in Workers => worker[dlock] = "send"
    /\ \A w \in Workers : worker[w] = "send" => dlock = w
    /\ (caster = "send") = (dlock = Cast)
    /\ halt = "concurrent map access" =>
          \E c, d \in Conns : c # d /\ handler[c] = "delete" /\ handler[d] \in {"delete", "used"}

\* Run closes the buffer of the workers once no connection is counted (rlserver.go:653).  A
\* send meets the closed buffer only from a connection that was counted after the stop,
\* whenever it was accepted (rlserver.go:487, :497).
ClosedLate ==
    /\ closed => \A c \in Conns : Counted(c) => c \in late
    /\ halt = "send on closed core buffer" => late # {}

-----------------------------------------------------------------------------
\* A full channel, still in the dispatcher, that nobody empties: its writer ended, after a
\* write error, a command that ends the connection, or an empty command; or it waits in
\* Write for a client that does not read.
Dead(c) == Len(answers[c]) = BufferSize /\ (writer[c] = "ended" \/ Unread(c))

\* A worker or the broadcast waits, with the lock of the dispatcher, for a dead channel.
DispatcherStuck == \E c \in Conns : Sending(c) /\ Dead(c)

\* The workers ended at the stop, and a handler waits for room in their buffer.
BufferStuck ==
    /\ \A w \in Workers : worker[w] = "done"
    /\ Len(core) = BufferSize /\ \E c \in Conns : handler[c] = "put"

Stuck == DispatcherStuck \/ BufferStuck

\* Who waits for nobody: neither for a lock, nor for room in a buffer, nor for a message.
HandlerFree(c) ==
    \/ handler[c] = "put" /\ (closed \/ Len(core) < BufferSize)
    \/ handler[c] \in {"used", "remove"} /\ CanRLock
    \/ handler[c] = "add" /\ CanLock
    \/ handler[c] = "delete"
    \/ handler[c] = "read" /\ sock[c] = "broken"

WriterFree(c) ==
    \/ writer[c] = "write" /\ ~Unread(c)
    \/ writer[c] = "recv" /\ (answers[c] # <<>> \/ c \in shut)

WorkerFree(w) ==
    \/ worker[w] = "check"
    \/ worker[w] = "recv" /\ (core # <<>> \/ closed)
    \/ worker[w] = "put" /\ CanLock
    \/ worker[w] = "send" /\ Len(answers[Head(todo[w]).to]) < BufferSize

CasterFree ==
    \/ caster = "lock" /\ CanLock
    \/ caster = "send" /\ \E c \in pend : Len(answers[c]) < BufferSize

MainFree ==
    main = "finish" \/ (main = "wait" /\ ~HasConnection) \/ (main = "stop" /\ CanLock)

\* Somebody can go on, other than a client, the writer that waits for it, and a broadcast
\* that has nobody to send to.
CanGo ==
    \/ listener = "count"
    \/ \E c \in Conns : HandlerFree(c) \/ WriterFree(c)
    \/ \E w \in Workers : WorkerFree(w)
    \/ CasterFree \/ MainFree

\* Nothing is left to do but what a client may ask for.
Idle ==
    /\ \A c \in Conns : handler[c] \in {"none", "gone"} \/ (handler[c] = "read" /\ sock[c] = "open")
    /\ \A c \in Conns : writer[c] = "write" => Unread(c)
    /\ \A w \in Workers : worker[w] \in {"recv", "done"}
    /\ caster \in {"check", "ended"}
    /\ main = "run" \/ (main = "wait" /\ HasConnection)

\* Dispatcher, buffer and stop wait for each other, but never for good: the server hangs
\* only with a full channel whose writer ended, or whose client does not read, or when a
\* stop meets the buffer full.  One such client is enough for all others, for the send has
\* the lock of the dispatcher.  And a writer ends only with its client, or after an empty
\* command.
HangsOnlyStuck ==
    /\ halt = "no" /\ main # "done" => CanGo \/ Idle \/ Stuck
    /\ \A c \in Conns : writer[c] = "ended" => sock[c] # "open" \/ cur[c] = "empty"
=============================================================================
