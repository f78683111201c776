--------------------------- MODULE RlServerProofs ---------------------------
(***************************************************************************)
(* Channels and the map of the dispatcher of the prototype, the close of   *)
(* its buffer, its types, and everything that hangs, for any numbers of    *)
(* connections and workers, any commands and any capacity.  The argument   *)
(* is the lock: who sends has it, and only RemoveChannel changes the map   *)
(* without it.                                                             *)
(***************************************************************************)
EXTENDS RlServerProperties, SequenceTheorems, TLAPS

-----------------------------------------------------------------------------
\* Why nobody sends to a closed channel.

\* Who sends has a channel of the dispatcher; a connection has none, open or closed, before
\* its AddChannel; the channel that a handler deletes is there, and closed.
ChannelPlaces ==
    /\ \A w \in Workers : worker[w] = "send" => Head(todo[w]).to \in chans
    /\ caster = "send" => pend \subseteq chans
    /\ \A c \in Conns :
          /\ writer[c] = "none" => c \notin chans \cup shut
          /\ handler[c] \in {"used", "add"} => writer[c] = "none"
          /\ handler[c] = "delete" => c \in chans \cap shut

\* The buffer is closed at the end of a stop.
StopInv ==
    /\ closed => main \in {"finish", "done"}
    /\ main # "run" => ~active

\* What TypeOK says of places, locks and the dispatcher.
Places ==
    /\ active \in BOOLEAN /\ closed \in BOOLEAN /\ late \subseteq Conns
    /\ main \in {"run", "stop", "wait", "finish", "done"}
    /\ handler \in [Conns -> HandlerStates]
    /\ chans \subseteq Conns /\ shut \subseteq Conns
    /\ dlock \in Workers \cup {Cast, Nobody}
    /\ writer \in [Conns -> {"none", "recv", "write", "ended"}]
    /\ worker \in [Workers -> {"check", "recv", "put", "send", "done"}] /\ DOMAIN todo = Workers
    /\ caster \in {"check", "lock", "send", "ended"} /\ pend \subseteq Conns

ServerInv ==
    Places /\ MapInv /\ ChannelPlaces /\ ChannelInv /\ StopInv /\ ClosedLate

LEMMA InitInv == Init => ServerInv
<1> SUFFICES ASSUME Init PROVE ServerInv
  OBVIOUS
<1> USE RlAssumption DEF Init
<1>1. Places
  BY DEF Places, HandlerStates
<1>2. MapInv /\ ChannelPlaces /\ StopInv /\ ClosedLate
  BY DEF MapInv, ChannelPlaces, StopInv, ClosedLate, Counted, Readers
<1>3. ChannelInv
  BY DEF ChannelInv, Sending
<1> QED BY <1>1, <1>2, <1>3 DEF ServerInv

-----------------------------------------------------------------------------
\* Steps that leave the dispatcher alone.

\* Nobody sends without the lock, and the map has no reader then.
LEMMA NobodySends ==
    ASSUME ServerInv, NEW c \in Conns, Sending(c)
    PROVE dlock # Nobody /\ Readers = {} /\ c \in chans
<1>1. CASE \E w \in Workers : worker[w] = "send" /\ Head(todo[w]).to = c
  <2>1. PICK w \in Workers : worker[w] = "send" /\ Head(todo[w]).to = c
    BY <1>1
  <2>2. dlock = w /\ w # Nobody /\ c \in chans
    BY <2>1, RlAssumption DEF ServerInv, MapInv, ChannelPlaces
  <2> QED BY <2>2 DEF ServerInv, MapInv
<1>2. CASE caster = "send" /\ c \in pend
  <2>1. dlock = Cast /\ Cast # Nobody /\ c \in chans
    BY <1>2, RlAssumption DEF ServerInv, MapInv, ChannelPlaces
  <2> QED BY <2>1 DEF ServerInv, MapInv
<1> QED BY <1>1, <1>2 DEF Sending

-----------------------------------------------------------------------------
\* Handlers.
LEMMA HandlerInv ==
    ASSUME ServerInv, NEW c \in Conns, halt = "no", HandlerFrame,
           HandlerRead(c) \/ HandlerLocks(c) \/ HandlerGoes(c)
    PROVE ServerInv'
<1> USE DEF ServerInv
<1>0. /\ UNCHANGED <<active, listener, main, late, closed, worker, todo, caster, pend>>
      /\ \A d \in Conns : Sending(d)' = Sending(d)
  BY DEF HandlerFrame, server, cast, Sending
<1>1. CASE FastCommand(c)
  <2>1. Places'
    BY <1>0, <1>1 DEF FastCommand, dispatcher, conn, Places, HandlerStates
  <2>2. MapInv'
    BY <1>0, <1>1, <2>1, RlAssumption
       DEF FastCommand, dispatcher, conn, Places, MapInv, Readers
  <2>3. ChannelPlaces'
    BY <1>0, <1>1 DEF FastCommand, dispatcher, conn, Places, ChannelPlaces
  <2>4. ChannelInv'
    BY <1>0, <1>1
       DEF FastCommand, dispatcher, conn, Places, ChannelInv, ChannelPlaces, Readers
  <2>5. StopInv' /\ ClosedLate'
    BY <1>0, <1>1 DEF FastCommand, dispatcher, conn, Places, StopInv, ClosedLate, Counted
  <2> QED BY <2>1, <2>2, <2>3, <2>4, <2>5
<1>2. CASE NewCoreMsg(c)
  <2>1. Places'
    BY <1>0, <1>2 DEF NewCoreMsg, HandlerGoto, dispatcher, conn, Places, HandlerStates
  <2>2. MapInv'
    BY <1>0, <1>2, <2>1, RlAssumption
       DEF NewCoreMsg, HandlerGoto, dispatcher, conn, Places, MapInv, Readers
  <2>3. ChannelPlaces'
    BY <1>0, <1>2 DEF NewCoreMsg, HandlerGoto, dispatcher, conn, Places, ChannelPlaces
  <2>4. ChannelInv'
    BY <1>0, <1>2
       DEF NewCoreMsg, HandlerGoto, dispatcher, conn, Places, ChannelInv, ChannelPlaces,
           Readers
  <2>5. StopInv' /\ ClosedLate'
    BY <1>0, <1>2 DEF NewCoreMsg, HandlerGoto, dispatcher, conn, Places, StopInv, ClosedLate, Counted
  <2> QED BY <2>1, <2>2, <2>3, <2>4, <2>5
<1>3. CASE PutCore(c)
  <2>1. Places'
    BY <1>0, <1>3 DEF PutCore, HandlerGoto, dispatcher, conn, Places, HandlerStates
  <2>2. MapInv'
    BY <1>0, <1>3, <2>1, RlAssumption
       DEF PutCore, HandlerGoto, dispatcher, conn, Places, MapInv, Readers
  <2>3. ChannelPlaces'
    BY <1>0, <1>3 DEF PutCore, HandlerGoto, dispatcher, conn, Places, ChannelPlaces
  <2>4. ChannelInv'
    BY <1>0, <1>3
       DEF PutCore, HandlerGoto, dispatcher, conn, Places, ChannelInv, ChannelPlaces,
           Readers
  <2>5. StopInv' /\ ClosedLate'
    BY <1>0, <1>3 DEF PutCore, HandlerGoto, dispatcher, conn, Places, StopInv, ClosedLate, Counted
  <2> QED BY <2>1, <2>2, <2>3, <2>4, <2>5
<1>4. CASE PutCoreClosed(c)
  <2>1. Places'
    BY <1>0, <1>4 DEF PutCoreClosed, Panic, dispatcher, conn, Places, HandlerStates
  <2>2. MapInv'
    <3>1. UNCHANGED <<handler, dlock>> /\ halt' # "concurrent map access"
      BY <1>4 DEF PutCoreClosed, Panic, dispatcher, conn
    <3> QED BY <1>0, <3>1 DEF MapInv, Readers
  <2>3. ChannelPlaces'
    BY <1>0, <1>4 DEF PutCoreClosed, Panic, dispatcher, conn, Places, ChannelPlaces
  <2>4. ChannelInv'
    BY <1>0, <1>4
       DEF PutCoreClosed, Panic, dispatcher, conn, Places, ChannelInv, ChannelPlaces,
           Readers
  <2>5. StopInv' /\ ClosedLate'
    BY <1>0, <1>4 DEF PutCoreClosed, Panic, dispatcher, conn, Places, StopInv, ClosedLate, Counted
  <2> QED BY <2>1, <2>2, <2>3, <2>4, <2>5
<1>5. CASE checkUsedChannel(c)
  <2>1. Places'
    BY <1>0, <1>5
       DEF checkUsedChannel, HandlerGoto, Panic, dispatcher, conn, Places, HandlerStates
  <2>2. MapInv'
    <3>1. dlock' = Nobody /\ dlock = Nobody
      BY <1>5 DEF checkUsedChannel, CanRLock, dispatcher
    <3>2. halt' = "concurrent map access" =>
              \E d \in Conns : handler'[c] = "used" /\ handler'[d] = "delete" /\ c # d
      BY <1>5 DEF checkUsedChannel, HandlerGoto, Panic
    <3> QED BY <1>0, <3>1, <3>2, RlAssumption DEF MapInv
  <2>3. ChannelPlaces'
    BY <1>0, <1>5
       DEF checkUsedChannel, HandlerGoto, Panic, dispatcher, conn, Places, ChannelPlaces
  <2>4. ChannelInv'
    <3>1. /\ UNCHANGED <<chans, shut, writer>>
          /\ \/ UNCHANGED handler
             \/ handler[c] = "used" /\ handler' = [handler EXCEPT ![c] = "add"]
      BY <1>5 DEF checkUsedChannel, HandlerGoto, dispatcher
    <3> QED BY <1>0, <3>1 DEF Places, ChannelInv
  <2>5. StopInv' /\ ClosedLate'
    BY <1>0, <1>5
       DEF checkUsedChannel, HandlerGoto, Panic, dispatcher, conn, Places, StopInv,
           ClosedLate, Counted
  <2> QED BY <2>1, <2>2, <2>3, <2>4, <2>5
<1>6. CASE AddChannel(c)
  <2>1. Places'
    BY <1>0, <1>6
       DEF AddChannel, HandlerGoto, CanLock, dispatcher, conn, Places, HandlerStates
  <2>2. MapInv'
    BY <1>0, <1>6, <2>1, RlAssumption
       DEF AddChannel, HandlerGoto, CanLock, dispatcher, conn, Places, MapInv, Readers
  <2>3. ChannelPlaces'
    BY <1>0, <1>6
       DEF AddChannel, HandlerGoto, CanLock, dispatcher, conn, Places, ChannelPlaces
  <2>4. ChannelInv'
    BY <1>0, <1>6, NobodySends
       DEF AddChannel, HandlerGoto, CanLock, dispatcher, conn, Places, ChannelInv,
           ChannelPlaces, Readers
  <2>5. StopInv' /\ ClosedLate'
    BY <1>0, <1>6
       DEF AddChannel, HandlerGoto, CanLock, dispatcher, conn, Places, StopInv, ClosedLate, Counted
  <2> QED BY <2>1, <2>2, <2>3, <2>4, <2>5
<1>7. CASE Leave(c)
  <2>1. Places'
    BY <1>0, <1>7
       DEF Leave, HandlerGoto, HandlerEnd, dispatcher, conn, Places, HandlerStates
  <2>2. MapInv'
    BY <1>0, <1>7, <2>1, RlAssumption
       DEF Leave, HandlerGoto, HandlerEnd, dispatcher, conn, Places, MapInv, Readers
  <2>3. ChannelPlaces'
    BY <1>0, <1>7
       DEF Leave, HandlerGoto, HandlerEnd, dispatcher, conn, Places, ChannelPlaces
  <2>4. ChannelInv'
    BY <1>0, <1>7
       DEF Leave, HandlerGoto, HandlerEnd, dispatcher, conn, Places, ChannelInv,
           ChannelPlaces, Readers
  <2>5. StopInv' /\ ClosedLate'
    BY <1>0, <1>7
       DEF Leave, HandlerGoto, HandlerEnd, dispatcher, conn, Places, StopInv, ClosedLate, Counted
  <2> QED BY <2>1, <2>2, <2>3, <2>4, <2>5
<1>8. CASE Eof(c)
  <2>1. Places'
    BY <1>0, <1>8 DEF Eof, HandlerGoto, HandlerEnd, dispatcher, conn, Places, HandlerStates
  <2>2. MapInv'
    BY <1>0, <1>8, <2>1, RlAssumption
       DEF Eof, HandlerGoto, HandlerEnd, dispatcher, conn, Places, MapInv, Readers
  <2>3. ChannelPlaces'
    BY <1>0, <1>8 DEF Eof, HandlerGoto, HandlerEnd, dispatcher, conn, Places, ChannelPlaces
  <2>4. ChannelInv'
    BY <1>0, <1>8
       DEF Eof, HandlerGoto, HandlerEnd, dispatcher, conn, Places, ChannelInv,
           ChannelPlaces, Readers
  <2>5. StopInv' /\ ClosedLate'
    BY <1>0, <1>8
       DEF Eof, HandlerGoto, HandlerEnd, dispatcher, conn, Places, StopInv, ClosedLate, Counted
  <2> QED BY <2>1, <2>2, <2>3, <2>4, <2>5
<1>9. CASE RemoveChannel(c)
  <2>1. Places'
    BY <1>0, <1>9
       DEF RemoveChannel, HandlerGoto, HandlerEnd, CanRLock, dispatcher, conn, Places,
           HandlerStates
  <2>2. MapInv'
    BY <1>0, <1>9, <2>1, RlAssumption
       DEF RemoveChannel, HandlerGoto, HandlerEnd, CanRLock, dispatcher, conn, Places,
           MapInv, Readers
  <2>3. ChannelPlaces'
    BY <1>0, <1>9
       DEF RemoveChannel, HandlerGoto, HandlerEnd, CanRLock, dispatcher, conn, Places,
           ChannelPlaces
  <2>4. ChannelInv'
    BY <1>0, <1>9, NobodySends
       DEF RemoveChannel, HandlerGoto, HandlerEnd, CanRLock, dispatcher, conn, Places,
           ChannelInv, ChannelPlaces, Readers
  <2>5. StopInv' /\ ClosedLate'
    BY <1>0, <1>9
       DEF RemoveChannel, HandlerGoto, HandlerEnd, CanRLock, dispatcher, conn, Places,
           StopInv, ClosedLate, Counted
  <2> QED BY <2>1, <2>2, <2>3, <2>4, <2>5
<1>10. CASE DeleteChannel(c)
  <2>1. Places'
    BY <1>0, <1>10
       DEF DeleteChannel, HandlerGoto, HandlerEnd, ChansWithout, dispatcher, conn, Places,
           HandlerStates
  <2>2. MapInv'
    BY <1>0, <1>10, <2>1, RlAssumption
       DEF DeleteChannel, HandlerGoto, HandlerEnd, ChansWithout, dispatcher, conn, Places,
           MapInv, Readers
  <2>3. ChannelPlaces'
    <3>1. dlock = Nobody
      BY <1>10 DEF DeleteChannel, HandlerEnd, HandlerGoto, MapInv, Readers
    <3>2. caster # "send" /\ \A w \in Workers : worker[w] # "send"
      BY <3>1, RlAssumption DEF MapInv
    <3> QED BY <1>0, <1>10, <3>2
            DEF DeleteChannel, HandlerGoto, HandlerEnd, ChansWithout, dispatcher, conn, Places, ChannelPlaces
  <2>4. ChannelInv'
    BY <1>0, <1>10, NobodySends
       DEF DeleteChannel, HandlerGoto, HandlerEnd, ChansWithout, dispatcher, conn, Places,
           ChannelInv, ChannelPlaces, Readers
  <2>5. StopInv' /\ ClosedLate'
    BY <1>0, <1>10
       DEF DeleteChannel, HandlerGoto, HandlerEnd, ChansWithout, dispatcher, conn, Places,
           StopInv, ClosedLate, Counted
  <2> QED BY <2>1, <2>2, <2>3, <2>4, <2>5
<1>11. CASE DeleteRace(c)
  <2>1. Places'
    BY <1>0, <1>11 DEF DeleteRace, Panic, dispatcher, conn, Places, HandlerStates
  <2>2. MapInv'
    BY <1>0, <1>11, <2>1, RlAssumption
       DEF DeleteRace, Panic, dispatcher, conn, Places, MapInv, Readers
  <2>3. ChannelPlaces'
    BY <1>0, <1>11 DEF DeleteRace, Panic, dispatcher, conn, Places, ChannelPlaces
  <2>4. ChannelInv'
    BY <1>0, <1>11
       DEF DeleteRace, Panic, dispatcher, conn, Places, ChannelInv, ChannelPlaces, Readers
  <2>5. StopInv' /\ ClosedLate'
    BY <1>0, <1>11 DEF DeleteRace, Panic, dispatcher, conn, Places, StopInv, ClosedLate, Counted
  <2> QED BY <2>1, <2>2, <2>3, <2>4, <2>5
<1> QED BY <1>1, <1>2, <1>3, <1>4, <1>5, <1>6, <1>7, <1>8, <1>9, <1>10, <1>11
       DEF HandlerRead, HandlerLocks, HandlerGoes

-----------------------------------------------------------------------------
\* The listener, the clients and the writers do not touch the dispatcher.
LEMMA ListenerInv == ServerInv /\ halt = "no" /\ Listener => ServerInv'
<1> SUFFICES ASSUME ServerInv, halt = "no", Listener PROVE ServerInv'
  OBVIOUS
<1> USE DEF ServerInv
<1>0. /\ UNCHANGED <<active, main, closed, chans, shut, dlock, writer, worker, todo, caster, pend, halt>>
      /\ \/ UNCHANGED <<handler, late>>
         \/ \E c \in Conns :
               \/ /\ handler[c] = "none" /\ handler' = [handler EXCEPT ![c] = "accepted"]
                  /\ late' = late
               \/ /\ handler[c] = "accepted" /\ handler' = [handler EXCEPT ![c] = "read"]
                  /\ late' = IF active THEN late ELSE late \cup {c}
  BY DEF Listener, ListenerCheck, ListenerAccept, Count, PeerBreak, buffer, dispatcher, out, cast
<1>1. Places'
  BY <1>0 DEF Places, HandlerStates
<1>2. /\ \A c \in Conns : handler'[c] \in {"used", "add", "delete", "remove"} => handler'[c] = handler[c]
      /\ \A c \in Conns : handler[c] \in {"gone", "delete"} => handler'[c] = handler[c]
  BY <1>0 DEF Places, HandlerStates
<1>3. MapInv'
  BY <1>0, <1>2 DEF MapInv, Readers
<1>4. ChannelPlaces' /\ ChannelInv'
  BY <1>0, <1>2 DEF ChannelPlaces, ChannelInv, Sending
<1>5. StopInv' /\ ClosedLate'
  BY <1>0 DEF Places, StopInv, ClosedLate, Counted
<1> QED BY <1>1, <1>3, <1>4, <1>5

LEMMA WriterInv == ASSUME ServerInv, NEW c \in Conns, halt = "no", WriterStep(c) PROVE ServerInv'
<1> USE DEF ServerInv
<1>0. /\ UNCHANGED <<active, main, late, handler, closed, chans, shut, dlock, worker, todo, caster, pend, halt>>
      /\ \E to \in {"recv", "write", "ended"} :
            writer[c] # "none" /\ writer' = [writer EXCEPT ![c] = to]
  BY
     DEF WriterStep, Receive, Write, WriterEnds, WriterGoto, server, conn, buffer,
         dispatcher, cast
<1>1. Places'
  BY <1>0 DEF Places
<1>2. \A d \in Conns : (writer'[d] = "none") = (writer[d] = "none")
  BY <1>0 DEF Places
<1>3. MapInv' /\ StopInv' /\ ClosedLate'
  BY <1>0 DEF MapInv, Readers, StopInv, ClosedLate, Counted
<1>4. ChannelPlaces' /\ ChannelInv'
  BY <1>0, <1>2 DEF ChannelPlaces, ChannelInv, Sending
<1> QED BY <1>1, <1>3, <1>4

-----------------------------------------------------------------------------
\* Workers and the broadcast.

\* A worker that neither takes nor gives back the lock.
LEMMA WorkerTakes ==
    ASSUME ServerInv, NEW w \in Workers, halt = "no", WorkerFrame,
           WorkerCheck(w) \/ WorkerTake(w) \/ WorkerUnknownGroup(w) \/ WorkerEmpty(w)
    PROVE ServerInv'
<1> USE DEF ServerInv
<1>0. /\ UNCHANGED <<active, main, late, handler, closed, chans, shut, dlock, writer, caster, pend>>
      /\ worker[w] # "send" /\ halt' \in {"no", "unknown group"}
      /\ \E to \in {"check", "recv", "put", "done"} : worker' = [worker EXCEPT ![w] = to]
      /\ \A x \in Workers \ {w} : todo'[x] = todo[x]
      /\ DOMAIN todo' = Workers
  <2>1. CASE WorkerCheck(w)
    BY <2>1
       DEF WorkerCheck, WorkerGoto, WorkerFrame, server, conn, dispatcher, out, cast,
           Places
  <2>2. CASE WorkerTake(w)
    <3>1. \E t : todo' = [todo EXCEPT ![w] = t]
      BY <2>2 DEF WorkerTake, ProcessingMsg
    <3>2. DOMAIN todo' = Workers /\ \A x \in Workers \ {w} : todo'[x] = todo[x]
      BY <3>1 DEF Places
    <3> QED BY <2>2, <3>2 DEF WorkerTake, WorkerGoto, WorkerFrame, server, conn, dispatcher, out, cast
  <2>3. CASE WorkerUnknownGroup(w)
    <3>1. worker' = [worker EXCEPT ![w] = "recv"]
      BY <2>3 DEF WorkerUnknownGroup, Places
    <3> QED BY <2>3, <3>1 DEF WorkerUnknownGroup, Panic, WorkerFrame, server, conn, dispatcher, out, cast, Places
  <2>4. CASE WorkerEmpty(w)
    BY <2>4
       DEF WorkerEmpty, WorkerGoto, WorkerFrame, server, conn, dispatcher, out, cast,
           Places
  <2> QED BY <2>1, <2>2, <2>3, <2>4
<1>1. Places'
  BY <1>0 DEF Places
<1>2. worker'[w] # "send" /\ \A x \in Workers \ {w} : worker'[x] = worker[x]
  BY <1>0 DEF Places
<1>3. MapInv'
  BY <1>0, <1>2 DEF MapInv, Readers
<1>4. ChannelPlaces'
  BY <1>0, <1>2 DEF ChannelPlaces
<1>5. ChannelInv'
  <2>1. \A c \in Conns : Sending(c)' => Sending(c)
    BY <1>0, <1>2 DEF Sending
  <2> QED BY <1>0, <2>1 DEF ChannelInv
<1>6. StopInv' /\ ClosedLate'
  BY <1>0 DEF StopInv, ClosedLate, Counted
<1> QED BY <1>1, <1>3, <1>4, <1>5, <1>6

\* Put finds a channel that is open, as it has the lock.
LEMMA PutInv ==
    ASSUME ServerInv, NEW w \in Workers, halt = "no", WorkerFrame, Put(w)
    PROVE ServerInv'
<1> USE DEF ServerInv
<1> DEFINE c == Head(todo[w]).to
<1>0. /\ UNCHANGED <<active, main, late, handler, closed, chans, shut, writer, caster, pend, halt>>
      /\ worker[w] = "put" /\ dlock = Nobody /\ Readers = {}
  BY DEF Put, CanLock, WorkerFrame, server, conn, out, cast
<1>1. \/ c \in chans /\ worker' = [worker EXCEPT ![w] = "send"] /\ dlock' = w /\ todo' = todo
      \/ /\ \E to \in {"put", "check"} : worker' = [worker EXCEPT ![w] = to]
         /\ dlock' = dlock /\ \E t : todo' = [todo EXCEPT ![w] = t]
  BY DEF Put, WorkerGoto, AfterPut
<1>2. /\ DOMAIN todo' = Workers /\ \A x \in Workers \ {w} : todo'[x] = todo[x] /\ worker'[x] = worker[x]
      /\ \A x \in Workers : worker[x] # "send"
      /\ worker'[w] = "send" => c \in chans /\ todo' = todo /\ dlock' = w
      /\ worker'[w] # "send" => dlock' = Nobody
  BY <1>0, <1>1, RlAssumption DEF Places, MapInv
<1>3. Places'
  BY <1>0, <1>1, <1>2 DEF Places
<1>4. MapInv'
  BY <1>0, <1>2, <1>3, RlAssumption DEF Places, MapInv, Readers
<1>5. ChannelPlaces'
  BY <1>0, <1>2 DEF ChannelPlaces
<1>6. ChannelInv'
  <2>1. \A d \in Conns : Sending(d)' => d \in chans
    BY <1>0, <1>2, <1>5 DEF Sending, ChannelPlaces
  <2>2. \A d \in Conns : d \in chans \cap shut => FALSE
    BY <1>0 DEF ChannelInv, Readers
  <2> QED BY <1>0, <2>1, <2>2 DEF ChannelInv
<1>7. StopInv' /\ ClosedLate'
  BY <1>0 DEF StopInv, ClosedLate, Counted
<1> QED BY <1>3, <1>4, <1>5, <1>6, <1>7

LEMMA SendInv ==
    ASSUME ServerInv, NEW w \in Workers, halt = "no", WorkerFrame, Send(w)
    PROVE ServerInv'
<1> USE DEF ServerInv
<1>0. /\ UNCHANGED <<active, main, late, handler, closed, chans, shut, writer, caster, pend, halt>>
      /\ worker[w] = "send" /\ dlock' = Nobody
      /\ \E to \in {"put", "check"} : worker' = [worker EXCEPT ![w] = to]
      /\ \E t : todo' = [todo EXCEPT ![w] = t]
  BY DEF Send, WorkerGoto, AfterPut, WorkerFrame, server, conn, out, cast
<1>1. /\ DOMAIN todo' = Workers /\ \A x \in Workers \ {w} : todo'[x] = todo[x] /\ worker'[x] = worker[x]
      /\ dlock = w /\ caster # "send" /\ \A x \in Workers : worker'[x] # "send"
  BY <1>0, RlAssumption DEF Places, MapInv
<1>2. Places'
  BY <1>0, <1>1 DEF Places
<1>3. MapInv'
  BY <1>0, <1>1, RlAssumption DEF MapInv, Readers
<1>4. ChannelPlaces'
  BY <1>0, <1>1 DEF ChannelPlaces
<1>5. ChannelInv'
  <2>1. \A d \in Conns : ~Sending(d)'
    BY <1>0, <1>1 DEF Sending
  <2> QED BY <1>0, <2>1 DEF ChannelInv
<1>6. StopInv' /\ ClosedLate'
  BY <1>0 DEF StopInv, ClosedLate, Counted
<1> QED BY <1>2, <1>3, <1>4, <1>5, <1>6

\* The broadcast sends to the channels that were in the map when it took the lock.
LEMMA CasterInv ==
    ASSUME ServerInv, halt = "no", CastFrame,
           CastCheck \/ PutAll \/ \E c \in Conns : PutOne(c)
    PROVE ServerInv'
<1> USE DEF ServerInv
<1>0. UNCHANGED <<active, main, late, handler, closed, chans, shut, writer, worker, todo, halt>>
  BY DEF CastFrame, server, conn, buffer, out
<1>1. CASE CastCheck
  <2>1. UNCHANGED <<dlock, pend>> /\ caster = "check" /\ caster' \in {"ended", "lock", "check"}
    BY <1>1 DEF CastCheck
  <2>2. Places' /\ MapInv'
    BY <1>0, <2>1 DEF Places, MapInv, Readers
  <2>3. ChannelPlaces' /\ ChannelInv'
    BY <1>0, <2>1 DEF ChannelPlaces, ChannelInv, Sending
  <2> QED BY <1>0, <2>2, <2>3 DEF StopInv, ClosedLate, Counted
<1>2. CASE PutAll
  <2>1. /\ caster = "lock" /\ dlock = Nobody /\ Readers = {}
        /\ \/ caster' = "check" /\ UNCHANGED <<dlock, pend>>
           \/ caster' = "send" /\ dlock' = Cast /\ pend' = chans
    BY <1>2 DEF PutAll, CanLock
  <2>2. \A w \in Workers : worker[w] # "send"
    BY <2>1, RlAssumption DEF MapInv
  <2>3. Places' /\ MapInv'
    BY <1>0, <2>1, <2>2, RlAssumption DEF Places, MapInv, Readers
  <2>4. ChannelPlaces'
    BY <1>0, <2>1 DEF ChannelPlaces
  <2>5. ChannelInv'
    <3>1. \A d \in Conns : Sending(d)' => d \in chans
      BY <1>0, <2>1, <2>2 DEF Sending
    <3>2. \A d \in Conns : d \notin chans \cap shut
      BY <2>1 DEF ChannelInv, Readers
    <3> QED BY <1>0, <3>1, <3>2 DEF ChannelInv
  <2> QED BY <1>0, <2>3, <2>4, <2>5 DEF StopInv, ClosedLate, Counted
<1>3. CASE \E c \in Conns : PutOne(c)
  <2>1. /\ caster = "send" /\ dlock = Cast /\ pend' \subseteq pend
        /\ \/ caster' = "check" /\ dlock' = Nobody
           \/ UNCHANGED <<caster, dlock>>
    BY <1>3 DEF PutOne, MapInv
  <2>2. \A w \in Workers : worker[w] # "send"
    BY <2>1, RlAssumption DEF MapInv
  <2>3. Places' /\ MapInv'
    BY <1>0, <2>1, <2>2, RlAssumption DEF Places, MapInv, Readers
  <2>4. ChannelPlaces'
    BY <1>0, <2>1 DEF ChannelPlaces
  <2>5. ChannelInv'
    <3>1. \A d \in Conns : Sending(d)' => Sending(d)
      BY <1>0, <2>1, <2>2 DEF Sending
    <3> QED BY <1>0, <3>1 DEF ChannelInv
  <2> QED BY <1>0, <2>3, <2>4, <2>5 DEF StopInv, ClosedLate, Counted
<1> QED BY <1>1, <1>2, <1>3

-----------------------------------------------------------------------------
\* Run: CloseAll has the lock, and closes the buffer when nobody is counted.
LEMMA MainInv ==
    ASSUME ServerInv, halt = "no", MainFrame, Signal \/ CloseAll \/ CloseBuffer \/ Finish
    PROVE ServerInv'
<1> USE DEF ServerInv
<1>0. /\ UNCHANGED <<late, handler, dlock, writer, worker, todo, caster, pend, halt>>
      /\ \A d \in Conns : Sending(d)' = Sending(d)
  BY DEF MainFrame, conn, out, cast, Sending
<1>1. CASE Signal
  <2>1. /\ main = "run" /\ main' = "stop" /\ active' = FALSE /\ UNCHANGED <<chans, shut, closed>>
    BY <1>1 DEF Signal
  <2>2. Places' /\ MapInv' /\ StopInv' /\ ClosedLate'
    BY <1>0, <2>1 DEF Places, MapInv, Readers, StopInv, ClosedLate, Counted
  <2>3. ChannelPlaces' /\ ChannelInv'
    BY <1>0, <2>1 DEF ChannelPlaces, ChannelInv
  <2> QED BY <2>2, <2>3
<1>2. CASE CloseAll
  <2>1. /\ main = "stop" /\ main' = "wait" /\ shut' = shut \cup chans /\ chans' = {}
        /\ dlock = Nobody /\ Readers = {} /\ UNCHANGED <<active, closed>>
    BY <1>2 DEF CloseAll, CanLock
  <2>2. caster # "send" /\ \A w \in Workers : worker[w] # "send"
    BY <2>1, RlAssumption DEF MapInv
  <2>3. Places' /\ MapInv' /\ StopInv' /\ ClosedLate'
    BY <1>0, <2>1 DEF Places, MapInv, Readers, StopInv, ClosedLate, Counted
  <2>4. ChannelPlaces'
    BY <1>0, <2>1, <2>2 DEF ChannelPlaces, Readers
  <2>5. ChannelInv'
    BY <1>0, <2>1, <2>2 DEF ChannelInv, Sending
  <2> QED BY <2>3, <2>4, <2>5
<1>3. CASE CloseBuffer
  <2>1. /\ main = "wait" /\ main' = "finish" /\ closed' = TRUE /\ UNCHANGED <<active, chans, shut>>
        /\ \A c \in Conns : ~Counted(c)
    BY <1>3 DEF CloseBuffer, HasConnection
  <2>2. Places' /\ MapInv' /\ StopInv' /\ ClosedLate'
    BY <1>0, <2>1 DEF Places, MapInv, Readers, StopInv, ClosedLate, Counted
  <2>3. ChannelPlaces' /\ ChannelInv'
    BY <1>0, <2>1 DEF ChannelPlaces, ChannelInv
  <2> QED BY <2>2, <2>3
<1>4. CASE Finish
  <2>1. main = "finish" /\ main' = "done" /\ UNCHANGED <<active, chans, shut, closed>>
    BY <1>4 DEF Finish
  <2>2. Places' /\ MapInv' /\ StopInv' /\ ClosedLate'
    BY <1>0, <2>1 DEF Places, MapInv, Readers, StopInv, ClosedLate, Counted
  <2>3. ChannelPlaces' /\ ChannelInv'
    BY <1>0, <2>1 DEF ChannelPlaces, ChannelInv
  <2> QED BY <2>2, <2>3
<1> QED BY <1>1, <1>2, <1>3, <1>4

-----------------------------------------------------------------------------
\* The specification.

LEMMA StepInv == ServerInv /\ [Next]_vars => ServerInv'
<1> SUFFICES ASSUME ServerInv, [Next]_vars PROVE ServerInv'
  OBVIOUS
<1>1. CASE Running /\ Listener
  BY <1>1, ListenerInv DEF Running
<1>2. ASSUME NEW c \in Conns, Reads(c) \/ Locks(c) \/ Goes(c) PROVE ServerInv'
  BY <1>2, HandlerInv DEF Reads, Locks, Goes, Running
<1>3. ASSUME NEW c \in Conns, Writer(c) PROVE ServerInv'
  BY <1>3, WriterInv DEF Writer, Running
<1>4. ASSUME NEW w \in Workers, Worker(w) \/ WorkerPut(w) PROVE ServerInv'
  BY <1>4, WorkerTakes, PutInv, SendInv DEF Worker, WorkerPut, WorkerStep, Running
<1>5. CASE Caster \/ CasterPut
  BY <1>5, CasterInv DEF Caster, CasterPut, Running
<1>6. CASE MainStep \/ MainClose \/ (Running /\ Signal /\ MainFrame)
  BY <1>6, MainInv DEF MainStep, MainClose, Running
<1>7. CASE UNCHANGED vars
  <2>1. UNCHANGED <<active, main, late, handler, closed, chans, shut, dlock, writer, worker, todo,
                    caster, pend, halt>>
    BY <1>7 DEF vars, server, conn, buffer, dispatcher, out, cast
  <2>2. Places' /\ MapInv' /\ StopInv' /\ ClosedLate'
    BY <2>1 DEF ServerInv, Places, MapInv, Readers, StopInv, ClosedLate, Counted
  <2>3. ChannelPlaces' /\ ChannelInv'
    BY <2>1 DEF ServerInv, ChannelPlaces, ChannelInv, Sending
  <2> QED BY <2>2, <2>3 DEF ServerInv
<1> QED BY <1>1, <1>2, <1>3, <1>4, <1>5, <1>6, <1>7 DEF Next

LEMMA Invariance == Spec => []ServerInv
<1> QED BY InitInv, StepInv, PTL DEF Spec

\* Channels are closed once, by the dispatcher, and never while somebody sends to them.
THEOREM ChannelsKept == Spec => []ChannelInv
<1>1. ServerInv => ChannelInv
  BY DEF ServerInv
<1> QED BY <1>1, Invariance, PTL

\* Only the delete of RemoveChannel meets another use of the map of the dispatcher.
THEOREM MapGuarded == Spec => []MapInv
<1>1. ServerInv => MapInv
  BY DEF ServerInv
<1> QED BY <1>1, Invariance, PTL

\* The closed buffer is met only by a connection that was counted after the stop.
THEOREM BufferClosedLate == Spec => []ClosedLate
<1>1. ServerInv => ClosedLate
  BY DEF ServerInv
<1> QED BY <1>1, Invariance, PTL

-----------------------------------------------------------------------------
\* Types: what the buffers, the contexts and the answers hold, in parts of which a
\* step changes one or two.

ClientTypes ==
    /\ listener \in {"check", "accept", "count"} /\ info \in [Conns -> BOOLEAN]
    /\ sock \in [Conns -> {"none", "open", "broken", "closed"}]
ContextTypes == context \in [Conns -> [key : BOOLEAN, auth : BOOLEAN, group : 0..2]]
MsgTypes == msg \in [Conns -> Msgs] /\ sent \in [Conns -> Nat]
CoreTypes == core \in Seq(Msgs) /\ Len(core) <= BufferSize
AnswerTypes ==
    /\ answers \in [Conns -> Seq(Kinds)] /\ \A c \in Conns : Len(answers[c]) <= BufferSize
    /\ cur \in [Conns -> Kinds]
TodoTypes ==
    /\ worker \in [Workers -> {"check", "recv", "put", "send", "done"}]
    /\ todo \in [Workers -> Seq([to : Conns, kind : Kinds])]
    /\ \A w \in Workers : worker[w] \in {"put", "send"} <=> todo[w] # <<>>
MethodTypes == methods \in Seq(Conns) /\ busy \subseteq Conns
HaltTypes ==
    halt \in {"no", "send on closed core buffer", "concurrent map access", "unknown group"}

DataInv ==
    /\ ClientTypes /\ ContextTypes /\ MsgTypes /\ CoreTypes /\ AnswerTypes /\ TodoTypes
    /\ MethodTypes /\ HaltTypes

LEMMA TypeInit == Init => DataInv
<1> SUFFICES ASSUME Init PROVE DataInv
  OBVIOUS
<1> USE RlAssumption DEF Init
<1>1. ContextTypes
  <2>1. \A c \in Conns : Group[c] \in 0..2
    BY DEF GroupClientService, GroupClientServer
  <2> QED BY <2>1 DEF ContextTypes, NewContext
<1>2. MsgTypes
  <2>1. \A c \in Conns : NoMsg(c) \in Msgs
    BY DEF NoMsg, Msgs, Targets
  <2> QED BY <2>1 DEF MsgTypes
<1>3. CoreTypes /\ AnswerTypes /\ MethodTypes
  BY DEF CoreTypes, AnswerTypes, MethodTypes, Kinds
<1>4. TodoTypes
  BY DEF TodoTypes
<1>5. ClientTypes /\ HaltTypes
  BY DEF ClientTypes, HaltTypes
<1> QED BY <1>1, <1>2, <1>3, <1>4, <1>5 DEF DataInv

LEMMA TypeListener == DataInv /\ Listener => DataInv'
<1> SUFFICES ASSUME DataInv, Listener PROVE DataInv'
  OBVIOUS
<1> USE DEF DataInv
<1>1. UNCHANGED <<context, info, msg, sent, core, answers, cur, worker, todo, methods, busy, halt>>
  BY DEF Listener, buffer, out, accounting
<1>2. ClientTypes'
  BY <1>1 DEF Listener, ListenerCheck, ListenerAccept, Count, PeerBreak, ClientTypes
<1>3. ContextTypes' /\ MsgTypes' /\ CoreTypes' /\ AnswerTypes' /\ TodoTypes' /\ MethodTypes'
      /\ HaltTypes'
  BY <1>1
     DEF ContextTypes, MsgTypes, CoreTypes, AnswerTypes, TodoTypes, MethodTypes, HaltTypes
<1> QED BY <1>2, <1>3

\* A message carries the group of its connection, and a target that it may send.
LEMMA TypeHandler ==
    ASSUME DataInv, NEW c \in Conns, HandlerFrame,
           HandlerRead(c) \/ HandlerLocks(c) \/ HandlerGoes(c)
    PROVE DataInv'
<1> USE DEF DataInv
<1>0. /\ UNCHANGED <<listener, answers, cur, worker, todo, methods, busy>>
      /\ AnswerTypes' /\ TodoTypes' /\ MethodTypes'
  <2>1. UNCHANGED <<listener, answers, cur, worker, todo, methods, busy>>
    BY DEF HandlerFrame, server, accounting
  <2> QED BY <2>1 DEF AnswerTypes, TodoTypes, MethodTypes
<1>1. CASE FastCommand(c)
  <2>1. Group[c] \in 0..2
    BY RlAssumption DEF GroupClientService, GroupClientServer
  <2>2. ContextTypes'
    BY <1>1, <2>1
       DEF FastCommand, sendAuthRequest, sendAuthResult, sendReady, ContextTypes
  <2>3. UNCHANGED <<info, msg, sent, sock, core, halt>>
    BY <1>1 DEF FastCommand
  <2> QED BY <1>0, <2>2, <2>3 DEF ClientTypes, MsgTypes, CoreTypes, HaltTypes
<1>2. CASE NewCoreMsg(c)
  <2>1. PICK k \in Commands[c] :
            msg' = [msg EXCEPT ![c] = [cid |-> c, group |-> context[c].group,
                                       target |-> k[1], data |-> k[2]]]
    BY <1>2 DEF NewCoreMsg
  <2>2. k[1] \in Targets /\ k[2] \in {"ok", "busy", "bad"}
    BY <2>1, RlAssumption
  <2>3. context[c].group \in 0..2
    BY DEF ContextTypes
  <2>4. sent' = [sent EXCEPT ![c] = @ + 1] /\ UNCHANGED <<context, info, sock, core, halt>>
    BY <1>2 DEF NewCoreMsg
  <2>5. MsgTypes'
    BY <2>1, <2>2, <2>3, <2>4 DEF MsgTypes, Msgs
  <2> QED BY <1>0, <2>4, <2>5 DEF ClientTypes, ContextTypes, CoreTypes, HaltTypes
<1>3. CASE PutCore(c)
  <2>1. /\ core' = Append(core, msg[c]) /\ msg' = [msg EXCEPT ![c] = NoMsg(c)]
        /\ Len(core) < BufferSize /\ UNCHANGED <<context, info, sent, sock, halt>>
    BY <1>3 DEF PutCore
  <2>2. NoMsg(c) \in Msgs
    BY DEF NoMsg, Msgs, Targets
  <2>3. msg[c] \in Msgs /\ core \in Seq(Msgs)
    BY DEF MsgTypes, CoreTypes
  <2>4. /\ core' \in Seq(Msgs) /\ Len(core') = Len(core) + 1 /\ Len(core) \in Nat
    BY <2>1, <2>3, AppendProperties, LenProperties
  <2>5. CoreTypes'
    BY <2>1, <2>4, RlAssumption DEF CoreTypes
  <2>6. MsgTypes'
    BY <2>1, <2>2 DEF MsgTypes
  <2> QED BY <1>0, <2>1, <2>5, <2>6 DEF ClientTypes, ContextTypes, HaltTypes
<1>4. CASE PutCoreClosed(c) \/ DeleteRace(c) \/ checkUsedChannel(c)
  <2>1. /\ UNCHANGED <<context, info, msg, sent, sock, core>>
        /\ halt' \in {halt, "send on closed core buffer", "concurrent map access"}
    BY <1>4 DEF PutCoreClosed, DeleteRace, checkUsedChannel, Panic, conn
  <2> QED BY <1>0, <2>1 DEF ClientTypes, ContextTypes, MsgTypes, CoreTypes, HaltTypes
<1>5. CASE AddChannel(c) \/ RemoveChannel(c) \/ DeleteChannel(c) \/ Leave(c) \/ Eof(c)
  <2>1. /\ UNCHANGED <<context, msg, sent, core, halt>>
        /\ info' \in {info, [info EXCEPT ![c] = FALSE]}
        /\ sock' \in {sock, [sock EXCEPT ![c] = "closed"]}
    BY <1>5 DEF AddChannel, RemoveChannel, DeleteChannel, Leave, Eof
  <2>2. ClientTypes'
    BY <1>0, <2>1 DEF ClientTypes
  <2> QED BY <1>0, <2>1, <2>2 DEF ContextTypes, MsgTypes, CoreTypes, HaltTypes
<1> QED BY <1>1, <1>2, <1>3, <1>4, <1>5 DEF HandlerRead, HandlerLocks, HandlerGoes

LEMMA TypeWriter == ASSUME DataInv, NEW c \in Conns, WriterStep(c) PROVE DataInv'
<1> USE DEF DataInv
<1>1. UNCHANGED <<listener, context, info, msg, sent, sock, core, worker, todo, methods, busy, halt>>
  BY DEF WriterStep, server, conn, buffer, accounting
<1>2. ClientTypes' /\ ContextTypes' /\ MsgTypes' /\ CoreTypes' /\ TodoTypes' /\ MethodTypes'
      /\ HaltTypes'
  BY <1>1
     DEF ClientTypes, ContextTypes, MsgTypes, CoreTypes, TodoTypes, MethodTypes, HaltTypes
<1>3. answers \in [Conns -> Seq(Kinds)] /\ \A d \in Conns : Len(answers[d]) \in Nat
  BY LenProperties DEF AnswerTypes
<1>4. CASE Receive(c) /\ answers[c] = <<>>
  <2>1. answers' = answers /\ cur' = [cur EXCEPT ![c] = "empty"]
    BY <1>3, <1>4 DEF Receive
  <2> QED BY <1>2, <2>1 DEF AnswerTypes, Kinds
<1>5. CASE Receive(c) /\ answers[c] # <<>>
  <2>1. /\ answers' = [answers EXCEPT ![c] = Tail(answers[c])]
        /\ cur' = [cur EXCEPT ![c] = Head(answers[c])]
    BY <1>3, <1>5 DEF Receive
  <2>2. /\ Head(answers[c]) \in Kinds /\ Tail(answers[c]) \in Seq(Kinds)
        /\ Len(Tail(answers[c])) = Len(answers[c]) - 1
    BY <1>3, <1>5, HeadTailProperties
  <2>3. Len(Tail(answers[c])) <= BufferSize
    BY <1>3, <2>2, RlAssumption DEF AnswerTypes
  <2>4. AnswerTypes'
    BY <2>1, <2>2, <2>3 DEF AnswerTypes
  <2> QED BY <1>2, <2>4
<1>6. CASE Write(c) \/ WriterEnds(c)
  <2>1. UNCHANGED <<answers, cur>>
    BY <1>6 DEF Write, WriterEnds
  <2> QED BY <1>2, <2>1 DEF AnswerTypes
<1> QED BY <1>4, <1>5, <1>6 DEF WriterStep

-----------------------------------------------------------------------------
\* The answers of a worker: never none when it is about to put one.

\* One answer or two, to the sender and to the server that is called.
LEMMA Answering ==
    ASSUME MethodTypes, NEW w \in Workers, NEW m \in Msgs, ProcessingMsg(w, m)
    PROVE /\ methods' \in Seq(Conns) /\ busy' \subseteq Conns
          /\ \E t \in Seq([to : Conns, kind : Kinds]) :
                t # <<>> /\ todo' = [todo EXCEPT ![w] = t]
<1> DEFINE c == m.cid
           Answers == [to : Conns, kind : Kinds]
<1>1. c \in Conns /\ methods \in Seq(Conns) /\ busy \subseteq Conns
  BY DEF MethodTypes, Msgs
<1>2. To(c, "cmd") \in Answers /\ To(c, "empty") \in Answers
  BY <1>1 DEF To, Kinds
<1>3. ASSUME NEW a \in Answers
      PROVE <<a>> \in Seq(Answers) /\ <<a>> # <<>>
  OBVIOUS
<1>4. CASE m.target = "call" /\ ~Denied(m) /\ UNCHANGED accounting
           /\ \E n \in SearchFree :
                 todo' = [todo EXCEPT ![w] = <<To(c, "cmd"), To(methods[n], "cmd")>>]
  <2>1. PICK n \in SearchFree :
            todo' = [todo EXCEPT ![w] = <<To(c, "cmd"), To(methods[n], "cmd")>>]
    BY <1>4
  <2>2. methods[n] \in Conns
    BY <1>1, <2>1 DEF SearchFree
  <2>3. To(methods[n], "cmd") \in Answers
    BY <2>2 DEF To, Kinds
  <2> DEFINE t == <<To(c, "cmd"), To(methods[n], "cmd")>>
  <2>4. t \in Seq(Answers) /\ t # <<>>
    BY <1>2, <2>3
  <2> QED BY <1>1, <1>4, <2>1, <2>4 DEF accounting
<1>5. CASE todo' = [todo EXCEPT ![w] = <<To(c, "empty")>>] /\ UNCHANGED accounting
  BY <1>1, <1>2, <1>3, <1>5 DEF accounting
<1>6. CASE todo' = [todo EXCEPT ![w] = <<To(c, "cmd")>>] /\ UNCHANGED accounting
  BY <1>1, <1>2, <1>3, <1>6 DEF accounting
<1>7. CASE /\ todo' = [todo EXCEPT ![w] = <<To(c, "cmd")>>]
           /\ busy' \in {busy, busy \cup {c}, busy \ {c}} /\ UNCHANGED methods
  BY <1>1, <1>2, <1>3, <1>7
<1>8. CASE /\ todo' = [todo EXCEPT ![w] = <<To(c, "cmd")>>]
           /\ methods' = Append(methods, c) /\ UNCHANGED busy
  <2>1. methods' \in Seq(Conns)
    BY <1>1, <1>8, AppendProperties
  <2> QED BY <1>1, <1>2, <1>3, <1>8, <2>1
<1> QED BY <1>4, <1>5, <1>6, <1>7, <1>8 DEF ProcessingMsg

\* What is left of the answers after one of them.
LEMMA NextAnswer ==
    ASSUME TodoTypes, NEW w \in Workers, worker[w] \in {"put", "send"}
    PROVE /\ Head(todo[w]) \in [to : Conns, kind : Kinds]
          /\ Tail(todo[w]) \in Seq([to : Conns, kind : Kinds])
          /\ AfterPut(w) = "put" <=> Tail(todo[w]) # <<>>
          /\ AfterPut(w) \in {"put", "check"}
<1>1. todo[w] \in Seq([to : Conns, kind : Kinds]) /\ todo[w] # <<>>
  BY DEF TodoTypes
<1>2. /\ Head(todo[w]) \in [to : Conns, kind : Kinds]
      /\ Tail(todo[w]) \in Seq([to : Conns, kind : Kinds])
      /\ Len(Tail(todo[w])) = Len(todo[w]) - 1 /\ Len(todo[w]) \in Nat
  BY <1>1, HeadTailProperties, LenProperties
<1>3. Tail(todo[w]) # <<>> <=> Len(Tail(todo[w])) # 0
  BY <1>2, EmptySeq
<1>4. Len(todo[w]) # 0
  BY <1>1, EmptySeq
<1>5. Len(todo[w]) > 1 <=> Len(Tail(todo[w])) # 0
  <2> DEFINE n == Len(todo[w])
             k == Len(Tail(todo[w]))
  <2>1. n \in Nat /\ n # 0 /\ k = n - 1
    BY <1>2, <1>4
  <2> HIDE DEF n, k
  <2>2. n > 1 <=> k # 0
    BY <2>1
  <2> QED BY <2>2 DEF n, k
<1> QED BY <1>2, <1>3, <1>5 DEF AfterPut

\* A step of one worker keeps its place and its answers together.
LEMMA TypeOfTodo ==
    ASSUME TodoTypes, NEW w \in Workers, NEW to \in {"check", "recv", "put", "send", "done"},
           NEW t \in Seq([to : Conns, kind : Kinds]), to \in {"put", "send"} <=> t # <<>>,
           worker' = [worker EXCEPT ![w] = to], todo' = [todo EXCEPT ![w] = t]
    PROVE TodoTypes'
<1>1. /\ worker' \in [Workers -> {"check", "recv", "put", "send", "done"}]
      /\ todo' \in [Workers -> Seq([to : Conns, kind : Kinds])]
  BY DEF TodoTypes
<1>2. ASSUME NEW x \in Workers
      PROVE worker'[x] \in {"put", "send"} <=> todo'[x] # <<>>
  BY DEF TodoTypes
<1> QED BY <1>1, <1>2 DEF TodoTypes

LEMMA TypeWorker ==
    ASSUME DataInv, NEW w \in Workers, WorkerFrame, WorkerStep(w) \/ Put(w)
    PROVE DataInv'
<1> USE DEF DataInv
<1>0. /\ UNCHANGED <<listener, context, info, msg, sent, sock, cur>>
      /\ ClientTypes' /\ ContextTypes' /\ MsgTypes'
  <2>1. UNCHANGED <<listener, context, info, msg, sent, sock, cur>>
    BY DEF WorkerFrame, server, conn, out
  <2> QED BY <2>1 DEF ClientTypes, ContextTypes, MsgTypes
<1>1. CASE WorkerCheck(w) \/ WorkerEmpty(w)
  <2>1. /\ UNCHANGED <<todo, core, answers, methods, busy, halt>>
        /\ worker[w] \in {"check", "recv"}
        /\ \E to \in {"recv", "done"} : worker' = [worker EXCEPT ![w] = to]
    BY <1>1 DEF WorkerCheck, WorkerEmpty, WorkerGoto, accounting
  <2>2. PICK to \in {"recv", "done"} : worker' = [worker EXCEPT ![w] = to]
    BY <2>1
  <2>3. TodoTypes'
    <3>1. /\ worker' \in [Workers -> {"check", "recv", "put", "send", "done"}]
          /\ \A x \in Workers : worker'[x] \in {"put", "send"} <=> todo[x] # <<>>
      BY <2>1, <2>2 DEF TodoTypes
    <3> QED BY <2>1, <3>1 DEF TodoTypes
  <2> QED BY <1>0, <2>1, <2>3 DEF CoreTypes, AnswerTypes, MethodTypes, HaltTypes
<1>2. CASE WorkerUnknownGroup(w)
  <2>1. UNCHANGED <<worker, todo, core, answers, methods, busy>> /\ halt' = "unknown group"
    BY <1>2 DEF WorkerUnknownGroup, Panic, accounting
  <2> QED BY <1>0, <2>1 DEF CoreTypes, AnswerTypes, TodoTypes, MethodTypes, HaltTypes
<1>3. CASE WorkerTake(w)
  <2>1. /\ core # <<>> /\ core' = Tail(core) /\ ProcessingMsg(w, Head(core))
        /\ worker' = [worker EXCEPT ![w] = "put"] /\ UNCHANGED <<answers, halt>>
    BY <1>3 DEF WorkerTake, WorkerGoto
  <2>2. core \in Seq(Msgs) /\ Len(core) \in Nat /\ Len(core) <= BufferSize
    BY LenProperties DEF CoreTypes
  <2>3. Head(core) \in Msgs /\ core' \in Seq(Msgs) /\ Len(core') = Len(core) - 1
    BY <2>1, <2>2, HeadTailProperties
  <2>4. CoreTypes'
    BY <2>2, <2>3, RlAssumption DEF CoreTypes
  <2>5. PICK t \in Seq([to : Conns, kind : Kinds]) :
            t # <<>> /\ todo' = [todo EXCEPT ![w] = t]
    BY <2>1, <2>3, Answering
  <2>6. MethodTypes'
    BY <2>1, <2>3, Answering DEF MethodTypes
  <2>7. TodoTypes'
    BY <2>1, <2>5, TypeOfTodo
  <2> QED BY <1>0, <2>1, <2>4, <2>6, <2>7 DEF AnswerTypes, HaltTypes
<1>4. CASE Put(w)
  <2>1. worker[w] = "put" /\ UNCHANGED <<core, answers, methods, busy, halt>>
    BY <1>4 DEF Put, accounting
  <2>2. CASE Head(todo[w]).to \in chans
    <3>1. worker' = [worker EXCEPT ![w] = "send"] /\ todo' = todo
      BY <1>4, <2>2 DEF Put, WorkerGoto
    <3>2. /\ worker' \in [Workers -> {"check", "recv", "put", "send", "done"}]
          /\ \A x \in Workers : worker'[x] \in {"put", "send"} <=> todo[x] # <<>>
      BY <2>1, <3>1 DEF TodoTypes
    <3>3. TodoTypes'
      BY <3>1, <3>2 DEF TodoTypes
    <3> QED BY <1>0, <2>1, <3>3 DEF CoreTypes, AnswerTypes, MethodTypes, HaltTypes
  <2>3. CASE Head(todo[w]).to \notin chans
    <3>1. /\ worker' = [worker EXCEPT ![w] = AfterPut(w)]
          /\ todo' = [todo EXCEPT ![w] = Tail(todo[w])]
      BY <1>4, <2>3 DEF Put, WorkerGoto, TodoTypes
    <3>2. AfterPut(w) \in {"put", "send"} <=> Tail(todo[w]) # <<>>
      BY <2>1, NextAnswer
    <3>3. AfterPut(w) \in {"put", "check"} /\ Tail(todo[w]) \in Seq([to : Conns, kind : Kinds])
      BY <2>1, NextAnswer
    <3>4. TodoTypes'
      BY <3>1, <3>2, <3>3, TypeOfTodo
    <3> QED BY <1>0, <2>1, <3>4 DEF CoreTypes, AnswerTypes, MethodTypes, HaltTypes
  <2> QED BY <2>2, <2>3
<1>5. CASE Send(w)
  <2> DEFINE c == Head(todo[w]).to
             k == Head(todo[w]).kind
  <2>1. /\ worker[w] = "send" /\ worker' = [worker EXCEPT ![w] = AfterPut(w)]
        /\ todo' = [todo EXCEPT ![w] = Tail(todo[w])] /\ Len(answers[c]) < BufferSize
        /\ answers' = [answers EXCEPT ![c] = Append(answers[c], k)]
        /\ UNCHANGED <<core, methods, busy, halt>>
    BY <1>5 DEF Send, WorkerGoto, accounting, TodoTypes, AnswerTypes
  <2>2. c \in Conns /\ k \in Kinds
    <3>1. Head(todo[w]) \in [to : Conns, kind : Kinds]
      BY <2>1, NextAnswer
    <3> QED BY <3>1
  <2> HIDE DEF c, k
  <2>3. /\ answers[c] \in Seq(Kinds) /\ Len(answers[c]) \in Nat
        /\ Append(answers[c], k) \in Seq(Kinds)
        /\ Len(Append(answers[c], k)) = Len(answers[c]) + 1
    BY <2>2, AppendProperties, LenProperties DEF AnswerTypes
  <2>4. Len(Append(answers[c], k)) <= BufferSize
    BY <2>1, <2>3, RlAssumption
  <2>5. AnswerTypes'
    BY <1>0, <2>1, <2>2, <2>3, <2>4 DEF AnswerTypes
  <2>6. AfterPut(w) \in {"put", "send"} <=> Tail(todo[w]) # <<>>
    BY <2>1, NextAnswer
  <2>7. AfterPut(w) \in {"put", "check"} /\ Tail(todo[w]) \in Seq([to : Conns, kind : Kinds])
    BY <2>1, NextAnswer
  <2>8. TodoTypes'
    BY <2>1, <2>6, <2>7, TypeOfTodo
  <2> QED BY <1>0, <2>1, <2>5, <2>8 DEF CoreTypes, MethodTypes, HaltTypes
<1> QED BY <1>1, <1>2, <1>3, <1>4, <1>5 DEF WorkerStep

LEMMA TypeCaster ==
    ASSUME DataInv, CastFrame, CastCheck \/ PutAll \/ \E c \in Conns : PutOne(c)
    PROVE DataInv'
<1> USE DEF DataInv
<1>1. UNCHANGED <<listener, context, info, msg, sent, sock, core, cur, worker, todo, methods, busy, halt>>
  BY DEF CastFrame, server, conn, buffer, out, accounting
<1>2. ClientTypes' /\ ContextTypes' /\ MsgTypes' /\ CoreTypes' /\ TodoTypes' /\ MethodTypes'
      /\ HaltTypes'
  BY <1>1
     DEF ClientTypes, ContextTypes, MsgTypes, CoreTypes, TodoTypes, MethodTypes, HaltTypes
<1>3. CASE CastCheck \/ PutAll
  <2>1. answers' = answers
    BY <1>3 DEF CastCheck, PutAll
  <2> QED BY <1>1, <1>2, <2>1 DEF AnswerTypes
<1>4. ASSUME NEW c \in Conns, PutOne(c) PROVE DataInv'
  <2>1. Len(answers[c]) < BufferSize /\ "cmd" \in Kinds
        /\ answers' = [answers EXCEPT ![c] = Append(answers[c], "cmd")]
    BY <1>4 DEF PutOne, AnswerTypes, Kinds
  <2>2. /\ answers[c] \in Seq(Kinds) /\ Len(answers[c]) \in Nat
        /\ Append(answers[c], "cmd") \in Seq(Kinds)
        /\ Len(Append(answers[c], "cmd")) = Len(answers[c]) + 1
    BY <2>1, AppendProperties, LenProperties DEF AnswerTypes
  <2>3. Len(Append(answers[c], "cmd")) <= BufferSize
    BY <2>1, <2>2, RlAssumption
  <2>4. AnswerTypes'
    BY <1>1, <2>1, <2>2, <2>3 DEF AnswerTypes
  <2> QED BY <1>2, <2>4
<1> QED BY <1>3, <1>4

LEMMA TypeStep == DataInv /\ [Next]_vars => DataInv'
<1> SUFFICES ASSUME DataInv, [Next]_vars PROVE DataInv'
  OBVIOUS
<1>1. CASE Running /\ Listener
  BY <1>1, TypeListener
<1>2. ASSUME NEW c \in Conns, Reads(c) \/ Locks(c) \/ Goes(c) PROVE DataInv'
  BY <1>2, TypeHandler DEF Reads, Locks, Goes
<1>3. ASSUME NEW c \in Conns, Writer(c) PROVE DataInv'
  BY <1>3, TypeWriter DEF Writer
<1>4. ASSUME NEW w \in Workers, Worker(w) \/ WorkerPut(w) PROVE DataInv'
  BY <1>4, TypeWorker DEF Worker, WorkerPut
<1>5. CASE Caster \/ CasterPut
  BY <1>5, TypeCaster DEF Caster, CasterPut
<1>6. CASE MainStep \/ MainClose \/ (Running /\ Signal /\ MainFrame) \/ UNCHANGED vars
  <2>1. UNCHANGED <<listener, context, info, msg, sent, sock, core, answers, cur, worker, todo,
                    methods, busy, halt>>
    BY <1>6
       DEF MainStep, MainClose, MainFrame, vars, server, conn, buffer, out, accounting
  <2>2. ClientTypes' /\ ContextTypes' /\ MsgTypes' /\ CoreTypes'
    BY <2>1 DEF DataInv, ClientTypes, ContextTypes, MsgTypes, CoreTypes
  <2>3. AnswerTypes' /\ TodoTypes' /\ MethodTypes' /\ HaltTypes'
    BY <2>1 DEF DataInv, AnswerTypes, TodoTypes, MethodTypes, HaltTypes
  <2> QED BY <2>2, <2>3 DEF DataInv
<1> QED BY <1>1, <1>2, <1>3, <1>4, <1>5, <1>6 DEF Next

\* Buffers stay within their capacity, a worker that puts has an answer to put, and a
\* message is from one of the connections and has the group of its sender.
THEOREM TypeCorrect == Spec => []TypeOK
<1>1. ServerInv /\ DataInv => TypeOK
  <2> SUFFICES ASSUME ServerInv, DataInv PROVE TypeOK
    OBVIOUS
  <2>1. \A w \in Workers : (worker[w] \in {"put", "send"}) = (todo[w] # <<>>)
    BY DEF DataInv, TodoTypes
  <2> QED BY <2>1
          DEF ServerInv, Places, DataInv, ClientTypes, ContextTypes, MsgTypes, CoreTypes,
              AnswerTypes, TodoTypes, MethodTypes, HaltTypes, TypeOK
<1>2. Spec => []DataInv
  BY TypeInit, TypeStep, PTL DEF Spec
<1> QED BY Invariance, <1>1, <1>2, PTL

-----------------------------------------------------------------------------
\* Everything that hangs: the invariant of sockets and writers, and the cases

\* A handler that reads or puts has its socket; who lost its connection has no open one.
SocketInv ==
    /\ caster = "send" => pend # {}
    /\ \A c \in Conns :
          /\ handler[c] \in {"accepted", "read", "put", "used", "add"} =>
                sock[c] \in {"open", "broken"}
          /\ handler[c] \in {"none", "accepted"} => writer[c] = "none"
          /\ ~info[c] => sock[c] # "open" /\ handler[c] \in {"remove", "delete", "gone"}
          /\ writer[c] = "ended" => sock[c] # "open" \/ cur[c] = "empty"

\* One connection at most is accepted and not yet counted, and it is in the hands of the
\* listener.
AcceptInv ==
    /\ \A c \in Conns : handler[c] = "accepted" => listener = "count"
    /\ \A c, d \in Conns : handler[c] = "accepted" /\ handler[d] = "accepted" => c = d

LEMMA AcceptStep == TypeOK /\ AcceptInv /\ [Next]_vars => AcceptInv'
<1> SUFFICES ASSUME TypeOK, AcceptInv, [Next]_vars PROVE AcceptInv'
  OBVIOUS
<1>1. CASE Running /\ Listener
  <2>1. CASE ListenerCheck
    BY <2>1 DEF ListenerCheck, AcceptInv
  <2>2. ASSUME NEW c \in Conns, ListenerAccept(c) PROVE AcceptInv'
    <3>1. /\ listener = "accept" /\ listener' = "count"
          /\ handler' = [handler EXCEPT ![c] = "accepted"]
      BY <2>2 DEF ListenerAccept
    <3> QED BY <3>1 DEF TypeOK, AcceptInv
  <2>3. ASSUME NEW c \in Conns, Count(c) PROVE AcceptInv'
    <3>1. handler[c] = "accepted" /\ handler' = [handler EXCEPT ![c] = "read"]
      BY <2>3 DEF Count
    <3> QED BY <3>1 DEF TypeOK, AcceptInv
  <2>4. ASSUME NEW c \in Conns, PeerBreak(c) PROVE AcceptInv'
    BY <2>4 DEF PeerBreak, AcceptInv
  <2> QED BY <1>1, <2>1, <2>2, <2>3, <2>4 DEF Listener
<1>2. ASSUME NEW c \in Conns, Reads(c) \/ Locks(c) \/ Goes(c) PROVE AcceptInv'
  <2>1. listener' = listener
    BY <1>2 DEF Reads, Locks, Goes, HandlerFrame, server
  <2>2. handler' = handler \/ \E to \in HandlerStates \ {"accepted"} : handler' = [handler EXCEPT ![c] = to]
    <3>1. CASE HandlerRead(c)
      BY <3>1 DEF HandlerRead, FastCommand, NewCoreMsg, Leave, HandlerEnd, HandlerGoto, HandlerStates
    <3>2. CASE HandlerLocks(c)
      BY <3>2
         DEF HandlerLocks, checkUsedChannel, AddChannel, RemoveChannel, HandlerEnd, HandlerGoto,
             HandlerStates
    <3>3. CASE HandlerGoes(c)
      BY <3>3
         DEF HandlerGoes, PutCore, PutCoreClosed, Eof, DeleteChannel, DeleteRace, HandlerEnd,
             HandlerGoto, HandlerStates, conn
    <3> QED BY <1>2, <3>1, <3>2, <3>3 DEF Reads, Locks, Goes
  <2>3. \A d \in Conns : handler'[d] = "accepted" => handler[d] = "accepted"
    BY <2>2 DEF TypeOK
  <2> QED BY <2>1, <2>3 DEF AcceptInv
<1>3. CASE \/ \E c \in Conns : Writer(c)
           \/ \E w \in Workers : Worker(w) \/ WorkerPut(w)
           \/ Caster \/ CasterPut
           \/ MainStep \/ MainClose \/ (Running /\ Signal /\ MainFrame) \/ UNCHANGED vars
  <2>1. UNCHANGED <<handler, listener>>
    BY <1>3
       DEF Writer, WriterStep, Worker, WorkerPut, WorkerFrame, Caster, CasterPut, CastFrame,
           MainStep, MainClose, MainFrame, vars, conn, server
  <2> QED BY <2>1 DEF AcceptInv
<1> QED BY <1>1, <1>2, <1>3 DEF Next

LEMMA SocketInit == Init => SocketInv /\ AcceptInv
  BY DEF Init, SocketInv, AcceptInv

LEMMA SocketHandler ==
    ASSUME TypeOK, SocketInv, NEW c \in Conns, HandlerFrame,
           HandlerRead(c) \/ HandlerLocks(c) \/ HandlerGoes(c)
    PROVE  SocketInv'
<1>1. UNCHANGED <<caster, pend, cur>>
  BY DEF HandlerFrame, cast
<1>2. CASE AddChannel(c)
  <2>1. /\ handler[c] = "add" /\ handler' = [handler EXCEPT ![c] = "read"]
        /\ writer' = [writer EXCEPT ![c] = "recv"] /\ UNCHANGED <<sock, info>>
    BY <1>2 DEF AddChannel, HandlerGoto
  <2> QED BY <1>1, <2>1 DEF TypeOK, SocketInv
<1>3. CASE Eof(c)
  <2>1. PICK to \in {"remove", "gone"} :
            handler[c] = "read" /\ handler' = [handler EXCEPT ![c] = to]
    BY <1>3 DEF Eof, HandlerEnd, HandlerGoto
  <2>2. /\ sock[c] = "broken" /\ info' = [info EXCEPT ![c] = FALSE] /\ writer' = writer
        /\ sock' = sock \/ sock' = [sock EXCEPT ![c] = "closed"]
    BY <1>3 DEF Eof
  <2> QED BY <1>1, <2>1, <2>2 DEF TypeOK, SocketInv
<1>4. CASE Leave(c) \/ DeleteChannel(c)
  <2>1. /\ handler[c] \in {"read", "delete"} /\ handler' = [handler EXCEPT ![c] = "gone"]
        /\ sock' = [sock EXCEPT ![c] = "closed"] /\ UNCHANGED <<info, writer>>
    BY <1>4 DEF Leave, DeleteChannel, HandlerEnd, HandlerGoto
  <2> QED BY <1>1, <2>1 DEF TypeOK, SocketInv
<1>5. CASE RemoveChannel(c)
  <2>1. PICK to \in {"delete", "gone"} :
            handler[c] = "remove" /\ handler' = [handler EXCEPT ![c] = to]
    BY <1>5 DEF RemoveChannel, HandlerEnd, HandlerGoto
  <2>2. /\ UNCHANGED <<info, writer>>
        /\ sock' = sock \/ sock' = [sock EXCEPT ![c] = "closed"]
    BY <1>5 DEF RemoveChannel
  <2> QED BY <1>1, <2>1, <2>2 DEF TypeOK, SocketInv
<1>6. CASE FastCommand(c) \/ PutCoreClosed(c) \/ DeleteRace(c)
  <2>1. UNCHANGED <<handler, sock, info, writer>>
    BY <1>6 DEF FastCommand, PutCoreClosed, DeleteRace, conn
  <2> QED BY <1>1, <2>1 DEF SocketInv
<1>7. CASE NewCoreMsg(c) \/ PutCore(c) \/ checkUsedChannel(c)
  <2>1. /\ UNCHANGED <<sock, info, writer>>
        /\ \/ UNCHANGED handler
           \/ /\ handler[c] \in {"read", "put", "used"}
              /\ \E to \in {"read", "put", "used", "add"} : handler' = [handler EXCEPT ![c] = to]
    BY <1>7 DEF NewCoreMsg, PutCore, checkUsedChannel, HandlerGoto
  <2> QED BY <1>1, <2>1 DEF TypeOK, SocketInv
<1> QED BY <1>2, <1>3, <1>4, <1>5, <1>6, <1>7 DEF HandlerRead, HandlerLocks, HandlerGoes

LEMMA SocketStep == TypeOK /\ SocketInv /\ [Next]_vars => SocketInv'
<1> SUFFICES ASSUME TypeOK, SocketInv, [Next]_vars PROVE SocketInv'
  OBVIOUS
<1>1. CASE Running /\ Listener
  <2>1. UNCHANGED <<caster, pend, info, writer, cur>>
    BY <1>1 DEF Listener, out, cast
  <2>2. CASE ListenerCheck
    BY <2>1, <2>2 DEF ListenerCheck, SocketInv
  <2>3. ASSUME NEW c \in Conns, ListenerAccept(c) \/ Count(c) \/ PeerBreak(c) PROVE SocketInv'
    <3>1. CASE ListenerAccept(c)
      <4>1. /\ handler[c] = "none" /\ handler' = [handler EXCEPT ![c] = "accepted"]
            /\ sock' = [sock EXCEPT ![c] = "open"]
        BY <3>1 DEF ListenerAccept
      <4> QED BY <2>1, <4>1 DEF TypeOK, SocketInv
    <3>0. CASE Count(c)
      <4>1. /\ handler[c] = "accepted" /\ handler' = [handler EXCEPT ![c] = "read"]
            /\ UNCHANGED sock
        BY <3>0 DEF Count
      <4> QED BY <2>1, <4>1 DEF TypeOK, SocketInv
    <3>2. CASE PeerBreak(c)
      <4>1. handler' = handler /\ sock' = [sock EXCEPT ![c] = "broken"]
        BY <3>2 DEF PeerBreak
      <4> QED BY <2>1, <4>1 DEF TypeOK, SocketInv
    <3> QED BY <2>3, <3>0, <3>1, <3>2
  <2> QED BY <1>1, <2>2, <2>3 DEF Listener
<1>2. ASSUME NEW c \in Conns, Reads(c) \/ Locks(c) \/ Goes(c) PROVE SocketInv'
  BY <1>2, SocketHandler DEF Reads, Locks, Goes
<1>3. ASSUME NEW c \in Conns, Writer(c) PROVE SocketInv'
  <2>1. UNCHANGED <<caster, pend, handler, info, sock>>
    BY <1>3 DEF Writer, WriterStep, conn, cast
  <2>2. CASE Receive(c)
    <3>1. /\ writer[c] = "recv" /\ writer' = [writer EXCEPT ![c] = "write"]
          /\ \E k : cur' = [cur EXCEPT ![c] = k]
      BY <2>2 DEF Receive, WriterGoto
    <3> QED BY <2>1, <3>1 DEF TypeOK, SocketInv
  <2>3. CASE Write(c)
    <3>1. /\ writer[c] = "write" /\ cur' = cur
          /\ \/ writer' = [writer EXCEPT ![c] = "recv"]
             \/ cur[c] = "empty" /\ writer' = [writer EXCEPT ![c] = "ended"]
      BY <2>3 DEF Write, WriterGoto, EndsWith
    <3> QED BY <2>1, <3>1 DEF TypeOK, SocketInv
  <2>4. CASE WriterEnds(c)
    <3>1. /\ writer[c] = "write" /\ cur' = cur /\ writer' = [writer EXCEPT ![c] = "ended"]
          /\ ~info[c] \/ sock[c] # "open"
      BY <2>4 DEF WriterEnds, WriterGoto
    <3> QED BY <2>1, <3>1 DEF TypeOK, SocketInv
  <2> QED BY <1>3, <2>2, <2>3, <2>4 DEF Writer, WriterStep
<1>4. CASE \/ \E w \in Workers : Worker(w) \/ WorkerPut(w)
           \/ MainStep \/ MainClose \/ (Running /\ Signal /\ MainFrame) \/ UNCHANGED vars
  <2>1. UNCHANGED <<caster, pend, handler, info, sock, writer, cur>>
    BY <1>4 DEF Worker, WorkerPut, WorkerFrame, MainStep, MainClose, MainFrame, vars, conn, out, cast
  <2> QED BY <2>1 DEF SocketInv
<1>5. CASE Caster \/ CasterPut
  <2>1. UNCHANGED <<handler, info, sock, writer, cur>>
    BY <1>5 DEF Caster, CasterPut, CastFrame, conn, out
  <2>2. caster' = "send" => pend' # {}
    <3>1. CASE CastCheck
      BY <3>1 DEF CastCheck
    <3>2. CASE PutAll
      BY <3>2 DEF PutAll
    <3>3. ASSUME NEW c \in Conns, PutOne(c) PROVE caster' = "send" => pend' # {}
      BY <3>3 DEF PutOne
    <3> QED BY <1>5, <3>1, <3>2, <3>3 DEF Caster, CasterPut
  <2> QED BY <2>1, <2>2 DEF SocketInv
<1> QED BY <1>1, <1>2, <1>3, <1>4, <1>5 DEF Next

\* Who waits to send to a full channel waits for a writer that has ended, or that waits for
\* its client.
LEMMA FullIsDead ==
    ASSUME TypeOK, ServerInv, NEW c \in Conns, Sending(c), ~WriterFree(c),
           ~(Len(answers[c]) < BufferSize)
    PROVE  Dead(c)
<1>1. Len(answers[c]) \in Nat /\ Len(answers[c]) <= BufferSize
  BY LenProperties DEF TypeOK
<1>2. Len(answers[c]) = BufferSize /\ answers[c] # <<>>
  <2>1. Len(answers[c]) = BufferSize
    BY <1>1, RlAssumption
  <2> QED BY <2>1, RlAssumption
<1>3. c \in chans
  BY NobodySends
<1>4. writer[c] # "none"
  BY <1>3 DEF ServerInv, ChannelPlaces
<1> QED BY <1>2, <1>4 DEF TypeOK, WriterFree, Dead

\* With the lock taken, its holder goes on or meets a dead channel.
LEMMA LockedIsStuck ==
    ASSUME TypeOK, ServerInv, SocketInv, ~CanGo, dlock # Nobody
    PROVE  DispatcherStuck
<1>1. CASE dlock = Cast
  <2>1. caster = "send"
    BY <1>1 DEF ServerInv, MapInv
  <2>2. PICK c \in pend : TRUE
    BY <2>1 DEF SocketInv
  <2>3. c \in Conns /\ ~(Len(answers[c]) < BufferSize)
    BY <2>1 DEF TypeOK, CanGo, CasterFree
  <2>4. Sending(c) /\ ~WriterFree(c)
    BY <2>1, <2>3 DEF Sending, CanGo
  <2> QED BY <2>3, <2>4, FullIsDead DEF DispatcherStuck
<1>2. CASE dlock \in Workers
  <2>1. PICK w \in Workers : w = dlock
    BY <1>2
  <2>2. worker[w] = "send" /\ todo[w] # <<>> /\ todo[w] \in Seq([to : Conns, kind : Kinds])
    <3>1. worker[w] = "send" /\ todo[w] \in Seq([to : Conns, kind : Kinds])
      BY <2>1 DEF ServerInv, MapInv, TypeOK
    <3>2. (worker[w] \in {"put", "send"}) = (todo[w] # <<>>)
      BY DEF TypeOK
    <3> QED BY <3>1, <3>2
  <2>3. Head(todo[w]) \in [to : Conns, kind : Kinds]
    BY <2>2, HeadTailProperties
  <2>4. PICK c \in Conns : c = Head(todo[w]).to
    BY <2>3
  <2>5. ~(Len(answers[c]) < BufferSize)
    BY <2>2, <2>4 DEF CanGo, WorkerFree
  <2>6. Sending(c) /\ ~WriterFree(c)
    BY <2>2, <2>4 DEF Sending, CanGo
  <2> QED BY <2>5, <2>6, FullIsDead DEF DispatcherStuck
<1> QED BY <1>1, <1>2 DEF TypeOK

\* With the lock free, a handler waits for the workers or for its client.
LEMMA UnlockedIsIdle ==
    ASSUME TypeOK, ServerInv, SocketInv, AcceptInv, ~CanGo, dlock = Nobody, main # "done"
    PROVE  Idle \/ BufferStuck
<1>1. CanLock /\ CanRLock
  BY DEF Readers, CanLock, CanRLock, CanGo, HandlerFree
<1>2. \A w \in Workers : worker[w] \in {"recv", "done"} /\ (worker[w] = "recv" => core = <<>> /\ ~closed)
  <2>1. ASSUME NEW w \in Workers
        PROVE worker[w] \in {"recv", "done"} /\ (worker[w] = "recv" => core = <<>> /\ ~closed)
    <3>1. worker[w] # "send"
      BY RlAssumption DEF ServerInv, MapInv
    <3>2. worker[w] # "put" /\ worker[w] # "check"
      BY <1>1 DEF CanGo, WorkerFree
    <3> QED BY <3>1, <3>2 DEF TypeOK, CanGo, WorkerFree
  <2> QED BY <2>1
<1>3. \A c \in Conns : writer[c] = "write" => Unread(c)
  BY DEF CanGo, WriterFree
<1>4. caster \in {"check", "ended"}
  BY <1>1, RlAssumption DEF TypeOK, ServerInv, MapInv, CanGo, CasterFree
<1>5. main = "run" \/ (main = "wait" /\ HasConnection)
  BY <1>1 DEF TypeOK, CanGo, MainFree
<1>6. ASSUME NEW c \in Conns
      PROVE handler[c] \in {"none", "gone", "put"} \/ (handler[c] = "read" /\ sock[c] = "open")
  <2>1. handler[c] # "accepted"
    BY DEF AcceptInv, CanGo
  <2>2. handler[c] \in HandlerStates /\ ~HandlerFree(c)
    BY DEF TypeOK, CanGo
  <2>3. handler[c] = "read" => sock[c] \in {"open", "broken"}
    BY DEF SocketInv
  <2> QED BY <1>1, <2>1, <2>2, <2>3 DEF HandlerStates, HandlerFree
<1>7. CASE \E c \in Conns : handler[c] = "put"
  <2>1. ~closed /\ ~(Len(core) < BufferSize)
    BY <1>7 DEF CanGo, HandlerFree
  <2>2. Len(core) = BufferSize /\ core # <<>>
    <3>1. Len(core) \in Nat /\ Len(core) <= BufferSize
      BY LenProperties DEF TypeOK
    <3>2. Len(core) = BufferSize
      BY <2>1, <3>1, RlAssumption
    <3> QED BY <3>2, RlAssumption
  <2> QED BY <1>2, <1>7, <2>2 DEF BufferStuck
<1>8. CASE ~\E c \in Conns : handler[c] = "put"
  BY <1>2, <1>3, <1>4, <1>5, <1>6, <1>8 DEF Idle
<1> QED BY <1>7, <1>8

\* Dispatcher, buffer and stop wait for each other, but never for good: a server that is
\* not idle goes on, unless somebody sends to a full channel whose writer ended or waits for a
\* client that does not read (rlserver.go:120, :336), or its workers left the buffer full
\* at the stop.
THEOREM HangsClassified == Spec => []HangsOnlyStuck
<1>1. TypeOK /\ ServerInv /\ SocketInv /\ AcceptInv => HangsOnlyStuck
  <2> SUFFICES ASSUME TypeOK, ServerInv, SocketInv, AcceptInv PROVE HangsOnlyStuck
    OBVIOUS
  <2>1. ASSUME main # "done", ~CanGo PROVE Idle \/ Stuck
    <3>1. CASE dlock = Nobody
      BY <2>1, <3>1, UnlockedIsIdle DEF Stuck
    <3>2. CASE dlock # Nobody
      BY <2>1, <3>2, LockedIsStuck DEF Stuck
    <3> QED BY <3>1, <3>2
  <2> QED BY <2>1 DEF HangsOnlyStuck, SocketInv
<1> QED BY <1>1, TypeCorrect, Invariance, SocketInit, SocketStep, AcceptStep, PTL DEF Spec
=============================================================================
