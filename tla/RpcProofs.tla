------------------------------ MODULE RpcProofs ------------------------------
(***************************************************************************)
(* Types of Rpc, and that a routed call is lost only when its server has   *)
(* been cleaned up or its group was replaced, for any connections,         *)
(* workers, groups, methods and bounds.  The argument is GroupInv: a slot  *)
(* never goes back to a group it had; and ServerInv: who is in the methods *)
(* got its auth from its own writer, so its back channel is or was there.  *)
(* Then TaskInv: where a task, the answer with it and its result are.      *)
(***************************************************************************)
EXTENDS RpcProperties, SequenceTheorems, TLAPS

-----------------------------------------------------------------------------
\* What instructions are made of.

\* The changes the handlers ask for.
LEMMA ChangesMembers ==
    /\ NoChange \in Changes
    /\ \A b \in BOOLEAN : <<"auth", b>> \in Changes
    /\ \A g \in {1, 2} : <<"group", g>> \in Changes
    /\ \A s \in 1..3 : <<"status", s>> \in Changes
BY DEF Changes

\* A change of a record gives a record.
LEMMA UpdatedRecord ==
    ASSUME NEW s \in Record, NEW change \in Changes
    PROVE Updated(s, change) \in Record
<1>1. CASE change = NoChange
  BY <1>1 DEF Updated, NoChange
<1>2. CASE change \in {"auth"} \X BOOLEAN
  <2>1. change[1] = "auth" /\ change[2] \in BOOLEAN
    BY <1>2
  <2> QED BY <2>1 DEF Updated, Record
<1>3. CASE change \in {"group"} \X {1, 2}
  <2>1. change[1] = "group" /\ change[2] \in 0..3
    BY <1>3
  <2> QED BY <2>1 DEF Updated, Record
<1>4. CASE change \in {"status"} \X (1..3)
  <2>1. change[1] = "status" /\ change[2] \in 0..3
    BY <1>4
  <2> QED BY <2>1 DEF Updated, Record
<1> QED BY <1>1, <1>2, <1>3, <1>4 DEF Changes

\* An instruction is made of a connection, a type, a change and a task.
LEMMA OutInstruction ==
    ASSUME NEW c \in Conns, NEW type \in {"ok", "problem", "execute", "result", "exit"},
           NEW change \in Changes, NEW t \in Tasks \cup {Nobody}
    PROVE /\ Out(c, type, change, t) \in Instruction
          /\ Out(c, type, change, t).to = c /\ Out(c, type, change, t).type = type
BY DEF Out, Instruction

\* The queue after a Tail has no new elements.
LEMMA TailElements ==
    ASSUME NEW S, NEW s \in Seq(S), s # <<>>
    PROVE /\ Head(s) \in S /\ Head(s) = s[1] /\ 1 \in DOMAIN s /\ Tail(s) \in Seq(S)
          /\ \A n \in DOMAIN Tail(s) : n + 1 \in DOMAIN s /\ Tail(s)[n] = s[n + 1]
<1>1. Len(s) \in Nat /\ DOMAIN s = 1..Len(s) /\ Len(s) # 0
  BY EmptySeq, LenProperties
<1>2. /\ Head(s) \in S /\ Tail(s) \in Seq(S) /\ Len(Tail(s)) = Len(s) - 1
      /\ \A i \in 1..(Len(s) - 1) : Tail(s)[i] = s[i + 1]
  BY HeadTailProperties
<1>3. DOMAIN Tail(s) = 1..(Len(s) - 1)
  BY <1>2, LenProperties
<1> QED BY <1>1, <1>2, <1>3

\* The queue after an Append has the old elements and the new one.
LEMMA AppendElements ==
    ASSUME NEW S, NEW s \in Seq(S), NEW e \in S
    PROVE /\ Append(s, e) \in Seq(S)
          /\ \A n \in DOMAIN Append(s, e) :
                \/ n \in DOMAIN s /\ Append(s, e)[n] = s[n]
                \/ Append(s, e)[n] = e
<1>1. /\ Append(s, e) \in Seq(S) /\ Len(Append(s, e)) = Len(s) + 1 /\ Len(s) \in Nat
      /\ \A i \in 1..Len(s) : Append(s, e)[i] = s[i]
      /\ Append(s, e)[Len(s) + 1] = e
  BY AppendProperties, LenProperties
<1>2. DOMAIN s = 1..Len(s) /\ DOMAIN Append(s, e) = 1..(Len(s) + 1)
  BY <1>1, LenProperties
<1> QED BY <1>1, <1>2

\* A history that grows by one element at one connection.
LEMMA HistoryGrows ==
    ASSUME NEW S, NEW f \in [Conns -> SUBSET S], NEW g, NEW c \in Conns, NEW e \in S,
           g = f \/ g = [f EXCEPT ![c] = @ \cup {e}]
    PROVE g \in [Conns -> SUBSET S]
<1>1. f[c] \cup {e} \in SUBSET S
  OBVIOUS
<1> QED BY <1>1

-----------------------------------------------------------------------------
\* Types

LEMMA TypeInit == Init => TypeOK
<1> SUFFICES ASSUME Init PROVE TypeOK
  OBVIOUS
<1>1. ConnectionsOK
  BY DEF Init, ConnectionsOK
<1>2. WritersOK
  BY EmptySeq DEF Init, WritersOK
<1>3. WorkersOK
  <2>1. /\ in \in Seq(Job) /\ DOMAIN in = {}
        /\ outs \in [Workers -> Seq(Instruction)] /\ cand \in [Workers -> SUBSET Conns]
        /\ rlock \in [Workers -> Conns \cup {Nobody}]
    BY EmptySeq DEF Init
  <2>2. \A w \in Workers : worker[w] = "idle"
    BY DEF Init
  <2>3. worker \in [Workers -> {"idle"}] /\ job \in [Workers -> {Nobody}]
    BY DEF Init
  <2> QED BY <2>1, <2>2, <2>3 DEF WorkersOK, CommandTypes
<1>4. TasksOK
  BY RpcAssumption DEF Init, TasksOK, Tasks
<1>5. HistoryOK
  BY DEF Init, HistoryOK
<1> QED BY <1>1, <1>2, <1>3, <1>4, <1>5 DEF TypeOK

\* A command of a client becomes an instruction that fits.
LEMMA CommandJob ==
    ASSUME TypeOK, NEW c \in Conns, NEW k \in Commands[c]
    PROVE LET j == [cid |-> c, type |-> TypeOf(k), arg |-> k[2]] IN
          j \in Job /\ Fits(j)
<1> DEFINE j == [cid |-> c, type |-> TypeOf(k), arg |-> k[2]]
<1>1. k \in AllCommands
  BY RpcAssumption
<1>2. CASE k \in {"auth", "badauth", "exit"} \X {Nobody}
  BY <1>2 DEF Job, Fits, TypeOf, CommandTypes
<1>3. CASE k \in {"reg"} \X (1..4)
  BY <1>3 DEF Job, Fits, TypeOf, CommandTypes
<1>4. CASE k \in {"status"} \X ((1..3) \cup {Nobody})
  <2>1. TypeOf(k) = "status" /\ k[2] \in (1..3) \cup {Nobody}
    BY <1>4 DEF TypeOf
  <2> QED BY <2>1 DEF Job, Fits, CommandTypes
<1>5. CASE k \in {"result", "getresult"} \X (Tasks \cup {Nobody})
  BY <1>5 DEF Job, Fits, TypeOf, CommandTypes
<1>6. CASE k \in {"call"} \X Methods
  BY <1>6 DEF Job, Fits, TypeOf, CommandTypes
<1> QED BY <1>1, <1>2, <1>3, <1>4, <1>5, <1>6 DEF AllCommands

LEMMA TypePeer == ASSUME TypeOK, NEW c \in Conns, Peer(c) PROVE TypeOK'
<1> USE DEF TypeOK
<1>1. CASE NewConnection(c)
  <2>1. newClientStateData \in Record
    BY DEF newClientStateData, Record
  <2>2. ConnectionsOK'
    BY <1>1, <2>1 DEF NewConnection, Goto, ConnectionsOK, line
  <2> QED BY <1>1, <2>2 DEF Peer, NewConnection, WritersOK, WorkersOK, TasksOK, HistoryOK, Fits,
                            line, work, task, hist
<1>2. CASE PeerBreak(c)
  BY <1>2 DEF Peer, PeerBreak, ConnectionsOK, WritersOK, WorkersOK, TasksOK, HistoryOK, Fits,
              line, work, task, hist
<1>3. ASSUME NEW k \in Commands[c], Processing(c, k) PROVE TypeOK'
  <2>1. ConnectionsOK'
    BY <1>3 DEF Processing, Goto, ConnectionsOK, line
  <2>2. WritersOK' /\ TasksOK'
    BY <1>3 DEF Peer, Processing, WritersOK, TasksOK, line, work, task
  <2>3. WorkersOK'
    <3> DEFINE j == [cid |-> c, type |-> TypeOf(k), arg |-> k[2]]
    <3>1. j \in Job /\ Fits(j) /\ in' = Append(in, j) /\ in \in Seq(Job)
      BY <1>3, CommandJob DEF Processing, WorkersOK
    <3> HIDE DEF j
    <3>2. /\ in' \in Seq(Job)
          /\ \A n \in DOMAIN in' : (n \in DOMAIN in /\ in'[n] = in[n]) \/ in'[n] = j
      BY <3>1, AppendElements
    <3>3. \A n \in DOMAIN in' : Fits(in'[n])
      BY <3>1, <3>2 DEF WorkersOK
    <3> QED BY <3>2, <3>3 DEF Peer, WorkersOK, Fits, work
  <2>4. last' \in [Conns -> 0..3]
    <3>0. last \in [Conns -> 0..3]
      BY DEF HistoryOK
    <3>1. CASE k[1] = "status" /\ k[2] # Nobody
      <4> DEFINE j == [cid |-> c, type |-> TypeOf(k), arg |-> k[2]]
      <4>1. Fits(j) /\ j.type = "status"
        BY <3>1, CommandJob DEF TypeOf
      <4>2. k[2] \in 1..3
        BY <3>1, <4>1 DEF Fits
      <4>3. last' = [last EXCEPT ![c] = k[2]]
        BY <1>3, <3>1 DEF Processing
      <4> QED BY <3>0, <4>2, <4>3
    <3>2. CASE k[1] = "result"
      <4>1. last' = [last EXCEPT ![c] = 1]
        BY <1>3, <3>2 DEF Processing, ClientStatusActive
      <4> QED BY <3>0, <4>1
    <3>3. CASE ~(k[1] = "status" /\ k[2] # Nobody) /\ k[1] # "result"
      BY <1>3, <3>0, <3>3 DEF Processing
    <3> QED BY <3>1, <3>2, <3>3
  <2>5. HistoryOK'
    BY <2>4 DEF Peer, HistoryOK, hist
  <2> QED BY <2>1, <2>2, <2>3, <2>5
<1> QED BY <1>1, <1>2, <1>3 DEF Peer

LEMMA TypeReader == ASSUME TypeOK, NEW c \in Conns, Reader(c) PROVE TypeOK'
<1> USE DEF TypeOK
<1>1. WorkersOK' /\ HistoryOK'
  BY DEF Reader, LookGroup, CreateGroup, AppendBackChannel, Put, ReadError, LeaveServers,
         RemoveBackChannel, Delete, RemoveConnection, Close, WorkersOK, HistoryOK, Fits, work, hist
<1>2. TasksOK'
  BY DEF Reader, LookGroup, CreateGroup, AppendBackChannel, Put, ReadError, LeaveServers,
         RemoveBackChannel, Delete, RemoveConnection, Close, TasksOK, Remove, task
<1>3. ConnectionsOK'
  BY RpcAssumption DEF Reader, LookGroup, CreateGroup, AppendBackChannel, Put, ReadError, LeaveServers,
         RemoveBackChannel, Delete, RemoveConnection, Close, ConnectionsOK, Goto, Slot, line
<1>4. WritersOK'
  BY DEF Reader, LookGroup, CreateGroup, AppendBackChannel, Put, ReadError, LeaveServers,
         RemoveBackChannel, Delete, RemoveConnection, Close, WritersOK, line
<1> QED BY <1>1, <1>2, <1>3, <1>4

\* What a worker does not change of the connections.
LEMMA WorkerFrame ==
    ASSUME TypeOK, NEW w \in Workers, Worker(w), UNCHANGED line
    PROVE ConnectionsOK' /\ WritersOK'
BY DEF TypeOK, Worker, ConnectionsOK, WritersOK, conn, line

\* Answers are what a worker may have to send.
LEMMA TypeAnswer ==
    ASSUME TypeOK, NEW w \in Workers, worker[w] # "idle", Worker(w),
           NEW is \in Seq(Instruction), Answer(w, is), UNCHANGED known,
           cand' \in [Workers -> SUBSET Conns]
    PROVE ConnectionsOK' /\ WritersOK' /\ WorkersOK' /\ HistoryOK'
<1> USE DEF TypeOK
<1>1. UNCHANGED line
  BY DEF Answer
<1>2. /\ worker' = [worker EXCEPT ![w] = "send"] /\ outs' = [outs EXCEPT ![w] = is]
      /\ UNCHANGED <<job, in, rlock, lost, halt>>
  BY DEF Answer
<1>3. "send" \notin CommandTypes
  BY DEF CommandTypes
<1>4. WorkersOK'
  BY <1>2, <1>3 DEF WorkersOK, Fits
<1>5. HistoryOK'
  BY <1>2 DEF Worker, HistoryOK, hist
<1> QED BY <1>1, <1>4, <1>5, WorkerFrame

\* A worker that takes on the next step of its handlers.
LEMMA TypeStep ==
    ASSUME TypeOK, NEW w \in Workers, worker[w] # "idle", Worker(w),
           NEW place \in {"append", "pick"}, worker' = [worker EXCEPT ![w] = place],
           cand' \in [Workers -> SUBSET Conns], known \subseteq known',
           UNCHANGED <<job, outs, in, line, rlock, lost, halt>>
    PROVE ConnectionsOK' /\ WritersOK' /\ WorkersOK' /\ HistoryOK'
<1> USE DEF TypeOK
<1>1. place \notin CommandTypes
  BY DEF CommandTypes
<1>2. WorkersOK'
  BY <1>1 DEF WorkersOK, Fits
<1>3. HistoryOK'
  BY DEF Worker, HistoryOK, hist
<1> QED BY <1>2, <1>3, WorkerFrame

\* The instructions of the handlers.
LEMMA Answers ==
    ASSUME TypeOK, NEW w \in Workers, worker[w] # "idle"
    PROVE /\ job[w].cid \in Conns
          /\ \A change \in Changes : \A t \in Tasks \cup {Nobody} :
                /\ Ok(w, change, t) \in Instruction
                /\ <<Ok(w, change, t)>> \in Seq(Instruction)
          /\ \A change \in Changes :
                /\ Problem(w, change) \in Instruction
                /\ <<Problem(w, change)>> \in Seq(Instruction)
<1>1. job[w].cid \in Conns
  BY DEF TypeOK, WorkersOK, Job
<1>2. \A change \in Changes : \A t \in Tasks \cup {Nobody} : Ok(w, change, t) \in Instruction
  BY <1>1, OutInstruction DEF Ok
<1>3. \A change \in Changes : Problem(w, change) \in Instruction
  BY <1>1, OutInstruction DEF Problem
<1>4. \A i \in Instruction : <<i>> \in Seq(Instruction)
  OBVIOUS
<1> QED BY <1>1, <1>2, <1>3, <1>4

\* Most handlers have one answer for the connection, and nothing else to send.
LEMMA HandlerAnswer ==
    ASSUME TypeOK, NEW w \in Workers,
           \/ ProcAuth(w) \/ RefuseRegistration(w) \/ RegisterClient(w) \/ ProcUpdateStatus(w)
           \/ NoServer(w) \/ ResultWithoutTask(w) \/ NoHandler(w) \/ ExitHandler(w)
    PROVE \E i \in Instruction :
              /\ Answer(w, <<i>>) /\ i.type # "execute"
              /\ i.type = "ok" => i.change # NoChange /\ i.task = Nobody
<1>1. worker[w] # "idle"
  BY DEF ProcAuth, RefuseRegistration, RegisterClient, ProcUpdateStatus, NoServer,
         ResultWithoutTask, NoHandler, ExitHandler
<1>2. /\ \A change \in Changes : Ok(w, change, Nobody) \in Instruction
      /\ \A change \in Changes : Problem(w, change) \in Instruction
      /\ \A change : /\ Ok(w, change, Nobody).type = "ok"
                     /\ Ok(w, change, Nobody).change = change
                     /\ Ok(w, change, Nobody).task = Nobody
                     /\ Problem(w, change).type = "problem"
  BY <1>1, Answers DEF Ok, Problem, Out
<1>2a. \A change \in Changes \ {NoChange} : Answer(w, <<Ok(w, change, Nobody)>>) =>
          \E i \in Instruction :
              /\ Answer(w, <<i>>) /\ i.type # "execute"
              /\ i.type = "ok" => i.change # NoChange /\ i.task = Nobody
  BY <1>2
<1>2b. \A change \in Changes : Answer(w, <<Problem(w, change)>>) =>
          \E i \in Instruction :
              /\ Answer(w, <<i>>) /\ i.type # "execute"
              /\ i.type = "ok" => i.change # NoChange /\ i.task = Nobody
  BY <1>2
<1>2c. /\ <<"auth", TRUE>> \in Changes \ {NoChange} /\ <<"auth", FALSE>> \in Changes
      /\ <<"group", 2>> \in Changes \ {NoChange}
      /\ \A n \in 1..3 : <<"status", n>> \in Changes \ {NoChange}
  BY ChangesMembers DEF NoChange
<1>3. CASE ProcAuth(w)
  BY <1>2a, <1>2b, <1>2c, <1>3 DEF ProcAuth
<1>4. CASE RefuseRegistration(w) \/ NoServer(w) \/ NoHandler(w)
  BY <1>2b, <1>4, ChangesMembers DEF RefuseRegistration, NoServer, NoHandler
<1>5. CASE RegisterClient(w)
  BY <1>2a, <1>2c, <1>5 DEF RegisterClient, GroupConnectionClient
<1>6. CASE ProcUpdateStatus(w)
  <2>1. worker[w] = "status" /\ "status" \in CommandTypes
    BY <1>6 DEF ProcUpdateStatus, CommandTypes
  <2>2. job[w].arg \in 1..3 \/ job[w].arg = Nobody
    BY <2>1 DEF TypeOK, WorkersOK, Fits
  <2>3. CASE job[w].arg = Nobody
    BY <1>2b, <1>6, <2>3, ChangesMembers DEF ProcUpdateStatus
  <2>4. CASE job[w].arg # Nobody
    BY <1>2a, <1>2c, <1>6, <2>2, <2>4 DEF ProcUpdateStatus
  <2> QED BY <2>3, <2>4
<1>7. CASE ResultWithoutTask(w)
  BY <1>2b, <1>7, ChangesMembers DEF ResultWithoutTask, ActiveAgain, ClientStatusActive
<1>8. CASE ExitHandler(w)
  <2> DEFINE i == Out(job[w].cid, "exit", NoChange, Nobody)
  <2>1. i \in Instruction /\ i.type = "exit"
    BY <1>1, Answers, ChangesMembers, OutInstruction
  <2>2. Answer(w, <<i>>)
    BY <1>8 DEF ExitHandler
  <2> HIDE DEF i
  <2> QED BY <2>1, <2>2
<1> QED BY <1>3, <1>4, <1>5, <1>6, <1>7, <1>8

\* The handlers that change nothing but what their worker has to send.
LEMMA TypeHandlers ==
    ASSUME TypeOK, NEW w \in Workers, Worker(w),
           \/ ProcAuth(w) \/ RefuseRegistration(w) \/ RegisterClient(w) \/ ProcUpdateStatus(w)
           \/ NoServer(w) \/ ResultWithoutTask(w) \/ NoHandler(w) \/ ExitHandler(w)
    PROVE TypeOK'
<1>1. worker[w] # "idle" /\ UNCHANGED <<cand, registry, task>>
  BY DEF ProcAuth, RefuseRegistration, RegisterClient, ProcUpdateStatus, NoServer,
         ResultWithoutTask, NoHandler, ExitHandler
<1>2. \E is \in Seq(Instruction) : Answer(w, is)
  <2>1. PICK i \in Instruction : Answer(w, <<i>>)
    BY HandlerAnswer
  <2>2. <<i>> \in Seq(Instruction)
    BY <2>1
  <2> QED BY <2>1, <2>2
<1>3. cand' \in [Workers -> SUBSET Conns] /\ UNCHANGED known
  BY <1>1 DEF TypeOK, WorkersOK, registry
<1>4. ConnectionsOK' /\ WritersOK' /\ WorkersOK' /\ HistoryOK'
  BY <1>1, <1>2, <1>3, TypeAnswer
<1>5. TasksOK'
  BY <1>1 DEF TypeOK, TasksOK, registry, task
<1> QED BY <1>4, <1>5 DEF TypeOK

LEMMA TypeTake == ASSUME TypeOK, NEW w \in Workers, Worker(w), Take(w) PROVE TypeOK'
<1> USE DEF TypeOK
<1>1. in \in Seq(Job) /\ in # <<>>
  BY DEF Take, WorkersOK
<1>2. Head(in) \in Job /\ Fits(Head(in)) /\ Head(in).type \in CommandTypes
  <2>1. Head(in) \in Job /\ Head(in) = in[1] /\ 1 \in DOMAIN in
    BY <1>1, TailElements
  <2>2. Fits(in[1])
    BY <2>1 DEF WorkersOK
  <2>3. Head(in).type \in CommandTypes
    BY <2>1 DEF Job
  <2> QED BY <2>1, <2>2, <2>3
<1>3. in' \in Seq(Job) /\ \A n \in DOMAIN in' : Fits(in'[n])
  <2>1. /\ Tail(in) \in Seq(Job)
        /\ \A n \in DOMAIN Tail(in) : n + 1 \in DOMAIN in /\ Tail(in)[n] = in[n + 1]
    BY <1>1, TailElements
  <2> QED BY <2>1 DEF Take, WorkersOK, Fits, registry
<1>4. WorkersOK'
  <2>1. /\ job' = [job EXCEPT ![w] = Head(in)] /\ worker' = [worker EXCEPT ![w] = Head(in).type]
        /\ UNCHANGED <<cand, outs, rlock, known>>
    BY DEF Take, registry
  <2> QED BY <1>2, <1>3, <2>1 DEF WorkersOK, Fits
<1>5. ConnectionsOK' /\ WritersOK'
  BY WorkerFrame DEF Take
<1>6. TasksOK' /\ HistoryOK'
  BY DEF Take, Worker, TasksOK, HistoryOK, hist, registry, task
<1> QED BY <1>4, <1>5, <1>6

LEMMA TypeRegister ==
    ASSUME TypeOK, NEW w \in Workers, Worker(w), RegisterClientMethods(w) \/ AppendMethods(w)
    PROVE TypeOK'
<1>1. CASE RegisterClientMethods(w)
  <2>1. known \subseteq known' /\ cand' \in [Workers -> SUBSET Conns]
    BY <1>1 DEF RegisterClientMethods, TypeOK, WorkersOK, TasksOK
  <2>2. ConnectionsOK' /\ WritersOK' /\ WorkersOK' /\ HistoryOK'
    BY <1>1, <2>1, TypeStep DEF RegisterClientMethods
  <2>3. TasksOK'
    BY <1>1 DEF RegisterClientMethods, TypeOK, TasksOK, task
  <2> QED BY <2>2, <2>3 DEF TypeOK
<1>2. CASE AppendMethods(w)
  <2>1. worker[w] # "idle" /\ UNCHANGED <<cand, known, task>>
    BY <1>2 DEF AppendMethods
  <2>2. \E is \in Seq(Instruction) : Answer(w, is)
    BY <1>2, <2>1, Answers, ChangesMembers DEF AppendMethods, GroupConnectionServer
  <2>3. cand' \in [Workers -> SUBSET Conns]
    BY <2>1 DEF TypeOK, WorkersOK
  <2>4. ConnectionsOK' /\ WritersOK' /\ WorkersOK' /\ HistoryOK'
    BY <2>1, <2>2, <2>3, TypeAnswer
  <2>5. TasksOK'
    BY <1>2, <2>1, Answers DEF AppendMethods, TypeOK, TasksOK, task
  <2> QED BY <2>4, <2>5 DEF TypeOK
<1> QED BY <1>1, <1>2

LEMMA TypeRoute ==
    ASSUME TypeOK, NEW w \in Workers, Worker(w),
           GetCidVariants(w) \/ \E s \in Conns : SkipBusy(w, s) \/ ProcRouteRpc(w, s)
    PROVE TypeOK'
<1>1. CASE GetCidVariants(w)
  <2>1. worker[w] = "external" /\ job[w].arg \in Methods
    BY <1>1 DEF GetCidVariants, TypeOK, WorkersOK, TasksOK, Fits, CommandTypes
  <2>2. cand' \in [Workers -> SUBSET Conns] /\ UNCHANGED known
    BY <1>1, <2>1 DEF GetCidVariants, TypeOK, WorkersOK, TasksOK, registry
  <2>3. ConnectionsOK' /\ WritersOK' /\ WorkersOK' /\ HistoryOK'
    BY <1>1, <2>1, <2>2, TypeStep DEF GetCidVariants
  <2>4. TasksOK'
    BY <1>1 DEF GetCidVariants, TypeOK, TasksOK, registry, task
  <2> QED BY <2>3, <2>4 DEF TypeOK
<1>2. ASSUME NEW s \in Conns, SkipBusy(w, s) PROVE TypeOK'
  <2>1. ConnectionsOK' /\ WritersOK'
    BY <1>2, WorkerFrame DEF SkipBusy
  <2>2. WorkersOK' /\ TasksOK' /\ HistoryOK'
    BY <1>2 DEF SkipBusy, TypeOK, Worker, WorkersOK, Fits, TasksOK, HistoryOK, registry, task, hist
  <2> QED BY <2>1, <2>2 DEF TypeOK
<1>3. ASSUME NEW s \in Conns, ProcRouteRpc(w, s) PROVE TypeOK'
  <2> DEFINE t == tasks + 1
             is == <<Ok(w, NoChange, t), Out(s, "execute", NoChange, t)>>
  <2>1. worker[w] # "idle" /\ t \in Tasks /\ Answer(w, is) /\ UNCHANGED registry
    BY <1>3 DEF ProcRouteRpc
  <2>2. is \in Seq(Instruction)
    <3>1. Ok(w, NoChange, t) \in Instruction /\ Out(s, "execute", NoChange, t) \in Instruction
      BY <2>1, Answers, ChangesMembers, OutInstruction
    <3> QED BY <3>1
  <2>3. cand' \in [Workers -> SUBSET Conns] /\ UNCHANGED known
    BY <1>3 DEF ProcRouteRpc, TypeOK, WorkersOK, registry
  <2>4. ConnectionsOK' /\ WritersOK' /\ WorkersOK' /\ HistoryOK'
    <3> HIDE DEF is
    <3> QED BY <2>1, <2>2, <2>3, TypeAnswer
  <2>5. /\ tasks' = t /\ direction' = [direction EXCEPT ![t] = job[w].cid]
        /\ buffer' = buffer /\ job[w].cid \in Conns
    BY <1>3, <2>1, Answers DEF ProcRouteRpc, SetDirection
  <2>6. TasksOK'
    BY <2>1, <2>5, RpcAssumption DEF TypeOK, TasksOK, Tasks, registry
  <2> QED BY <2>4, <2>6 DEF TypeOK
<1> QED BY <1>1, <1>2, <1>3

\* A result is acknowledged, and may be pushed to its web-socket client.
LEMMA ResultAnswer ==
    ASSUME TypeOK, NEW w \in Workers, ResultReturned(w)
    PROVE \E is \in Seq(Instruction) :
              Answer(w, is) /\ \A n \in DOMAIN is : is[n].type # "execute"
<1> DEFINE t == job[w].arg
           ok == Ok(w, ActiveAgain(w), t)
           push == Out(direction[t], "result", NoChange, t)
<1>1. worker[w] = "result" /\ "result" \in CommandTypes /\ t # Nobody
  BY DEF ResultReturned, CommandTypes
<1>2. t \in Tasks
  BY <1>1 DEF TypeOK, WorkersOK, Fits
<1>3. ok \in Instruction /\ ok.type = "ok"
  BY <1>1, <1>2, Answers, ChangesMembers DEF ActiveAgain, ClientStatusActive, Ok, Out
<1>4. direction[t] # Nobody => push \in Instruction /\ push.type = "result"
  <2>1. direction[t] # Nobody => direction[t] \in Conns
    BY <1>2 DEF TypeOK, TasksOK
  <2> QED BY <1>2, <2>1, ChangesMembers, OutInstruction
<1>5. \/ Answer(w, <<ok>>)
      \/ direction[t] # Nobody /\ Answer(w, <<ok, push>>)
  BY DEF ResultReturned
<1> HIDE DEF ok, push
<1>6. /\ <<ok>> \in Seq(Instruction)
      /\ \A n \in DOMAIN <<ok>> : <<ok>>[n].type # "execute"
  BY <1>3
<1>7. direction[t] # Nobody =>
        /\ <<ok, push>> \in Seq(Instruction)
        /\ \A n \in DOMAIN <<ok, push>> : <<ok, push>>[n].type # "execute"
  BY <1>3, <1>4
<1> QED BY <1>5, <1>6, <1>7

LEMMA TypeResult ==
    ASSUME TypeOK, NEW w \in Workers, Worker(w), ResultReturned(w) PROVE TypeOK'
<1> DEFINE t == job[w].arg
<1>1. worker[w] = "result" /\ "result" \in CommandTypes /\ t # Nobody
  BY DEF ResultReturned, CommandTypes
<1>2. t \in Tasks
  BY <1>1 DEF TypeOK, WorkersOK, Fits
<1>3. direction[t] # Nobody => t \in 1..tasks
  BY <1>2 DEF TypeOK, TasksOK, Tasks
<1>4. cand' \in [Workers -> SUBSET Conns] /\ UNCHANGED known
  BY DEF ResultReturned, TypeOK, WorkersOK, registry
<1>5. ConnectionsOK' /\ WritersOK' /\ WorkersOK' /\ HistoryOK'
  BY <1>1, <1>4, ResultAnswer, TypeAnswer
<1>6. TasksOK'
  <2>1. \/ buffer' = buffer
        \/ direction[t] # Nobody /\ buffer' = buffer \cup {t}
    BY DEF ResultReturned
  <2> QED BY <1>3, <2>1 DEF ResultReturned, TypeOK, TasksOK, registry
<1> QED BY <1>5, <1>6 DEF TypeOK

\* A worker is done with one instruction, which is in its channel or lost.
LEMMA SentOne ==
    ASSUME TypeOK, NEW w \in Workers, SendMissed(w) \/ Send(w)
    PROVE LET o == Head(outs[w]) IN
          /\ outs[w] \in Seq(Instruction) /\ outs[w] # <<>> /\ worker[w] = "send"
          /\ o \in Instruction /\ o.to \in Conns /\ Rest(w) \in Seq(Instruction)
          /\ outs' = [outs EXCEPT ![w] = Rest(w)]
          /\ worker' = [worker EXCEPT ![w] = IF Rest(w) = <<>> THEN "idle" ELSE "send"]
          /\ \/ UNCHANGED <<out, rlock>> /\ lost' = lost \cup {o}
             \/ /\ out' = [out EXCEPT ![o.to] = Append(@, o)] /\ lost' = lost
                /\ rlock' = [rlock EXCEPT ![w] = Nobody]
          /\ UNCHANGED <<job, cand, in, chan, slot, home, registry, task, halt>>
<1>1. outs[w] \in Seq(Instruction) /\ outs[w] # <<>> /\ worker[w] = "send"
  BY DEF SendMissed, Send, TypeOK, WorkersOK
<1>2. Head(outs[w]) \in Instruction /\ Tail(outs[w]) \in Seq(Instruction)
  BY <1>1, TailElements
<1> QED BY <1>1, <1>2 DEF SendMissed, Send, Sent, Rest, Instruction, line

LEMMA TypeSend ==
    ASSUME TypeOK, NEW w \in Workers, Worker(w), SendMissed(w) \/ Send(w) PROVE TypeOK'
<1> USE DEF TypeOK
<1> DEFINE o == Head(outs[w])
<1>2. outs[w] # <<>> /\ o \in Instruction /\ o.to \in Conns /\ Rest(w) \in Seq(Instruction)
  BY SentOne
<1> HIDE DEF o
<1>3. WorkersOK'
  <2>1. "send" \notin CommandTypes /\ "idle" \notin CommandTypes
    BY DEF CommandTypes
  <2>2. /\ worker[w] = "send" /\ outs' = [outs EXCEPT ![w] = Rest(w)]
        /\ \E place \in {"idle", "send"} : worker' = [worker EXCEPT ![w] = place]
        /\ rlock' = rlock \/ rlock' = [rlock EXCEPT ![w] = Nobody]
        /\ UNCHANGED <<job, cand, in, known>>
    BY SentOne DEF registry
  <2> QED BY <1>2, <2>1, <2>2 DEF WorkersOK, Fits
<1>4. /\ \/ UNCHANGED out
         \/ out' = [out EXCEPT ![o.to] = Append(@, o)]
      /\ lost' \subseteq lost \cup {o}
      /\ UNCHANGED <<chan, slot, home, registry, task, halt>>
  BY SentOne DEF o
<1>5. out' \in [Conns -> Seq(Instruction)]
      /\ \A c \in Conns : \A n \in DOMAIN out'[c] : out'[c][n].to = c
  <2>1. CASE UNCHANGED out
    BY <2>1 DEF WritersOK
  <2>2. CASE out' = [out EXCEPT ![o.to] = Append(@, o)]
    <3>1. out[o.to] \in Seq(Instruction)
      BY <1>2 DEF WritersOK
    <3>2. /\ Append(out[o.to], o) \in Seq(Instruction)
          /\ \A n \in DOMAIN Append(out[o.to], o) :
                \/ n \in DOMAIN out[o.to] /\ Append(out[o.to], o)[n] = out[o.to][n]
                \/ Append(out[o.to], o)[n] = o
      BY <1>2, <3>1, AppendElements
    <3>3. /\ out'[o.to] = Append(out[o.to], o)
          /\ \A c \in Conns : c # o.to => out'[c] = out[c]
          /\ out' \in [Conns -> Seq(Instruction)]
      BY <1>2, <2>2, <3>2 DEF WritersOK
    <3>4. \A n \in DOMAIN out'[o.to] : out'[o.to][n].to = o.to
      BY <1>2, <3>2, <3>3 DEF WritersOK
    <3>5. \A c \in Conns : c # o.to => \A n \in DOMAIN out'[c] : out'[c][n].to = c
      BY <3>3 DEF WritersOK
    <3> QED BY <3>3, <3>4, <3>5
  <2> QED BY <1>4, <2>1, <2>2
<1>6. ConnectionsOK' /\ WritersOK'
  BY <1>4, <1>5 DEF Worker, ConnectionsOK, WritersOK, conn
<1>7. TasksOK' /\ HistoryOK'
  BY <1>2, <1>4 DEF Worker, TasksOK, HistoryOK, registry, task, hist
<1> QED BY <1>3, <1>6, <1>7

\* A worker that gets the lock of the group, or panics, only does that.
LEMMA TypeLock ==
    ASSUME TypeOK, NEW w \in Workers, Worker(w), SendNil(w) \/ SendLookup(w) \/ SendClosed(w)
    PROVE TypeOK'
<1> USE DEF TypeOK
<1>1. ConnectionsOK' /\ WritersOK'
  BY WorkerFrame DEF SendNil, SendLookup, SendClosed
<1>2. SendLookup(w) => Slot(Head(outs[w]).to) \in Conns
  <2>1. outs[w] \in Seq(Instruction) /\ (SendLookup(w) => outs[w] # <<>>)
    BY DEF WorkersOK, SendLookup
  <2>2. ASSUME outs[w] # <<>> PROVE Head(outs[w]).to \in Conns
    <3>1. Head(outs[w]) \in Instruction
      BY <2>1, <2>2, TailElements
    <3> QED BY <3>1 DEF Instruction
  <2> QED BY <2>1, <2>2, RpcAssumption DEF Slot, ConnectionsOK, SendLookup
<1>3. WorkersOK'
  <2>1. CASE SendLookup(w)
    <3>1. /\ rlock' = [rlock EXCEPT ![w] = Slot(Head(outs[w]).to)]
          /\ Slot(Head(outs[w]).to) \in Conns
          /\ UNCHANGED <<worker, job, cand, outs, in, known>>
      BY <1>2, <2>1 DEF SendLookup, registry
    <3> QED BY <3>1 DEF WorkersOK, Fits
  <2>2. CASE SendNil(w) \/ SendClosed(w)
    BY <2>2 DEF SendNil, SendClosed, WorkersOK, Fits, work, registry
  <2> QED BY <2>1, <2>2
<1>4. TasksOK' /\ HistoryOK'
  BY DEF SendNil, SendLookup, SendClosed, Worker, TasksOK, HistoryOK, registry, task, hist
<1> QED BY <1>1, <1>3, <1>4

LEMMA TypeWriter == ASSUME TypeOK, NEW c \in Conns, Writer(c) PROVE TypeOK'
<1> USE DEF TypeOK
<1>1. WorkersOK' /\ TasksOK'
  BY DEF Writer, WorkersOK, Fits, TasksOK, work, registry, task
<1>2. UNCHANGED <<reader, sent, chan, slot, home, lost, last>>
  BY DEF Writer
<1>3. CASE Write(c) \/ WriteError(c)
  <2> DEFINE o == Head(out[c])
  <2>1. out[c] \in Seq(Instruction) /\ out[c] # <<>>
    BY <1>3 DEF Write, WriteError, WritersOK
  <2>2. o \in Instruction
    BY <2>1, TailElements
  <2>3. /\ o.task \in Tasks \cup {Nobody} /\ o.change \in Changes
    BY <2>2 DEF Instruction
  <2>4. out' = [out EXCEPT ![c] = Tail(@)] /\ cur' = [cur EXCEPT ![c] = o]
    BY <1>3 DEF Write, WriteError
  <2>5. out' \in [Conns -> Seq(Instruction)]
        /\ \A d \in Conns : \A n \in DOMAIN out'[d] : out'[d][n].to = d
    <3>1. /\ Tail(out[c]) \in Seq(Instruction)
          /\ \A n \in DOMAIN Tail(out[c]) :
                n + 1 \in DOMAIN out[c] /\ Tail(out[c])[n] = out[c][n + 1]
      BY <2>1, TailElements
    <3>2. /\ out'[c] = Tail(out[c]) /\ out' \in [Conns -> Seq(Instruction)]
          /\ \A d \in Conns : d # c => out'[d] = out[d]
      BY <2>4, <3>1 DEF WritersOK
    <3>3. \A n \in DOMAIN out'[c] : out'[c][n].to = c
      BY <3>1, <3>2 DEF WritersOK
    <3>4. \A d \in Conns : d # c => \A n \in DOMAIN out'[d] : out'[d][n].to = d
      BY <3>2 DEF WritersOK
    <3> QED BY <3>2, <3>3, <3>4
  <2>6. \E place \in {"recv", "update", "exit", "end"} : writer' = [writer EXCEPT ![c] = place]
    BY <1>3 DEF Write, WriteError, WriterGoto
  <2>7. WritersOK'
    <3> HIDE DEF o
    <3> QED BY <2>2, <2>4, <2>5, <2>6 DEF WritersOK
  <2>8. waiting' = waiting \/ waiting' = [waiting EXCEPT ![c] = @ - 1]
    BY <1>3 DEF Write, WriteError
  <2>9. ConnectionsOK'
    BY <1>2, <1>3, <2>8 DEF Write, WriteError, ConnectionsOK
  <2>10. given' \in [Conns -> SUBSET (Tasks \cup {Nobody})]
    <3>1. given' = given \/ given' = [given EXCEPT ![c] = @ \cup {o.task}]
      BY <1>3 DEF Write, WriteError, hist
    <3>2. given \in [Conns -> SUBSET (Tasks \cup {Nobody})]
      BY DEF HistoryOK
    <3> HIDE DEF o
    <3> QED BY <2>3, <3>1, <3>2, HistoryGrows
  <2>11. told' \in [Conns -> SUBSET (Tasks \cup {Nobody})]
    <3>1. told' = told \/ told' = [told EXCEPT ![c] = @ \cup {o.task}]
      <4>1. CASE Write(c)
        BY <4>1 DEF Write
      <4>2. CASE WriteError(c)
        BY <4>2 DEF WriteError, hist
      <4> QED BY <1>3, <4>1, <4>2
    <3>2. told \in [Conns -> SUBSET (Tasks \cup {Nobody})]
      BY DEF HistoryOK
    <3> HIDE DEF o
    <3> QED BY <2>3, <3>1, <3>2, HistoryGrows
  <2>12. acked' \subseteq Tasks
    <3>1. \/ acked' = acked
          \/ o.task # Nobody /\ acked' = acked \cup {o.task}
      BY <1>3 DEF Write, WriteError, hist
    <3> HIDE DEF o
    <3> QED BY <2>3, <3>1 DEF HistoryOK
  <2>13. HistoryOK'
    BY <1>2, <1>3, <2>10, <2>11, <2>12 DEF HistoryOK, Write, WriteError
  <2> QED BY <1>1, <2>7, <2>9, <2>13
<1>4. CASE CloseSocket(c) \/ EndWriter(c)
  <2>1. ConnectionsOK'
    BY <1>2, <1>4 DEF CloseSocket, EndWriter, ConnectionsOK
  <2>2. WritersOK' /\ HistoryOK'
    BY <1>2, <1>4 DEF CloseSocket, EndWriter, WriterGoto, WritersOK, HistoryOK, hist
  <2> QED BY <1>1, <2>1, <2>2
<1>5. CASE UpdateState(c)
  <2>1. writer[c] = "update" /\ state[c] # Nobody
    BY <1>5 DEF UpdateState, WriterGoto
  <2>2. cur[c].change \in Changes /\ state[c] \in Record
    BY <2>1 DEF ConnectionsOK, WritersOK, Instruction
  <2>3. Updated(state[c], cur[c].change) \in Record
    BY <2>2, UpdatedRecord
  <2> HIDE DEF Updated
  <2>4. ConnectionsOK'
    BY <1>2, <1>5, <2>3 DEF UpdateState, ConnectionsOK
  <2>5. WritersOK' /\ HistoryOK'
    BY <1>2, <1>5 DEF UpdateState, WriterGoto, WritersOK, HistoryOK, hist
  <2> QED BY <1>1, <2>4, <2>5
<1>6. CASE UpdateStateNil(c)
  BY <1>1, <1>2, <1>6 DEF UpdateStateNil, ConnectionsOK, WritersOK, HistoryOK, hist
<1> QED BY <1>3, <1>4, <1>5, <1>6 DEF Writer

LEMMA TypeNext == TypeOK /\ [Next]_vars => TypeOK'
<1> SUFFICES ASSUME TypeOK, [Next]_vars PROVE TypeOK'
  OBVIOUS
<1>1. CASE UNCHANGED vars
  BY <1>1 DEF vars, conn, line, work, registry, task, hist, TypeOK, ConnectionsOK, WritersOK,
              WorkersOK, Fits, TasksOK, HistoryOK
<1>2. ASSUME NEW c \in Conns, Peer(c) \/ Reader(c) \/ Writer(c) PROVE TypeOK'
  BY <1>2, TypePeer, TypeReader, TypeWriter
<1>3. ASSUME NEW w \in Workers, Worker(w) PROVE TypeOK'
  BY <1>3, TypeTake, TypeHandlers, TypeRegister, TypeRoute, TypeResult, TypeSend,
              TypeLock DEF Worker
<1> QED BY <1>1, <1>2, <1>3 DEF Next

\* Every reachable state is well typed: queues hold instructions that their handlers
\* take, and back channels only what is for their own connection.
THEOREM TypeCorrect == Spec => []TypeOK
BY TypeInit, TypeNext, PTL DEF Spec

-----------------------------------------------------------------------------
\* Calls are routed to connections whose back channel is or was there.

\* Why: who makes a group has not added its back channel before, so a group that was
\* replaced never comes back.
Made(d) == chan[d] # "none" \/ reader[d] \in {"append", "put"}
GroupInv ==
    /\ \A c \in Conns : reader[c] \in {"back", "create", "append", "put"} => chan[c] = "none"
    /\ \A c \in Conns : reader[c] = "delete" => chan[c] = "open"
    /\ \A g \in Groups : slot[g] # Nobody => Made(slot[g])
    /\ \A c \in Conns : home[c] # Nobody => Made(home[c])
    /\ \A c \in Conns : reader[c] = "append" => Slot(c) # Nobody
    /\ \A c \in Conns : reader[c] = "put" \/ chan[c] # "none" => home[c] # Nobody

\* And: a connection gets its auth from its writer, so its back channel is or was
\* there; it needs the auth to get into the methods, and from there alone it becomes
\* a candidate and the target of a call.
ServerInv ==
    /\ \A c \in Conns : writer[c] # "none" \/ IsAuth(c) => chan[c] # "none"
    /\ \A m \in Methods : \A c \in methods[m] : chan[c] # "none"
    /\ \A w \in Workers : worker[w] = "append" => chan[job[w].cid] # "none"
    /\ \A w \in Workers : \A s \in cand[w] : chan[s] # "none"
    /\ \A w \in Workers : \A n \in DOMAIN outs[w] :
          outs[w][n].type = "execute" => chan[outs[w][n].to] # "none"

RpcInv == TypeOK /\ GroupInv /\ ServerInv /\ LostOnlyGone

\* Only readers change the groups.
LEMMA GroupFrame ==
    ASSUME [Next]_vars, ~\E c \in Conns : Reader(c)
    PROVE UNCHANGED <<chan, slot, home>>
<1>1. ASSUME NEW d \in Conns, Peer(d) \/ Writer(d) PROVE UNCHANGED <<chan, slot, home>>
  BY <1>1 DEF Peer, NewConnection, PeerBreak, Processing, Writer, line
<1>2. ASSUME NEW w \in Workers, Worker(w) PROVE UNCHANGED <<chan, slot, home>>
  BY <1>2 DEF Worker, Take, Answer, ProcAuth, RefuseRegistration, RegisterClient,
              RegisterClientMethods, AppendMethods, ProcUpdateStatus, GetCidVariants, NoServer,
              SkipBusy, ProcRouteRpc, ResultWithoutTask, ResultReturned, NoHandler, ExitHandler,
              SendNil, SendLookup, SendMissed, Send, SendClosed, line
<1>3. CASE UNCHANGED vars
  BY <1>3 DEF vars, line
<1> QED BY <1>1, <1>2, <1>3 DEF Next

\* A back channel that was added is never missing again, and one that was removed
\* does not come back.
LEMMA ChannelStays ==
    ASSUME TypeOK, GroupInv, [Next]_vars, NEW c \in Conns
    PROVE /\ chan[c] # "none" => chan'[c] # "none"
          /\ chan[c] = "removed" => chan'[c] = "removed"
<1>1. ASSUME NEW d \in Conns, Reader(d)
      PROVE chan' = chan \/ chan[c] = "none" \/ chan'[c] = "removed" \/ chan'[c] = chan[c]
  <2>1. CASE Put(d)
    <3>1. chan[d] = "none" /\ chan' = [chan EXCEPT ![d] = "open"]
      BY <2>1 DEF Put, Goto, GroupInv
    <3> QED BY <3>1 DEF TypeOK, ConnectionsOK
  <2>2. CASE Delete(d)
    BY <2>2 DEF Delete, TypeOK, ConnectionsOK
  <2>3. CASE ~(Put(d) \/ Delete(d))
    BY <1>1, <2>3 DEF Reader, LookGroup, CreateGroup, AppendBackChannel, ReadError, LeaveServers,
                      RemoveBackChannel, RemoveConnection, Close, line
  <2> QED BY <2>1, <2>2, <2>3
<1> QED BY <1>1, GroupFrame

\* Who is past the making of a group stays so.
LEMMA MadeStays ==
    ASSUME TypeOK, GroupInv, [Next]_vars, NEW d \in Conns, Made(d) PROVE Made(d)'
<1>1. CASE chan[d] # "none"
  BY <1>1, ChannelStays DEF Made
<1>2. CASE reader[d] \in {"append", "put"}
  <2>1. ASSUME NEW c \in Conns, Reader(c) PROVE Made(d)'
    <3>1. CASE Put(c) /\ c = d
      BY <3>1 DEF Put, Made, TypeOK, ConnectionsOK
    <3>2. CASE AppendBackChannel(c) /\ c = d
      BY <3>2 DEF AppendBackChannel, Goto, Made, TypeOK, ConnectionsOK
    <3>3. CASE ~((Put(c) \/ AppendBackChannel(c)) /\ c = d)
      <4>1. reader'[d] = reader[d]
        BY <1>2, <2>1, <3>3
           DEF Reader, LookGroup, CreateGroup, AppendBackChannel, Put, ReadError, LeaveServers,
               RemoveBackChannel, Delete, RemoveConnection, Close, Goto, TypeOK, ConnectionsOK
      <4> QED BY <1>2, <4>1 DEF Made
    <3> QED BY <3>1, <3>2, <3>3
  <2>2. CASE ~\E c \in Conns : Reader(c)
    <3>1. ASSUME NEW c \in Conns, Peer(c) PROVE reader'[d] = reader[d]
      BY <1>2, <3>1 DEF Peer, NewConnection, PeerBreak, Processing, Goto, TypeOK, ConnectionsOK
    <3>2. ASSUME NEW c \in Conns, Writer(c) PROVE reader'[d] = reader[d]
      BY <3>2 DEF Writer
    <3>3. ASSUME NEW w \in Workers, Worker(w) PROVE reader'[d] = reader[d]
      BY <3>3 DEF Worker, conn
    <3>4. ASSUME UNCHANGED vars PROVE reader'[d] = reader[d]
      BY <3>4 DEF vars, conn
    <3> QED BY <1>2, <2>2, <3>1, <3>2, <3>3, <3>4 DEF Next, Made
  <2> QED BY <2>1, <2>2
<1> QED BY <1>1, <1>2 DEF Made

\* Nobody gives a slot to a group that was there before.
LEMMA NewGroup ==
    ASSUME TypeOK, GroupInv, [Next]_vars, NEW g \in Groups
    PROVE slot'[g] = slot[g] \/ \E c \in Conns : slot'[g] = c /\ ~Made(c) /\ Made(c)'
<1>1. ASSUME NEW c \in Conns, CreateGroup(c)
      PROVE slot'[g] = slot[g] \/ (slot'[g] = c /\ ~Made(c) /\ Made(c)')
  <2>1. chan[c] = "none" /\ reader[c] = "create" /\ reader'[c] = "append"
    BY <1>1 DEF CreateGroup, Goto, GroupInv, TypeOK, ConnectionsOK
  <2>2. slot'[g] = slot[g] \/ slot'[g] = c
    BY <1>1 DEF CreateGroup, TypeOK, ConnectionsOK
  <2> QED BY <2>1, <2>2 DEF Made
<1>2. ASSUME NEW c \in Conns, Reader(c), ~CreateGroup(c) PROVE UNCHANGED slot
  BY <1>2 DEF Reader, LookGroup, AppendBackChannel, Put, ReadError, LeaveServers,
              RemoveBackChannel, Delete, RemoveConnection, Close, line
<1>3. CASE \E c \in Conns : Reader(c)
  BY <1>1, <1>2, <1>3
<1>4. CASE ~\E c \in Conns : Reader(c)
  BY <1>4, GroupFrame
<1> QED BY <1>3, <1>4

\* A channel has its group from the lock on, for good.
LEMMA HomeStays ==
    ASSUME TypeOK, GroupInv, [Next]_vars, NEW c \in Conns
    PROVE \/ home'[c] = home[c]
          \/ /\ reader[c] = "append" /\ chan[c] = "none"
             /\ home'[c] = Slot(c) /\ Slot(c) # Nobody
<1>1. ASSUME NEW d \in Conns, AppendBackChannel(d)
      PROVE home'[c] = home[c] \/ (c = d /\ reader[d] = "append" /\ home'[d] = Slot(d))
  BY <1>1 DEF AppendBackChannel, Goto, TypeOK, ConnectionsOK
<1>2. ASSUME NEW d \in Conns, Reader(d), ~AppendBackChannel(d) PROVE UNCHANGED home
  BY <1>2 DEF Reader, LookGroup, CreateGroup, Put, ReadError, LeaveServers,
              RemoveBackChannel, Delete, RemoveConnection, Close, line
<1> QED BY <1>1, <1>2, GroupFrame DEF GroupInv

\* Where a step of a reader may go.
LEMMA ReaderPlaces ==
    ASSUME TypeOK, [Next]_vars, NEW c \in Conns
    PROVE /\ reader'[c] = "back" => reader[c] = "back" \/ (chan[c] = "none" /\ UNCHANGED chan)
          /\ reader'[c] = "create" =>
                reader[c] = "create" \/ (reader[c] = "back" /\ UNCHANGED chan)
          /\ reader'[c] = "append" =>
                \/ reader[c] = "append"
                \/ /\ reader[c] = "back" /\ Slot(c) # Nobody /\ UNCHANGED <<chan, slot>>
                \/ /\ reader[c] = "create" /\ slot'[GroupOf[c]] = c /\ UNCHANGED chan
          /\ reader'[c] = "put" =>
                \/ reader[c] = "put"
                \/ (reader[c] = "append" /\ home'[c] = Slot(c) /\ UNCHANGED chan)
          /\ reader'[c] = "delete" =>
                reader[c] = "delete" \/ (chan[c] = "open" /\ UNCHANGED chan)
<1> USE DEF TypeOK, ConnectionsOK
<1>1. ASSUME NEW d \in Conns, d # c, Reader(d) \/ Peer(d) PROVE reader'[c] = reader[c]
  BY <1>1 DEF Reader, LookGroup, CreateGroup, AppendBackChannel, Put, ReadError, LeaveServers,
              RemoveBackChannel, Delete, RemoveConnection, Close, Goto,
              Peer, NewConnection, PeerBreak, Processing
<1>2. CASE Peer(c)
  BY <1>2 DEF Peer, NewConnection, PeerBreak, Processing, Goto, line
<1>3. CASE LookGroup(c)
  BY <1>3 DEF LookGroup, Goto, line
<1>4. CASE CreateGroup(c)
  BY <1>4, RpcAssumption DEF CreateGroup, Goto
<1>5. CASE AppendBackChannel(c)
  BY <1>5 DEF AppendBackChannel, Goto
<1>5a. CASE RemoveBackChannel(c)
  BY <1>5a DEF RemoveBackChannel, Reachable, Goto, line
<1>6. CASE Put(c) \/ ReadError(c) \/ LeaveServers(c) \/ Delete(c) \/ RemoveConnection(c) \/ Close(c)
  BY <1>6 DEF Put, ReadError, LeaveServers, Delete, RemoveConnection, Close, Goto
<1>7. ASSUME NEW d \in Conns, Writer(d) PROVE reader' = reader
  BY <1>7 DEF Writer
<1>8. ASSUME NEW w \in Workers, Worker(w) PROVE reader' = reader
  BY <1>8 DEF Worker, conn
<1>9. ASSUME UNCHANGED vars PROVE reader' = reader
  BY <1>9 DEF vars, conn
<1>10. reader'[c] = reader[c] \/ Peer(c) \/ Reader(c)
  BY <1>1, <1>7, <1>8, <1>9 DEF Next
<1>11. CASE reader'[c] = reader[c]
  BY <1>11
<1> QED BY <1>2, <1>3, <1>4, <1>5, <1>5a, <1>6, <1>10, <1>11 DEF Reader

LEMMA GroupNext == ASSUME TypeOK, GroupInv, [Next]_vars PROVE GroupInv'
<1>1. \A c \in Conns : reader'[c] \in {"back", "create", "append", "put"} => chan'[c] = "none"
  <2> SUFFICES ASSUME NEW c \in Conns, reader'[c] \in {"back", "create", "append", "put"},
                      chan'[c] # "none"
               PROVE FALSE
    OBVIOUS
  <2>1. reader[c] \in {"back", "create", "append", "put"} \/ (chan[c] = "none" /\ UNCHANGED chan)
    BY ReaderPlaces
  <2>2. chan[c] = "none"
    BY <2>1 DEF GroupInv
  <2>3. PICK d \in Conns : Reader(d)
    BY <2>2, GroupFrame
  <2>4. c = d /\ Put(d)
    BY <2>2, <2>3 DEF Reader, LookGroup, CreateGroup, AppendBackChannel, Put, ReadError,
                      LeaveServers, RemoveBackChannel, Delete, RemoveConnection, Close, Goto,
                      TypeOK, ConnectionsOK, line
  <2> QED BY <2>4 DEF Put, Goto, TypeOK, ConnectionsOK
<1>1a. \A c \in Conns : reader'[c] = "delete" => chan'[c] = "open"
  <2> SUFFICES ASSUME NEW c \in Conns, reader'[c] = "delete" PROVE chan'[c] = "open"
    OBVIOUS
  <2>1. reader[c] = "delete" \/ (chan[c] = "open" /\ UNCHANGED chan)
    BY ReaderPlaces
  <2>2. CASE reader[c] = "delete"
    <3>1. ASSUME NEW d \in Conns, Reader(d) PROVE chan'[c] = chan[c]
      <4>1. CASE Put(d)
        BY <2>2, <4>1 DEF Put, Goto, TypeOK, ConnectionsOK
      <4>2. CASE Delete(d)
        BY <4>2 DEF Delete, Goto, TypeOK, ConnectionsOK
      <4>3. CASE ~(Put(d) \/ Delete(d))
        BY <3>1, <4>3
           DEF Reader, LookGroup, CreateGroup, AppendBackChannel, ReadError, LeaveServers,
               RemoveBackChannel, RemoveConnection, Close, line
      <4> QED BY <4>1, <4>2, <4>3
    <3>2. chan'[c] = chan[c]
      BY <3>1, GroupFrame
    <3> QED BY <2>2, <3>2 DEF GroupInv
  <2> QED BY <2>1, <2>2
<1>2. (\A g \in Groups : slot[g] # Nobody => Made(slot[g]))'
  <2> SUFFICES ASSUME NEW g \in Groups, slot'[g] # Nobody PROVE Made(slot[g])'
    OBVIOUS
  <2>1. PICK d \in Conns : slot'[g] = d /\ Made(d)'
    <3>1. CASE slot'[g] = slot[g]
      BY <3>1, MadeStays DEF GroupInv, TypeOK, ConnectionsOK
    <3> QED BY <3>1, NewGroup
  <2> QED BY <2>1 DEF Made
<1>3. (\A c \in Conns : home[c] # Nobody => Made(home[c]))'
  <2> SUFFICES ASSUME NEW c \in Conns, home'[c] # Nobody PROVE Made(home[c])'
    OBVIOUS
  <2>1. PICK d \in Conns : home'[c] = d /\ Made(d)
    BY HomeStays, RpcAssumption DEF GroupInv, TypeOK, ConnectionsOK, Slot
  <2> QED BY <2>1, MadeStays DEF Made
<1>4. \A c \in Conns : reader'[c] = "append" => Slot(c)' # Nobody
  <2> SUFFICES ASSUME NEW c \in Conns, reader'[c] = "append" PROVE slot'[GroupOf[c]] # Nobody
    BY DEF Slot
  <2>1. slot'[GroupOf[c]] = slot[GroupOf[c]] \/ slot'[GroupOf[c]] \in Conns
    BY NewGroup, RpcAssumption
  <2>2. slot[GroupOf[c]] # Nobody \/ slot'[GroupOf[c]] = c
    BY ReaderPlaces DEF GroupInv, Slot
  <2> QED BY <2>1, <2>2, RpcAssumption
<1>5. \A c \in Conns : reader'[c] = "put" \/ chan'[c] # "none" => home'[c] # Nobody
  <2> SUFFICES ASSUME NEW c \in Conns, reader'[c] = "put" \/ chan'[c] # "none"
               PROVE home'[c] # Nobody
    OBVIOUS
  <2>1. CASE reader[c] = "put" \/ chan[c] # "none"
    BY <2>1, HomeStays DEF GroupInv
  <2>2. CASE chan[c] = "none" /\ chan'[c] # "none"
    <3>1. PICK d \in Conns : Reader(d)
      BY <2>2, GroupFrame
    <3>2. CASE Put(d)
      <4>1. chan' = [chan EXCEPT ![d] = "open"] /\ reader[d] = "put"
        BY <3>2 DEF Put, Goto
      <4> QED BY <2>1, <2>2, <4>1 DEF TypeOK, ConnectionsOK
    <3>3. CASE Delete(d)
      <4>1. chan' = [chan EXCEPT ![d] = "removed"] /\ reader[d] = "delete"
        BY <3>3 DEF Delete, Goto
      <4>2. c = d
        BY <2>2, <4>1 DEF TypeOK, ConnectionsOK
      <4> QED BY <2>2, <4>1, <4>2 DEF GroupInv
    <3>4. CASE ~(Put(d) \/ Delete(d))
      BY <2>2, <3>1, <3>4
         DEF Reader, LookGroup, CreateGroup, AppendBackChannel, ReadError, LeaveServers,
             RemoveBackChannel, RemoveConnection, Close, line
    <3> QED BY <3>2, <3>3, <3>4
  <2>3. CASE reader'[c] = "put" /\ reader[c] # "put"
    BY <2>3, ReaderPlaces DEF GroupInv
  <2> QED BY <2>1, <2>2, <2>3
<1> QED BY <1>1, <1>1a, <1>2, <1>3, <1>4, <1>5 DEF GroupInv

\* A channel that was cut off with its group stays cut off.
LEMMA ReplacedStays ==
    ASSUME TypeOK, GroupInv, [Next]_vars, NEW c \in Conns, Replaced(c)
    PROVE chan'[c] = "removed" \/ Replaced(c)'
<1>1. chan[c] = "open" /\ home[c] # Slot(c) /\ home[c] # Nobody /\ Made(home[c])
  BY DEF Replaced, GroupInv
<1>2. chan'[c] \in {"open", "removed"}
  BY <1>1, ChannelStays, TypeNext DEF TypeOK, ConnectionsOK
<1>3. home'[c] = home[c]
  BY <1>1, HomeStays
<1>4. Slot(c)' # home[c]
  BY <1>1, NewGroup, RpcAssumption DEF Slot
<1> QED BY <1>2, <1>3, <1>4 DEF Replaced

\* A call stays among the lost ones whose server is cleaned up or cut off.
LEMMA LostStays ==
    ASSUME RpcInv, [Next]_vars, UNCHANGED lost PROVE LostOnlyGone'
<1> SUFFICES ASSUME NEW o \in lost, o.type = "execute"
             PROVE chan'[o.to] = "removed" \/ Replaced(o.to)'
  BY DEF LostOnlyGone, Replaced, Slot
<1>1. o.to \in Conns
  BY DEF RpcInv, TypeOK, HistoryOK, Instruction
<1>2. chan[o.to] = "removed" \/ Replaced(o.to)
  BY DEF RpcInv, LostOnlyGone
<1> QED BY <1>1, <1>2, ChannelStays, ReplacedStays DEF RpcInv

\* The part of ServerInv about workers, when their places stay as they are.
LEMMA WorkersStay ==
    ASSUME RpcInv, [Next]_vars, UNCHANGED work
    PROVE /\ \A w \in Workers : worker'[w] = "append" => chan'[job'[w].cid] # "none"
          /\ \A w \in Workers : \A s \in cand'[w] : chan'[s] # "none"
          /\ \A w \in Workers : \A n \in DOMAIN outs'[w] :
                outs'[w][n].type = "execute" => chan'[outs'[w][n].to] # "none"
<1> USE DEF RpcInv, TypeOK
<1>1. ASSUME NEW w \in Workers, worker[w] = "append" PROVE chan'[job[w].cid] # "none"
  <2>1. job[w].cid \in Conns
    BY <1>1 DEF WorkersOK, Job
  <2> QED BY <1>1, <2>1, ChannelStays DEF ServerInv
<1>2. ASSUME NEW w \in Workers, NEW s \in cand[w] PROVE chan'[s] # "none"
  <2>1. s \in Conns
    BY <1>2 DEF WorkersOK
  <2> QED BY <1>2, <2>1, ChannelStays DEF ServerInv
<1>3. ASSUME NEW w \in Workers, NEW n \in DOMAIN outs[w], outs[w][n].type = "execute"
      PROVE chan'[outs[w][n].to] # "none"
  <2>1. outs[w][n] \in Instruction
    BY <1>3, LenProperties DEF WorkersOK
  <2>2. outs[w][n].to \in Conns
    BY <2>1 DEF Instruction
  <2> QED BY <1>3, <2>2, ChannelStays DEF ServerInv
<1> QED BY <1>1, <1>2, <1>3 DEF work

LEMMA ServerInit == Init => GroupInv /\ ServerInv /\ LostOnlyGone
BY DEF Init, GroupInv, ServerInv, LostOnlyGone, IsAuth

LEMMA ServerPeer ==
    ASSUME RpcInv, NEW c \in Conns, Peer(c) PROVE ServerInv' /\ LostOnlyGone'
<1> USE DEF RpcInv, TypeOK
<1>1. [Next]_vars /\ UNCHANGED <<work, lost, chan, writer, methods>>
  BY DEF Next, Peer, NewConnection, PeerBreak, Processing, line
<1>3. \A d \in Conns : IsAuth(d)' => IsAuth(d)
  <2>1. CASE NewConnection(c)
    <3>1. /\ \A d \in Conns : d # c => state'[d] = state[d]
          /\ state'[c] = newClientStateData
      BY <2>1 DEF NewConnection, ConnectionsOK
    <3>2. newClientStateData.auth = FALSE
      BY DEF newClientStateData
    <3> QED BY <3>1, <3>2 DEF IsAuth
  <2>2. CASE ~NewConnection(c)
    <3>1. UNCHANGED state
      BY <2>2 DEF Peer, PeerBreak, Processing
    <3> QED BY <3>1 DEF IsAuth
  <2> QED BY <2>1, <2>2
<1>4. ServerInv'
  BY <1>1, <1>3, WorkersStay DEF ServerInv
<1> QED BY <1>1, <1>4, LostStays

LEMMA ServerReader ==
    ASSUME RpcInv, NEW c \in Conns, Reader(c) PROVE ServerInv' /\ LostOnlyGone'
<1> USE DEF RpcInv, TypeOK
<1>1. [Next]_vars /\ UNCHANGED <<work, lost>>
  BY DEF Next, Reader
<1>3. \A d \in Conns : writer'[d] # "none" \/ IsAuth(d)' => chan'[d] # "none"
  <2>1. CASE Put(c)
    BY <2>1 DEF Put, ConnectionsOK, WritersOK, ServerInv, IsAuth
  <2>2. CASE ~Put(c)
    <3>1. UNCHANGED writer /\ \A d \in Conns : IsAuth(d)' => IsAuth(d)
      BY <2>2 DEF Reader, LookGroup, CreateGroup, AppendBackChannel, ReadError, LeaveServers,
                  RemoveBackChannel, Delete, RemoveConnection, Close, IsAuth, ConnectionsOK
    <3> QED BY <1>1, <3>1, ChannelStays DEF ServerInv
  <2> QED BY <2>1, <2>2
<1>4. \A m \in Methods : \A d \in methods'[m] : chan'[d] # "none"
  <2>1. \A m \in Methods : methods'[m] \subseteq methods[m] /\ methods[m] \subseteq Conns
    BY DEF Reader, LookGroup, CreateGroup, AppendBackChannel, Put, ReadError, LeaveServers,
           RemoveBackChannel, Delete, RemoveConnection, Close, Remove, TasksOK
  <2> QED BY <1>1, <2>1, ChannelStays DEF ServerInv
<1>5. ServerInv'
  BY <1>1, <1>3, <1>4, WorkersStay DEF ServerInv
<1> QED BY <1>1, <1>5, LostStays

LEMMA ServerWriter ==
    ASSUME RpcInv, NEW c \in Conns, Writer(c) PROVE ServerInv' /\ LostOnlyGone'
<1> USE DEF RpcInv, TypeOK
<1>1. [Next]_vars /\ UNCHANGED <<work, lost, chan, reader, methods>>
  BY DEF Next, Writer, registry
<1>2. \A d \in Conns : writer'[d] # "none" \/ IsAuth(d)' => writer[d] # "none" \/ IsAuth(d)
  <2>1. CASE Write(c) \/ WriteError(c) \/ CloseSocket(c) \/ EndWriter(c) \/ UpdateStateNil(c)
    BY <2>1 DEF Write, WriteError, CloseSocket, EndWriter, UpdateStateNil, WriterGoto, WritersOK,
                IsAuth
  <2>2. CASE UpdateState(c)
    <3>1. /\ writer[c] = "update"
          /\ \A d \in Conns : d # c => writer'[d] = writer[d] /\ state'[d] = state[d]
      BY <2>2 DEF UpdateState, WriterGoto, ConnectionsOK, WritersOK
    <3> QED BY <3>1 DEF IsAuth
  <2> QED BY <2>1, <2>2 DEF Writer
<1>3. ServerInv'
  BY <1>1, <1>2, WorkersStay DEF ServerInv
<1> QED BY <1>1, <1>3, LostStays

\* A step of a worker that loses nothing keeps ServerInv if what it adds to the
\* methods, the candidates and the calls to send has a back channel.
LEMMA ServerStep ==
    ASSUME RpcInv, NEW w \in Workers, Worker(w), UNCHANGED chan,
           \A m \in Methods : \A c \in methods'[m] : c \in methods[m] \/ chan[c] # "none",
           \A v \in Workers : v # w =>
               worker'[v] = worker[v] /\ job'[v] = job[v] /\ cand'[v] = cand[v] /\ outs'[v] = outs[v],
           worker'[w] = "append" => chan[job'[w].cid] # "none",
           \A s \in cand'[w] : s \in cand[w] \/ chan[s] # "none",
           \A n \in DOMAIN outs'[w] : outs'[w][n].type = "execute" => chan[outs'[w][n].to] # "none"
    PROVE ServerInv'
<1>1. UNCHANGED <<reader, state, writer>>
  BY DEF Worker, conn
<1>2. ServerInv
  BY DEF RpcInv
<1> QED BY <1>1, <1>2 DEF ServerInv, IsAuth

\* The calls among the instructions of a worker with a new answer.
LEMMA ServerAnswer ==
    ASSUME RpcInv, NEW w \in Workers, Worker(w), worker[w] # "idle", NEW is \in Seq(Instruction),
           Answer(w, is),
           \A n \in DOMAIN is : is[n].type = "execute" => chan[is[n].to] # "none",
           \A m \in Methods : \A c \in methods'[m] : c \in methods[m] \/ chan[c] # "none",
           UNCHANGED cand \/ cand' = [cand EXCEPT ![w] = {}]
    PROVE ServerInv' /\ LostOnlyGone'
<1>1. /\ [Next]_vars /\ UNCHANGED <<chan, lost, job>>
      /\ worker' = [worker EXCEPT ![w] = "send"] /\ outs' = [outs EXCEPT ![w] = is]
  BY DEF Answer, Next, line
<1>2. WorkersOK
  BY DEF RpcInv, TypeOK
<1>3. /\ \A v \in Workers : v # w =>
             worker'[v] = worker[v] /\ job'[v] = job[v] /\ cand'[v] = cand[v] /\ outs'[v] = outs[v]
      /\ worker'[w] # "append" /\ outs'[w] = is /\ cand'[w] \subseteq cand[w]
  BY <1>1, <1>2 DEF WorkersOK
<1>4. ServerInv'
  BY <1>1, <1>3, ServerStep
<1> QED BY <1>1, <1>4, LostStays

LEMMA ServerWorker ==
    ASSUME RpcInv, NEW w \in Workers, Worker(w) PROVE ServerInv' /\ LostOnlyGone'
<1> USE DEF RpcInv, TypeOK
<1>0. [Next]_vars /\ UNCHANGED <<reader, state, writer>>
  BY DEF Next, Worker, conn
<1>1. CASE Take(w)
  <2>1. Head(in).type \in CommandTypes
    <3>1. in \in Seq(Job) /\ in # <<>>
      BY <1>1 DEF Take, WorkersOK
    <3>2. Head(in) \in Job
      BY <3>1, TailElements
    <3> QED BY <3>2 DEF Job
  <2>2. "append" \notin CommandTypes
    BY DEF CommandTypes
  <2>3. /\ \A v \in Workers : v # w => worker'[v] = worker[v] /\ job'[v] = job[v]
        /\ worker'[w] # "append" /\ UNCHANGED <<chan, lost, methods, cand, outs>>
    BY <1>1, <2>1, <2>2 DEF Take, WorkersOK, line, registry
  <2>4. \A n \in DOMAIN outs[w] : outs[w][n].type = "execute" => chan[outs[w][n].to] # "none"
    BY DEF ServerInv
  <2>5. ServerInv'
    BY <2>3, <2>4, ServerStep
  <2> QED BY <1>0, <2>3, <2>5, LostStays
<1>2. CASE \/ ProcAuth(w) \/ RefuseRegistration(w) \/ RegisterClient(w) \/ ProcUpdateStatus(w)
           \/ NoServer(w) \/ ResultWithoutTask(w) \/ NoHandler(w) \/ ExitHandler(w)
  <2>1. PICK i \in Instruction : Answer(w, <<i>>) /\ i.type # "execute"
    BY <1>2, HandlerAnswer
  <2>2. worker[w] # "idle" /\ UNCHANGED <<cand, methods>>
    BY <1>2 DEF ProcAuth, RefuseRegistration, RegisterClient, ProcUpdateStatus, NoServer,
                ResultWithoutTask, NoHandler, ExitHandler, registry
  <2>3. /\ <<i>> \in Seq(Instruction)
        /\ \A n \in DOMAIN <<i>> : <<i>>[n].type # "execute"
    BY <2>1
  <2> QED BY <2>1, <2>2, <2>3, ServerAnswer
<1>3. CASE RegisterClientMethods(w)
  <2>1. IsAuth(job[w].cid) /\ job[w].cid \in Conns
    BY <1>3 DEF RegisterClientMethods, MayRegister, WorkersOK, Job
  <2>2. chan[job[w].cid] # "none"
    BY <2>1 DEF ServerInv
  <2>3. /\ \A v \in Workers : v # w => worker'[v] = worker[v]
        /\ UNCHANGED <<chan, lost, methods, job, cand, outs>>
    BY <1>3 DEF RegisterClientMethods, WorkersOK, line
  <2>4. \A n \in DOMAIN outs[w] : outs[w][n].type = "execute" => chan[outs[w][n].to] # "none"
    BY DEF ServerInv
  <2>5. ServerInv'
    BY <2>2, <2>3, <2>4, ServerStep
  <2> QED BY <1>0, <2>3, <2>5, LostStays
<1>4. CASE AppendMethods(w)
  <2>1. chan[job[w].cid] # "none" /\ worker[w] # "idle"
    BY <1>4 DEF AppendMethods, ServerInv
  <2>2. \A m \in Methods : \A c \in methods'[m] : c \in methods[m] \/ chan[c] # "none"
    BY <1>4, <2>1 DEF AppendMethods
  <2> DEFINE i == Ok(w, <<"group", GroupConnectionServer>>, Nobody)
  <2>3. i \in Instruction /\ i.type = "ok"
    BY <2>1, Answers, ChangesMembers DEF GroupConnectionServer, Ok, Out
  <2>4. Answer(w, <<i>>) /\ UNCHANGED cand
    BY <1>4 DEF AppendMethods
  <2> HIDE DEF i
  <2>5. /\ <<i>> \in Seq(Instruction)
        /\ \A n \in DOMAIN <<i>> : <<i>>[n].type # "execute"
    BY <2>3
  <2> QED BY <2>1, <2>2, <2>4, <2>5, ServerAnswer
<1>5. CASE GetCidVariants(w)
  <2>1. job[w].arg \in Methods
    BY <1>5 DEF GetCidVariants, WorkersOK, TasksOK, Fits, CommandTypes
  <2>2. /\ \A v \in Workers : v # w => worker'[v] = worker[v] /\ cand'[v] = cand[v]
        /\ worker'[w] = "pick" /\ cand'[w] = methods[job[w].arg]
        /\ UNCHANGED <<chan, lost, methods, job, outs>>
    BY <1>5 DEF GetCidVariants, WorkersOK, line, registry
  <2>3. /\ \A n \in DOMAIN outs[w] : outs[w][n].type = "execute" => chan[outs[w][n].to] # "none"
        /\ \A s \in cand'[w] : chan[s] # "none"
    BY <2>1, <2>2 DEF ServerInv
  <2>4. ServerInv'
    BY <2>2, <2>3, ServerStep
  <2> QED BY <1>0, <2>2, <2>4, LostStays
<1>6. ASSUME NEW s \in Conns, SkipBusy(w, s) PROVE ServerInv' /\ LostOnlyGone'
  <2>1. /\ \A v \in Workers : v # w => cand'[v] = cand[v]
        /\ cand'[w] \subseteq cand[w] /\ worker[w] = "pick"
        /\ UNCHANGED <<chan, lost, methods, worker, job, outs>>
    BY <1>6 DEF SkipBusy, WorkersOK, line, registry
  <2>2. \A n \in DOMAIN outs[w] : outs[w][n].type = "execute" => chan[outs[w][n].to] # "none"
    BY DEF ServerInv
  <2>3. ServerInv'
    BY <2>1, <2>2, ServerStep
  <2> QED BY <1>0, <2>1, <2>3, LostStays
<1>7. ASSUME NEW s \in Conns, ProcRouteRpc(w, s) PROVE ServerInv' /\ LostOnlyGone'
  <2> DEFINE a == Ok(w, NoChange, tasks + 1)
             e == Out(s, "execute", NoChange, tasks + 1)
  <2>1. /\ worker[w] # "idle" /\ s \in cand[w] /\ tasks + 1 \in Tasks
        /\ Answer(w, <<a, e>>) /\ cand' = [cand EXCEPT ![w] = {}] /\ UNCHANGED methods
    BY <1>7 DEF ProcRouteRpc, registry
  <2>2. a \in Instruction /\ a.type = "ok"
    BY <2>1, Answers, ChangesMembers DEF Ok, Out
  <2>3. e \in Instruction /\ e.to = s
    BY <2>1, ChangesMembers, OutInstruction
  <2>4. chan[s] # "none"
    BY <2>1 DEF ServerInv
  <2> HIDE DEF a, e
  <2>5. /\ <<a, e>> \in Seq(Instruction)
        /\ \A n \in DOMAIN <<a, e>> :
              <<a, e>>[n].type = "execute" => chan[<<a, e>>[n].to] # "none"
    BY <2>2, <2>3, <2>4
  <2> QED BY <2>1, <2>5, ServerAnswer
<1>8. CASE ResultReturned(w)
  <2>1. PICK is \in Seq(Instruction) :
            Answer(w, is) /\ \A n \in DOMAIN is : is[n].type # "execute"
    BY <1>8, ResultAnswer
  <2>2. worker[w] # "idle" /\ UNCHANGED <<cand, methods>>
    BY <1>8 DEF ResultReturned, registry
  <2> QED BY <2>1, <2>2, ServerAnswer
<1>9. CASE SendMissed(w) \/ Send(w)
  <2> DEFINE o == Head(outs[w])
  <2>1. outs[w] \in Seq(Instruction) /\ outs[w] # <<>>
    BY <1>9, SentOne
  <2>2. /\ o \in Instruction /\ o = outs[w][1] /\ 1 \in DOMAIN outs[w]
        /\ \A n \in DOMAIN Tail(outs[w]) :
              n + 1 \in DOMAIN outs[w] /\ Tail(outs[w])[n] = outs[w][n + 1]
    BY <2>1, TailElements
  <2>3. /\ \A v \in Workers : v # w => worker'[v] = worker[v] /\ outs'[v] = outs[v]
        /\ worker'[w] # "append" /\ outs'[w] = Tail(outs[w])
        /\ UNCHANGED <<chan, slot, home, methods, job, cand>>
    <3>1. /\ outs' = [outs EXCEPT ![w] = Rest(w)]
          /\ worker' = [worker EXCEPT ![w] = IF Rest(w) = <<>> THEN "idle" ELSE "send"]
          /\ UNCHANGED <<chan, slot, home, registry, job, cand>>
      BY <1>9, SentOne
    <3> QED BY <3>1 DEF Rest, WorkersOK, registry
  <2>4. \A n \in DOMAIN Tail(outs[w]) :
            Tail(outs[w])[n].type = "execute" => chan[Tail(outs[w])[n].to] # "none"
    BY <2>2 DEF ServerInv
  <2>5. ServerInv'
    BY <2>3, <2>4, ServerStep
  <2>6. o.type = "execute" => chan[o.to] # "none"
    BY <2>2 DEF ServerInv
  <2>7. o.to \in Conns
    BY <2>2 DEF Instruction
  <2>8. CASE SendMissed(w)
    <3>1. lost' = lost \cup {o} /\ ~Reachable(o.to)
      BY <2>8 DEF SendMissed
    <3> HIDE DEF o
    <3>2. o.type = "execute" => chan[o.to] = "removed" \/ Replaced(o.to)
      BY <2>6, <2>7, <3>1 DEF Reachable, Replaced, ConnectionsOK
    <3>3. LostOnlyGone'
      BY <2>3, <3>1, <3>2 DEF LostOnlyGone, Replaced, Slot
    <3> QED BY <2>5, <3>3
  <2>9. CASE Send(w)
    <3>1. UNCHANGED lost
      BY <2>9 DEF Send
    <3> QED BY <1>0, <2>5, <3>1, LostStays
  <2> QED BY <1>9, <2>8, <2>9
<1>10. CASE SendNil(w) \/ SendLookup(w) \/ SendClosed(w)
  <2>1. UNCHANGED <<worker, job, cand, outs, lost, chan, methods>>
    BY <1>10 DEF SendNil, SendLookup, SendClosed, work, line, registry
  <2>2. UNCHANGED <<writer, state>>
    BY DEF Worker
  <2>3. ServerInv'
    BY <2>1, <2>2 DEF ServerInv, IsAuth
  <2> QED BY <1>0, <2>1, <2>3, LostStays
<1> QED BY <1>1, <1>2, <1>3, <1>4, <1>5, <1>6, <1>7, <1>8, <1>9, <1>10 DEF Worker

LEMMA RpcNext == RpcInv /\ [Next]_vars => RpcInv'
<1> SUFFICES ASSUME RpcInv, [Next]_vars PROVE RpcInv'
  OBVIOUS
<1>1. TypeOK' /\ GroupInv'
  BY TypeNext, GroupNext DEF RpcInv
<1>2. CASE UNCHANGED vars
  <2>1. ServerInv'
    BY <1>2 DEF RpcInv, vars, conn, line, work, registry, ServerInv, IsAuth
  <2>2. LostOnlyGone'
    BY <1>2, LostStays DEF vars
  <2> QED BY <1>1, <2>1, <2>2 DEF RpcInv
<1>3. CASE Next /\ ~UNCHANGED vars
  <2>1. ServerInv' /\ LostOnlyGone'
    BY <1>3, ServerPeer, ServerReader, ServerWriter, ServerWorker DEF Next
  <2> QED BY <1>1, <2>1 DEF RpcInv
<1> QED BY <1>2, <1>3

LEMMA RpcInvariant == Spec => []RpcInv
<1>1. Init => RpcInv
  BY TypeInit, ServerInit DEF RpcInv
<1> QED BY <1>1, RpcNext, PTL DEF Spec

\* Who is in the methods, or a candidate of a call, has or had its back channel.
THEOREM ServersHaveChannels == Spec => []ServerInv
<1>1. RpcInv => ServerInv
  BY DEF RpcInv
<1> QED BY RpcInvariant, <1>1, PTL

\* No routed call is lost to a back channel that is not there yet: whatever the order
\* of readers, writers and workers, a lost call was for a server that is cleaned up, or
\* that was put in a group that has lost its slot to another one, for good.
THEOREM CallsReachRegistered == Spec => []LostOnlyGone
<1>1. RpcInv => LostOnlyGone
  BY DEF RpcInv
<1> QED BY RpcInvariant, <1>1, PTL
-----------------------------------------------------------------------------
\* Tasks: a task has one server from the moment it is made, its client is in direction
\* before the client is told, and its result in the buffer before the server is.

\* A worker has o to send, or a back channel has it.
InFlight(o) ==
    \/ \E w \in Workers : \E n \in DOMAIN outs[w] : outs[w][n] = o
    \/ \E c \in Conns : \E n \in DOMAIN out[c] : out[c][n] = o

\* Server s got the task t, or an instruction with it is on its way to s.
Target(t, s) ==
    \/ t \in given[s]
    \/ \E o \in Instruction : InFlight(o) /\ o.type = "execute" /\ o.task = t /\ o.to = s

\* Client c was told of the task t, or its answer is on its way.
Told(t, c) ==
    \/ t \in told[c]
    \/ \E o \in Instruction :
          InFlight(o) /\ o.type = "ok" /\ o.change = NoChange /\ o.task = t /\ o.to = c

\* The result of the task t was acknowledged, or is about to be.
Acked(t) ==
    \/ t \in acked
    \/ \E o \in Instruction : InFlight(o) /\ o.type = "ok" /\ o.change # NoChange /\ o.task = t

\* A result of the task t is in the queue or with a worker.
Returned(t) ==
    \/ \E n \in DOMAIN in : in[n].type = "result" /\ in[n].arg = t
    \/ \E w \in Workers : worker[w] = "result" /\ job[w].arg = t

\* Results come only for tasks that were made, these all have a direction, and as no
\* record is of the group of web-sockets, every such result is kept.
TaskInv ==
    /\ \A t \in 1..tasks : direction[t] # Nobody
    /\ \A c \in Conns : state[c] # Nobody => state[c].group \in 0..2
    /\ \A t \in Tasks : Returned(t) => t <= tasks
    /\ \A t \in Tasks \cup {Nobody} : \A s \in Conns : Target(t, s) =>
          t \in 1..tasks /\ \A r \in Conns : Target(t, r) => r = s
    /\ \A t \in Tasks \cup {Nobody} : \A c \in Conns : Told(t, c) =>
          t \in 1..tasks /\ direction[t] = c
    /\ \A t \in Tasks : Acked(t) => t \in buffer

LEMMA TaskInit == Init => TaskInv
<1> SUFFICES ASSUME Init PROVE TaskInv
  OBVIOUS
<1>1. \A o : ~InFlight(o)
  BY EmptySeq DEF Init, InFlight
<1>2. \A t \in Tasks : ~Returned(t)
  BY EmptySeq DEF Init, Returned
<1>3. 1..tasks = {} /\ \A c \in Conns : given[c] = {} /\ told[c] = {}
  BY DEF Init
<1> QED BY <1>1, <1>2, <1>3 DEF Init, TaskInv, Target, Told, Acked

\* A step that makes no task keeps TaskInv, if what is new in flight, given, told and
\* acknowledged was so before, or has its result.
LEMMA TaskKept ==
    ASSUME TypeOK, TaskInv, UNCHANGED <<tasks, direction>>, buffer \subseteq buffer',
           \A c \in Conns : state'[c] # Nobody => state'[c].group \in 0..2,
           \A t \in Tasks : Returned(t)' => Returned(t) \/ t <= tasks,
           \A t \in Tasks \cup {Nobody} : \A s \in Conns :
               (Target(t, s)' => Target(t, s)) /\ (Told(t, s)' => Told(t, s)),
           \A t \in Tasks : Acked(t)' => Acked(t) \/ t \in buffer'
    PROVE TaskInv'
BY DEF TaskInv

\* The instructions that a step adds carry no task to anybody, except for results that
\* are kept.
LEMMA NothingCarried ==
    ASSUME UNCHANGED hist, NEW S,
           \A o \in Instruction : InFlight(o)' => InFlight(o) \/ o \in S,
           \A o \in S : /\ o.type # "execute"
                        /\ o.type = "ok" => /\ o.change # NoChange
                                            /\ o.task = Nobody \/ o.task \in buffer'
    PROVE /\ \A t \in Tasks \cup {Nobody} : \A s \in Conns :
                (Target(t, s)' => Target(t, s)) /\ (Told(t, s)' => Told(t, s))
          /\ \A t \in Tasks : Acked(t)' => Acked(t) \/ t \in buffer'
<1>1. UNCHANGED <<given, told, acked>>
  BY DEF hist
<1>2. \A t, s : Target(t, s)' => Target(t, s)
  BY <1>1 DEF Target
<1>3. \A t, s : Told(t, s)' => Told(t, s)
  BY <1>1 DEF Told
<1>4. \A t \in Tasks : Acked(t)' => Acked(t) \/ t \in buffer'
  <2>1. Nobody \notin Tasks
    BY RpcAssumption DEF Tasks
  <2> QED BY <1>1, <2>1 DEF Acked
<1> QED BY <1>2, <1>3, <1>4

LEMMA TaskPeer ==
    ASSUME TypeOK, TaskInv, NEW c \in Conns, Peer(c) PROVE TaskInv'
<1>1. UNCHANGED <<outs, out, hist, task, worker, job>>
  BY DEF Peer, NewConnection, PeerBreak, Processing, line, work
<1>2. \A o \in Instruction : InFlight(o)' => InFlight(o)
  BY <1>1 DEF InFlight
<1>3. /\ \A t \in Tasks \cup {Nobody} : \A s \in Conns :
            (Target(t, s)' => Target(t, s)) /\ (Told(t, s)' => Told(t, s))
      /\ \A t \in Tasks : Acked(t)' => Acked(t) \/ t \in buffer'
  <2> DEFINE S == {}
  <2>1. \A o \in Instruction : InFlight(o)' => InFlight(o) \/ o \in S
    BY <1>2
  <2>2. \A o \in S : FALSE
    OBVIOUS
  <2> HIDE DEF S
  <2> QED BY <1>1, <2>1, <2>2, NothingCarried
<1>4. \A d \in Conns : state'[d] # Nobody => state'[d].group \in 0..2
  <2>1. CASE NewConnection(c)
    <3>1. newClientStateData.group = 0
      BY DEF newClientStateData
    <3> QED BY <2>1, <3>1 DEF NewConnection, TypeOK, ConnectionsOK, TaskInv
  <2>2. CASE ~NewConnection(c)
    <3>1. UNCHANGED state
      BY <2>2 DEF Peer, PeerBreak, Processing
    <3> QED BY <3>1 DEF TaskInv
  <2> QED BY <2>1, <2>2
<1>5. \A t \in Tasks : Returned(t)' => Returned(t) \/ t <= tasks
  <2>1. CASE NewConnection(c) \/ PeerBreak(c)
    BY <1>1, <2>1 DEF NewConnection, PeerBreak, Returned
  <2>2. ASSUME NEW k \in Commands[c], Processing(c, k)
        PROVE \A t \in Tasks : Returned(t)' => Returned(t) \/ t <= tasks
    <3> DEFINE j == [cid |-> c, type |-> TypeOf(k), arg |-> k[2]]
    <3>1. j \in Job /\ in' = Append(in, j) /\ in \in Seq(Job)
      BY <2>2, CommandJob DEF Processing, TypeOK, WorkersOK
    <3>2. TypeOf(k) = "result" => k[2] \in given[c] \cup {Nobody}
      BY <2>2 DEF Processing, TypeOf
    <3>3. j.type = "result" /\ j.arg \in Tasks => j.arg <= tasks
      <4>1. SUFFICES ASSUME TypeOf(k) = "result", k[2] \in Tasks PROVE k[2] <= tasks
        OBVIOUS
      <4>2. k[2] \in given[c]
        BY <3>2, <4>1, RpcAssumption DEF Tasks
      <4>3. Target(k[2], c)
        BY <4>2 DEF Target
      <4> QED BY <4>1, <4>3 DEF TaskInv
    <3> HIDE DEF j
    <3>4. \A n \in DOMAIN in' : (n \in DOMAIN in /\ in'[n] = in[n]) \/ in'[n] = j
      BY <3>1, AppendElements
    <3> QED BY <1>1, <3>3, <3>4 DEF Returned
  <2> QED BY <2>1, <2>2 DEF Peer
<1> QED BY <1>1, <1>3, <1>4, <1>5, TaskKept DEF task

LEMMA TaskReader ==
    ASSUME TypeOK, TaskInv, NEW c \in Conns, Reader(c) PROVE TaskInv'
<1>1. UNCHANGED <<outs, out, hist, task, worker, job, in>>
  BY DEF Reader, LookGroup, CreateGroup, AppendBackChannel, Put, ReadError, LeaveServers,
         RemoveBackChannel, Delete, RemoveConnection, Close, line, work
<1>2. \A o : InFlight(o)' => InFlight(o)
  BY <1>1 DEF InFlight
<1>3. /\ \A t \in Tasks \cup {Nobody} : \A s \in Conns :
            (Target(t, s)' => Target(t, s)) /\ (Told(t, s)' => Told(t, s))
      /\ \A t \in Tasks : Acked(t)' => Acked(t)
  BY <1>1, <1>2 DEF Target, Told, Acked, hist
<1>4. \A d \in Conns : state'[d] # Nobody => state'[d].group \in 0..2
  BY DEF Reader, LookGroup, CreateGroup, AppendBackChannel, Put, ReadError, LeaveServers,
         RemoveBackChannel, Delete, RemoveConnection, Close, TypeOK, ConnectionsOK, TaskInv
<1>5. \A t \in Tasks : Returned(t)' => Returned(t)
  BY <1>1 DEF Returned
<1> QED BY <1>1, <1>3, <1>4, <1>5, TaskKept DEF task

\* A writer takes an instruction out of its back channel: what it carries is given,
\* told or acknowledged now, or the write failed.
LEMMA TaskWriter ==
    ASSUME TypeOK, TaskInv, NEW c \in Conns, Writer(c) PROVE TaskInv'
<1>1. UNCHANGED <<outs, task, worker, job, in>>
  BY DEF Writer, work
<1>2. \A t \in Tasks : Returned(t)' => Returned(t)
  BY <1>1 DEF Returned
<1>3. \A d \in Conns : state'[d] # Nobody => state'[d].group \in 0..2
  <2>1. CASE UpdateState(c)
    <3>1. state[c] \in Record /\ cur[c].change \in Changes /\ state[c].group \in 0..2
      BY <2>1 DEF UpdateState, WriterGoto, TypeOK, ConnectionsOK, WritersOK, Instruction, TaskInv
    <3>2. Updated(state[c], cur[c].change).group \in 0..2
      <4> DEFINE change == cur[c].change
      <4>1. \/ change = NoChange
            \/ change[1] = "auth"
            \/ change[1] = "group" /\ change[2] \in {1, 2}
            \/ change[1] = "status"
        BY <3>1 DEF Changes
      <4> QED BY <3>1, <4>1 DEF Updated, NoChange, Record
    <3> QED BY <2>1, <3>2 DEF UpdateState, TypeOK, ConnectionsOK, TaskInv
  <2>2. CASE ~UpdateState(c)
    <3>1. UNCHANGED state
      BY <2>2 DEF Writer, Write, WriteError, CloseSocket, EndWriter, UpdateStateNil
    <3> QED BY <3>1 DEF TaskInv
  <2> QED BY <2>1, <2>2
<1>4. CASE Write(c) \/ WriteError(c)
  <2> DEFINE o == Head(out[c])
  <2>1. out[c] \in Seq(Instruction) /\ out[c] # <<>>
    BY <1>4 DEF Write, WriteError, TypeOK, WritersOK
  <2>2. /\ o \in Instruction /\ o = out[c][1] /\ 1 \in DOMAIN out[c]
        /\ \A n \in DOMAIN Tail(out[c]) :
              n + 1 \in DOMAIN out[c] /\ Tail(out[c])[n] = out[c][n + 1]
    BY <2>1, TailElements
  <2>3. o.to = c /\ InFlight(o)
    BY <2>2 DEF TypeOK, WritersOK, InFlight
  <2>4. out'[c] = Tail(out[c]) /\ \A d \in Conns : d # c => out'[d] = out[d]
    BY <1>4 DEF Write, WriteError, TypeOK, WritersOK
  <2>5. \A p : InFlight(p)' => InFlight(p)
    <3>1. \A d \in Conns : \A n \in DOMAIN out'[d] :
              \E k \in DOMAIN out[d] : out'[d][n] = out[d][k]
      <4>1. \A n \in DOMAIN out'[c] : \E k \in DOMAIN out[c] : out'[c][n] = out[c][k]
        BY <2>2, <2>4
      <4> QED BY <2>4, <4>1
    <3> QED BY <1>1, <3>1 DEF InFlight
  <2> HIDE DEF o
  <2>6. /\ \A d \in Conns : \A t \in given'[d] :
              t \in given[d] \/ (d = c /\ o.type = "execute" /\ t = o.task)
        /\ \A d \in Conns : \A t \in told'[d] :
              t \in told[d] \/ (d = c /\ o.type = "ok" /\ o.change = NoChange /\ t = o.task)
        /\ \A t \in acked' :
              t \in acked \/ (o.type = "ok" /\ o.change # NoChange /\ t = o.task)
    <3>1. CASE Write(c)
      BY <3>1 DEF Write, o, TypeOK, HistoryOK
    <3>2. CASE WriteError(c)
      BY <3>2 DEF WriteError, hist
    <3> QED BY <1>4, <3>1, <3>2
  <2>7. \A t \in Tasks \cup {Nobody} : \A s \in Conns : Target(t, s)' => Target(t, s)
    BY <2>2, <2>3, <2>5, <2>6 DEF Target
  <2>8. \A t \in Tasks \cup {Nobody} : \A s \in Conns : Told(t, s)' => Told(t, s)
    BY <2>2, <2>3, <2>5, <2>6 DEF Told
  <2>9. \A t \in Tasks : Acked(t)' => Acked(t)
    BY <2>2, <2>3, <2>5, <2>6 DEF Acked
  <2> QED BY <1>1, <1>2, <1>3, <2>7, <2>8, <2>9, TaskKept DEF task
<1>5. CASE CloseSocket(c) \/ EndWriter(c) \/ UpdateState(c) \/ UpdateStateNil(c)
  <2>1. UNCHANGED <<out, given, told, acked>>
    BY <1>5 DEF CloseSocket, EndWriter, UpdateState, UpdateStateNil, hist
  <2>2. \A p : InFlight(p)' => InFlight(p)
    BY <1>1, <2>1 DEF InFlight
  <2>3. /\ \A t \in Tasks \cup {Nobody} : \A s \in Conns :
              (Target(t, s)' => Target(t, s)) /\ (Told(t, s)' => Told(t, s))
        /\ \A t \in Tasks : Acked(t)' => Acked(t)
    BY <2>1, <2>2 DEF Target, Told, Acked
  <2> QED BY <1>1, <1>2, <1>3, <2>3, TaskKept DEF task
<1> QED BY <1>4, <1>5 DEF Writer

\* After an answer a worker has the new instructions to send.
LEMMA AnswerInFlight ==
    ASSUME TypeOK, NEW w \in Workers, NEW is \in Seq(Instruction), Answer(w, is)
    PROVE /\ \A o : InFlight(o)' => InFlight(o) \/ \E n \in DOMAIN is : is[n] = o
          /\ \A t : Returned(t)' => Returned(t)
<1>1. outs' = [outs EXCEPT ![w] = is] /\ worker' = [worker EXCEPT ![w] = "send"]
      /\ UNCHANGED <<job, in, out>>
  BY DEF Answer, line
<1>2. outs'[w] = is /\ \A v \in Workers : v # w => outs'[v] = outs[v]
  BY <1>1 DEF TypeOK, WorkersOK
<1>3. \A v \in Workers : worker'[v] = "result" => worker[v] = "result"
  BY <1>1 DEF TypeOK, WorkersOK
<1> QED BY <1>1, <1>2, <1>3 DEF InFlight, Returned

\* An answer that carries no task, except for a result that is kept.
LEMMA TaskAnswer ==
    ASSUME TypeOK, TaskInv, NEW w \in Workers, Worker(w), NEW is \in Seq(Instruction),
           Answer(w, is), UNCHANGED <<tasks, direction>>, buffer \subseteq buffer',
           \A n \in DOMAIN is :
               /\ is[n].type # "execute"
               /\ is[n].type = "ok" => /\ is[n].change # NoChange
                                       /\ is[n].task = Nobody \/ is[n].task \in buffer'
    PROVE TaskInv'
<1> DEFINE S == {is[n] : n \in DOMAIN is}
<1>1. \A o \in Instruction : InFlight(o)' => InFlight(o) \/ o \in S
  BY AnswerInFlight
<1>2. \A o \in S : /\ o.type # "execute"
                   /\ o.type = "ok" => /\ o.change # NoChange
                                       /\ o.task = Nobody \/ o.task \in buffer'
  OBVIOUS
<1>3. UNCHANGED <<hist, state>>
  BY DEF Worker
<1> HIDE DEF S
<1>4. /\ \A t \in Tasks \cup {Nobody} : \A s \in Conns :
            (Target(t, s)' => Target(t, s)) /\ (Told(t, s)' => Told(t, s))
      /\ \A t \in Tasks : Acked(t)' => Acked(t) \/ t \in buffer'
  BY <1>1, <1>2, <1>3, NothingCarried
<1>5. \A c \in Conns : state'[c] # Nobody => state'[c].group \in 0..2
  BY <1>3 DEF TaskInv
<1> QED BY <1>4, <1>5, AnswerInFlight, TaskKept

\* A step of a worker that leaves all instructions where they are.
LEMMA TaskStays ==
    ASSUME TypeOK, TaskInv, NEW w \in Workers, Worker(w), UNCHANGED task,
           \A o : InFlight(o)' => InFlight(o),
           \A t \in Tasks : Returned(t)' => Returned(t)
    PROVE TaskInv'
<1>1. UNCHANGED <<given, told, acked, state>>
  BY DEF Worker, hist
<1>2. /\ \A t \in Tasks \cup {Nobody} : \A s \in Conns :
            (Target(t, s)' => Target(t, s)) /\ (Told(t, s)' => Told(t, s))
      /\ \A t \in Tasks : Acked(t)' => Acked(t)
  BY <1>1 DEF Target, Told, Acked
<1>3. \A c \in Conns : state'[c] # Nobody => state'[c].group \in 0..2
  BY <1>1 DEF TaskInv
<1> QED BY <1>2, <1>3, TaskKept DEF task

\* A new task: its number is above those of all others, so it has one server and one
\* client.
LEMMA TaskRoute ==
    ASSUME TypeOK, TaskInv, NEW w \in Workers, Worker(w), NEW s \in Conns, ProcRouteRpc(w, s)
    PROVE TaskInv'
<1> DEFINE t == tasks + 1
           c == job[w].cid
           a == Ok(w, NoChange, t)
           e == Out(s, "execute", NoChange, t)
<1>1. /\ worker[w] # "idle" /\ t \in Tasks /\ Answer(w, <<a, e>>)
      /\ tasks' = t /\ direction' = [direction EXCEPT ![t] = c] /\ UNCHANGED buffer
  BY DEF ProcRouteRpc, SetDirection
<1>2. c \in Conns /\ a \in Instruction /\ e \in Instruction
  BY <1>1, Answers, ChangesMembers, OutInstruction
<1>3. /\ a.type = "ok" /\ a.change = NoChange /\ a.task = t /\ a.to = c
      /\ e.type = "execute" /\ e.task = t /\ e.to = s
  BY DEF Ok, Out
<1>4. UNCHANGED <<given, told, acked, state>>
  BY DEF Worker, hist
<1>5. tasks \in 0..MaxTasks /\ t \notin 1..tasks /\ 1..t = 1..tasks \cup {t} /\ 1..tasks \subseteq Tasks
  BY RpcAssumption DEF TypeOK, TasksOK, Tasks
<1>6. /\ direction'[t] = c /\ c # Nobody
      /\ \A u \in 1..tasks : direction'[u] = direction[u]
  BY <1>1, <1>2, <1>5, RpcAssumption DEF TypeOK, TasksOK
<1> HIDE DEF t, c, a, e
<1>7. /\ \A o : InFlight(o)' => InFlight(o) \/ o = a \/ o = e
      /\ \A u : Returned(u)' => Returned(u)
  <2>1. <<a, e>> \in Seq(Instruction) /\ \A n \in DOMAIN <<a, e>> : <<a, e>>[n] \in {a, e}
    BY <1>2
  <2> DEFINE is == <<a, e>>
  <2> HIDE DEF is
  <2>2. /\ \A o : InFlight(o)' => InFlight(o) \/ \E n \in DOMAIN is : is[n] = o
        /\ \A u : Returned(u)' => Returned(u)
    BY <1>1, <2>1, AnswerInFlight DEF is
  <2> QED BY <2>1, <2>2 DEF is
<1>8. \A u \in Tasks \cup {Nobody} : \A r \in Conns :
          /\ Target(u, r)' => Target(u, r) \/ (u = t /\ r = s)
          /\ Told(u, r)' => Told(u, r) \/ (u = t /\ r = c)
  BY <1>3, <1>4, <1>7 DEF Target, Told
<1>9. \A u \in Tasks : Acked(u)' => Acked(u)
  BY <1>3, <1>4, <1>7 DEF Acked
<1>10. \A u \in 1..tasks' : direction'[u] # Nobody
  BY <1>1, <1>5, <1>6 DEF TaskInv
<1>11. \A u \in Tasks \cup {Nobody} : \A r \in Conns : Target(u, r)' =>
           u \in 1..tasks' /\ \A q \in Conns : Target(u, q)' => q = r
  BY <1>1, <1>5, <1>8 DEF TaskInv
<1>12. \A u \in Tasks \cup {Nobody} : \A r \in Conns : Told(u, r)' =>
           u \in 1..tasks' /\ direction'[u] = r
  BY <1>1, <1>5, <1>6, <1>8 DEF TaskInv
<1>13. \A u \in Tasks : Returned(u)' => u <= tasks'
  <2>1. \A u \in Tasks : Returned(u) => u <= tasks
    BY DEF TaskInv
  <2>2. tasks <= tasks' /\ tasks \in Int /\ tasks' \in Int /\ Tasks \subseteq Int
    BY <1>1, <1>5 DEF t, Tasks
  <2> QED BY <1>7, <2>1, <2>2
<1> QED BY <1>1, <1>4, <1>9, <1>10, <1>11, <1>12, <1>13 DEF TaskInv

\* A result that comes back is of a task with a direction, which is no web-socket: it
\* is kept before its acknowledgement is on its way.
LEMMA TaskResult ==
    ASSUME TypeOK, TaskInv, NEW w \in Workers, Worker(w), ResultReturned(w) PROVE TaskInv'
<1> DEFINE t == job[w].arg
           i == Ok(w, ActiveAgain(w), t)
<1>1. worker[w] = "result" /\ "result" \in CommandTypes /\ t # Nobody
  BY DEF ResultReturned, CommandTypes
<1>2. t \in Tasks
  BY <1>1 DEF TypeOK, WorkersOK, Fits
<1>3. t \in 1..tasks /\ direction[t] # Nobody /\ direction[t] \in Conns
  <2>1. Returned(t)
    BY <1>1 DEF Returned
  <2> QED BY <1>2, <2>1 DEF TaskInv, Tasks, TypeOK, TasksOK
<1>4. ~ClientInGroup(direction[t], GroupConnectionWsClient)
  BY <1>3 DEF TaskInv, ClientInGroup, GroupConnectionWsClient
<1>5. Answer(w, <<i>>) /\ buffer' = buffer \cup {t} /\ UNCHANGED <<tasks, direction>>
  BY <1>3, <1>4 DEF ResultReturned
<1>6. /\ <<i>> \in Seq(Instruction)
      /\ i.type = "ok" /\ i.change = <<"status", 1>> /\ i.task = t
  BY <1>1, <1>2, Answers, ChangesMembers DEF ActiveAgain, ClientStatusActive, Ok, Out
<1> HIDE DEF i
<1>7. <<"status", 1>> # NoChange
  BY DEF NoChange
<1>8. \A n \in DOMAIN <<i>> : <<i>>[n] = i
  OBVIOUS
<1> QED BY <1>5, <1>6, <1>7, <1>8, TaskAnswer

LEMMA TaskSend ==
    ASSUME TypeOK, TaskInv, NEW w \in Workers, Worker(w), SendMissed(w) \/ Send(w)
    PROVE TaskInv'
<1> DEFINE o == Head(outs[w])
<1>1. outs[w] \in Seq(Instruction) /\ outs[w] # <<>>
  BY SentOne
<1>2. /\ o \in Instruction /\ o = outs[w][1] /\ 1 \in DOMAIN outs[w]
      /\ \A n \in DOMAIN Tail(outs[w]) :
            n + 1 \in DOMAIN outs[w] /\ Tail(outs[w])[n] = outs[w][n + 1]
  BY <1>1, TailElements
<1>3. /\ outs'[w] = Tail(outs[w]) /\ \A v \in Workers : v # w => outs'[v] = outs[v]
      /\ \A v \in Workers : worker'[v] = "result" => worker[v] = "result"
      /\ UNCHANGED <<job, in, task>>
  BY SentOne DEF Rest, TypeOK, WorkersOK
<1>4. \A c \in Conns : \A n \in DOMAIN out'[c] :
          (n \in DOMAIN out[c] /\ out'[c][n] = out[c][n]) \/ out'[c][n] = o
  <2>1. UNCHANGED out \/ out' = [out EXCEPT ![o.to] = Append(@, o)]
    BY SentOne
  <2>2. CASE out' = [out EXCEPT ![o.to] = Append(@, o)]
    <3>1. o.to \in Conns /\ out[o.to] \in Seq(Instruction)
      BY <1>2 DEF Instruction, TypeOK, WritersOK
    <3>2. \A n \in DOMAIN Append(out[o.to], o) :
              \/ n \in DOMAIN out[o.to] /\ Append(out[o.to], o)[n] = out[o.to][n]
              \/ Append(out[o.to], o)[n] = o
      BY <1>2, <3>1, AppendElements
    <3>3. out'[o.to] = Append(out[o.to], o) /\ \A c \in Conns : c # o.to => out'[c] = out[c]
      BY <2>2, <3>1 DEF TypeOK, WritersOK
    <3> HIDE DEF o
    <3> QED BY <3>2, <3>3
  <2> QED BY <2>1, <2>2
<1>5. InFlight(o)
  BY <1>2 DEF InFlight
<1> HIDE DEF o
<1>6. \A p : InFlight(p)' => InFlight(p)
  <2> SUFFICES ASSUME NEW p, InFlight(p)' PROVE InFlight(p)
    OBVIOUS
  <2>1. CASE \E v \in Workers : \E n \in DOMAIN outs'[v] : outs'[v][n] = p
    <3>1. \A v \in Workers : \A n \in DOMAIN outs'[v] :
              \E k \in DOMAIN outs[v] : outs'[v][n] = outs[v][k]
      BY <1>2, <1>3
    <3> QED BY <2>1, <3>1 DEF InFlight
  <2>2. CASE \E c \in Conns : \E n \in DOMAIN out'[c] : out'[c][n] = p
    BY <1>4, <1>5, <2>2 DEF InFlight
  <2> QED BY <2>1, <2>2 DEF InFlight
<1>7. \A t : Returned(t)' => Returned(t)
  BY <1>3 DEF Returned
<1> QED BY <1>3, <1>6, <1>7, TaskStays

LEMMA TaskWorker ==
    ASSUME TypeOK, TaskInv, NEW w \in Workers, Worker(w) PROVE TaskInv'
<1>1. CASE Take(w)
  <2>1. in \in Seq(Job) /\ in # <<>>
    BY <1>1 DEF Take, TypeOK, WorkersOK
  <2>2. /\ Head(in) = in[1] /\ 1 \in DOMAIN in
        /\ \A n \in DOMAIN Tail(in) : n + 1 \in DOMAIN in /\ Tail(in)[n] = in[n + 1]
    BY <2>1, TailElements
  <2>3. /\ in' = Tail(in) /\ job'[w] = in[1] /\ worker'[w] = in[1].type
        /\ \A v \in Workers : v # w => job'[v] = job[v] /\ worker'[v] = worker[v]
        /\ UNCHANGED <<outs, out, task>>
    BY <1>1, <2>2 DEF Take, TypeOK, WorkersOK, line
  <2>4. \A t : Returned(t)' => Returned(t)
    BY <2>2, <2>3 DEF Returned
  <2>5. \A o : InFlight(o)' => InFlight(o)
    BY <2>3 DEF InFlight
  <2> QED BY <2>3, <2>4, <2>5, TaskStays
<1>2. CASE \/ ProcAuth(w) \/ RefuseRegistration(w) \/ RegisterClient(w) \/ ProcUpdateStatus(w)
           \/ NoServer(w) \/ ResultWithoutTask(w) \/ NoHandler(w) \/ ExitHandler(w)
  <2>1. PICK i \in Instruction :
            /\ Answer(w, <<i>>) /\ i.type # "execute"
            /\ i.type = "ok" => i.change # NoChange /\ i.task = Nobody
    BY <1>2, HandlerAnswer
  <2>2. UNCHANGED <<tasks, direction, buffer>>
    BY <1>2 DEF ProcAuth, RefuseRegistration, RegisterClient, ProcUpdateStatus, NoServer,
                ResultWithoutTask, NoHandler, ExitHandler, task
  <2>3. <<i>> \in Seq(Instruction) /\ \A n \in DOMAIN <<i>> : <<i>>[n] = i
    BY <2>1
  <2> QED BY <2>1, <2>2, <2>3, TaskAnswer
<1>3. CASE AppendMethods(w)
  <2> DEFINE i == Ok(w, <<"group", GroupConnectionServer>>, Nobody)
  <2>1. /\ worker[w] # "idle" /\ Answer(w, <<i>>) /\ UNCHANGED <<tasks, direction, buffer>>
    BY <1>3 DEF AppendMethods, task
  <2>2. i \in Instruction /\ i.type = "ok" /\ i.change # NoChange /\ i.task = Nobody
    BY <2>1, Answers, ChangesMembers DEF GroupConnectionServer, Ok, Out, NoChange
  <2> HIDE DEF i
  <2>3. <<i>> \in Seq(Instruction) /\ \A n \in DOMAIN <<i>> : <<i>>[n] = i
    BY <2>2
  <2> QED BY <2>1, <2>2, <2>3, TaskAnswer
<1>4. CASE \/ RegisterClientMethods(w) \/ GetCidVariants(w)
           \/ SendNil(w) \/ SendLookup(w) \/ SendClosed(w)
           \/ \E s \in Conns : SkipBusy(w, s)
  <2>1. /\ UNCHANGED <<outs, out, in, job, task>>
        /\ \A v \in Workers : worker'[v] = "result" => worker[v] = "result"
    BY <1>4 DEF RegisterClientMethods, GetCidVariants, SendNil, SendLookup, SendClosed, SkipBusy,
                line, work, TypeOK, WorkersOK
  <2>2. /\ \A o : InFlight(o)' => InFlight(o)
        /\ \A t : Returned(t)' => Returned(t)
    BY <2>1 DEF InFlight, Returned
  <2> QED BY <2>1, <2>2, TaskStays
<1> QED BY <1>1, <1>2, <1>3, <1>4, TaskRoute, TaskResult, TaskSend DEF Worker

LEMMA TaskInvariant == Spec => [](TypeOK /\ TaskInv)
<1>1. Init => TypeOK /\ TaskInv
  BY TypeInit, TaskInit
<1>2. TypeOK /\ TaskInv /\ [Next]_vars => (TypeOK /\ TaskInv)'
  <2> SUFFICES ASSUME TypeOK, TaskInv, [Next]_vars PROVE TypeOK' /\ TaskInv'
    OBVIOUS
  <2>1. TypeOK'
    BY TypeNext
  <2>2. CASE UNCHANGED vars
    <3>1. UNCHANGED <<state, in, worker, job, outs, out, given, told, acked, task>>
      BY <2>2 DEF vars, conn, line, work, hist
    <3>2. /\ \A o : InFlight(o)' => InFlight(o)
          /\ \A t : Returned(t)' => Returned(t)
      BY <3>1 DEF InFlight, Returned
    <3>3. /\ \A t \in Tasks \cup {Nobody} : \A s \in Conns :
                (Target(t, s)' => Target(t, s)) /\ (Told(t, s)' => Told(t, s))
          /\ \A t \in Tasks : Acked(t)' => Acked(t)
      BY <3>1, <3>2 DEF Target, Told, Acked
    <3>4. \A c \in Conns : state'[c] # Nobody => state'[c].group \in 0..2
      BY <3>1 DEF TaskInv
    <3>5. TaskInv'
      BY <3>1, <3>2, <3>3, <3>4, TaskKept DEF task
    <3> QED BY <2>1, <3>5
  <2>3. CASE Next /\ ~UNCHANGED vars
    <3>1. TaskInv'
      BY <2>3, TaskPeer, TaskReader, TaskWriter, TaskWorker DEF Next
    <3> QED BY <2>1, <3>1
  <2> QED BY <2>1, <2>2, <2>3
<1> QED BY <1>1, <1>2, PTL DEF Spec

\* However calls, answers and results cross each other, no task is given to two
\* servers, and the direction of a task is the client that was told of it.
THEOREM TasksRouted == Spec => []TaskRouting
<1>1. TypeOK /\ TaskInv => TaskRouting
  <2> SUFFICES ASSUME TypeOK, TaskInv PROVE TaskRouting
    OBVIOUS
  <2>1. \A c \in Conns : \A t \in given[c] : t \in Tasks \cup {Nobody} /\ Target(t, c)
    BY DEF Target, TypeOK, HistoryOK
  <2>2. \A c \in Conns : \A t \in told[c] : t \in Tasks \cup {Nobody} /\ Told(t, c)
    BY DEF Told, TypeOK, HistoryOK
  <2>3. \A c \in Conns : \A t \in told[c] : direction[t] = c
    BY <2>2 DEF TaskInv
  <2>4. \A r, s \in Conns : r # s => given[r] \cap given[s] = {}
    BY <2>1 DEF TaskInv
  <2> QED BY <2>3, <2>4 DEF TaskRouting
<1> QED BY TaskInvariant, <1>1, PTL

\* A result that its server knows to be received is in the buffer.
THEOREM ResultsKept == Spec => []ResultKept
<1>1. TypeOK /\ TaskInv => ResultKept
  BY DEF TypeOK, HistoryOK, TaskInv, Acked, ResultKept
<1> QED BY TaskInvariant, <1>1, PTL
=============================================================================
