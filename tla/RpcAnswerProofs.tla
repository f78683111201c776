---------------------------- MODULE RpcAnswerProofs ----------------------------
(***************************************************************************)
(* That every command of Rpc is answered once at most, and that the status *)
(* of a server settles as it last asked, for any connections, workers and  *)
(* bounds.  The argument counts: the commands of a connection that are in  *)
(* the queue, with a worker or answered in its back channel are no more    *)
(* than those its peer waits for.  A step that moves one of them on is an  *)
(* injection of the places taken after it into those taken before.         *)
(***************************************************************************)
EXTENDS RpcProofs, FiniteSetTheorems

-----------------------------------------------------------------------------
\* Places of commands and answers
\* What a worker pushes to another connection; all else answers a command.
Push(o) == o.type \in {"execute", "result"}

\* Worker w has to answer a command of c, or has the answer to send.
Owes(w, c) ==
    \/ worker[w] \notin {"idle", "send"} /\ job[w].cid = c
    \/ worker[w] = "send" /\ outs[w] # <<>> /\ outs[w][1].to = c /\ ~Push(outs[w][1])

\* The commands of c without an answer, by where they or their answers are.
Pending(c) ==
    {<<"in", n>> : n \in {n \in DOMAIN in : in[n].cid = c}}
    \cup {<<"worker", w>> : w \in {w \in Workers : Owes(w, c)}}
    \cup {<<"out", n>> : n \in {n \in DOMAIN out[c] : ~Push(out[c][n])}}

\* A worker answers first and pushes then; what is pushed changes no state.
RepliesInv ==
    /\ \A w \in Workers : \A n \in DOMAIN outs[w] :
          /\ n # 1 => Push(outs[w][n])
          /\ Push(outs[w][n]) => outs[w][n].change = NoChange
    /\ \A c \in Conns : \A n \in DOMAIN out[c] : Push(out[c][n]) => out[c][n].change = NoChange

\* No more commands are pending than the peer waits for.
Enough(c) == IsFiniteSet(Pending(c)) /\ Cardinality(Pending(c)) <= waiting[c]

AnswerInv == TypeOK /\ RepliesInv /\ \A c \in Conns : Enough(c)

\* The status a command asks for.
JobStatus(j) ==
    IF j.type = "status" THEN j.arg ELSE IF j.type = "result" THEN ClientStatusActive ELSE 0

\* A command of c on its way, or its answer, sets the status s.
Asks(c, s) ==
    \/ \E n \in DOMAIN in : in[n].cid = c /\ JobStatus(in[n]) = s
    \/ \E w \in Workers :
          worker[w] \in {"status", "result"} /\ job[w].cid = c /\ JobStatus(job[w]) = s
    \/ \E w \in Workers :
          worker[w] = "send" /\ Owes(w, c) /\ outs[w][1].change = <<"status", s>>
    \/ \E n \in DOMAIN out[c] : ~Push(out[c][n]) /\ out[c][n].change = <<"status", s>>

\* The answer that c waits for was lost.
Forlorn(c) == waiting[c] # 0 /\ Pending(c) = {}

\* The writer of c has the status s, or it is in the record already.
Holds(c, s) ==
    \/ writer[c] \in {"exit", "end", "ended"} \/ state[c] = Nobody
    \/ writer[c] = "update" /\ cur[c].change = <<"status", s>>
    \/ /\ writer[c] = "update" => cur[c].change \notin {"status"} \X (1..3)
       /\ state[c].status = s

\* A peer in lockstep waits for one answer at most; a command that asks for a status is
\* the last that did, and when it is done, the writer or the record has the status.
StatusFor(c) ==
    /\ waiting[c] <= 1
    /\ reader[c] = "none" => last[c] = 0
    /\ \A s \in 1..3 : Asks(c, s) => s = last[c]
    /\ last[c] # 0 => Asks(c, last[c]) \/ Forlorn(c) \/ Holds(c, last[c])

StatusInv == RpcInv /\ AnswerInv /\ \A c \in Conns : StatusFor(c)

-----------------------------------------------------------------------------
\* Counting by injections

\* Whoever is in T has a place of its own in S.
Injects(T, S) == \E f \in [T -> S] : \A x, y \in T : f[x] = f[y] => x = y

LEMMA InjectsSmaller ==
    ASSUME NEW S, NEW T, Injects(T, S), IsFiniteSet(S)
    PROVE IsFiniteSet(T) /\ Cardinality(T) <= Cardinality(S)
<1>1. PICK f \in [T -> S] : \A x, y \in T : f[x] = f[y] => x = y
  BY DEF Injects
<1>2. f \in Injection(T, S)
  BY <1>1 DEF Injection, IsInjective
<1> QED BY <1>2, FS_Injection

LEMMA InjectsSubset == ASSUME NEW S, NEW T \in SUBSET S PROVE Injects(T, S)
<1> DEFINE f == [x \in T |-> x]
<1>1. f \in [T -> S] /\ \A x, y \in T : f[x] = f[y] => x = y
  OBVIOUS
<1> HIDE DEF f
<1> QED BY <1>1 DEF Injects

LEMMA InjectsEmpty == ASSUME NEW T, Injects(T, {}) PROVE T = {}
BY DEF Injects

\* A number that bounds a cardinality.
LEMMA EnoughSmaller ==
    ASSUME NEW S, NEW T, NEW n \in Int, IsFiniteSet(S), Cardinality(S) <= n, Injects(T, S)
    PROVE IsFiniteSet(T) /\ Cardinality(T) <= n
<1>1. IsFiniteSet(T) /\ Cardinality(T) <= Cardinality(S)
  BY InjectsSmaller
<1> QED BY <1>1, FS_CardinalityType

LEMMA EnoughMore ==
    ASSUME NEW S, NEW T, NEW n \in Int, IsFiniteSet(S), Cardinality(S) <= n, NEW x,
           T \subseteq S \cup {x}
    PROVE IsFiniteSet(T) /\ Cardinality(T) <= n + 1
<1>0. Cardinality(S) \in Nat
  BY FS_CardinalityType
<1>1. IsFiniteSet(S \cup {x}) /\ Cardinality(S \cup {x}) \in {Cardinality(S), Cardinality(S) + 1}
  BY FS_AddElement
<1>2. Cardinality(S \cup {x}) <= n + 1
  BY <1>0, <1>1
<1>3. Injects(T, S \cup {x}) /\ n + 1 \in Int
  BY InjectsSubset
<1> QED BY <1>1, <1>2, <1>3, EnoughSmaller

LEMMA EnoughLess ==
    ASSUME NEW S, NEW T, NEW n \in Int, IsFiniteSet(S), Cardinality(S) <= n, NEW x \in S,
           Injects(T, S \ {x})
    PROVE IsFiniteSet(T) /\ Cardinality(T) <= n - 1
<1>0. Cardinality(S) \in Nat
  BY FS_CardinalityType
<1>1. IsFiniteSet(S \ {x}) /\ Cardinality(S \ {x}) = Cardinality(S) - 1
  BY FS_RemoveElement
<1>2. Cardinality(S \ {x}) <= n - 1 /\ n - 1 \in Int
  BY <1>0, <1>1
<1> QED BY <1>1, <1>2, EnoughSmaller

-----------------------------------------------------------------------------
\* Steps of the workers

\* A handler that is done answers its command, with the status that it asks for, and
\* whatever else it has to send is a push.
LEMMA HandlerReplies ==
    ASSUME TypeOK, NEW w \in Workers,
           \/ ProcAuth(w) \/ RefuseRegistration(w) \/ RegisterClient(w) \/ AppendMethods(w)
           \/ ProcUpdateStatus(w) \/ NoServer(w) \/ (\E s \in Conns : ProcRouteRpc(w, s))
           \/ ResultWithoutTask(w) \/ ResultReturned(w) \/ NoHandler(w) \/ ExitHandler(w)
    PROVE /\ worker[w] \notin {"idle", "send"}
          /\ \E is \in Seq(Instruction) :
                /\ Answer(w, is) /\ is # <<>> /\ is[1].to = job[w].cid /\ ~Push(is[1])
                /\ \A n \in DOMAIN is : n # 1 => Push(is[n])
                /\ \A n \in DOMAIN is : Push(is[n]) => is[n].change = NoChange
                /\ \A s \in 1..3 :
                      is[1].change = <<"status", s>> <=>
                          worker[w] \in {"status", "result"} /\ JobStatus(job[w]) = s
<1> DEFINE Status(i) ==
      \A s \in 1..3 : i.change = <<"status", s>> <=>
          worker[w] \in {"status", "result"} /\ JobStatus(job[w]) = s
<1>0. worker[w] \notin {"idle", "send"}
  BY DEF ProcAuth, RefuseRegistration, RegisterClient, AppendMethods, ProcUpdateStatus, NoServer,
         ProcRouteRpc, ResultWithoutTask, ResultReturned, NoHandler, ExitHandler
<1>1. /\ \A change : \A t : /\ Ok(w, change, t).to = job[w].cid
                            /\ Ok(w, change, t).change = change /\ ~Push(Ok(w, change, t))
      /\ \A change : /\ Problem(w, change).to = job[w].cid
                     /\ Problem(w, change).change = change /\ ~Push(Problem(w, change))
  BY DEF Ok, Problem, Out, Push
<1>2. ASSUME NEW i \in Instruction, Answer(w, <<i>>), i.to = job[w].cid, ~Push(i), Status(i)
      PROVE \E is \in Seq(Instruction) :
                /\ Answer(w, is) /\ is # <<>> /\ is[1].to = job[w].cid /\ ~Push(is[1])
                /\ \A n \in DOMAIN is : n # 1 => Push(is[n])
                /\ \A n \in DOMAIN is : Push(is[n]) => is[n].change = NoChange
                /\ Status(is[1])
  <2> HIDE DEF Status
  <2>1. /\ <<i>> \in Seq(Instruction) /\ <<i>> # <<>> /\ <<i>>[1] = i
        /\ \A n \in DOMAIN <<i>> : n = 1
    OBVIOUS
  <2> QED BY <1>2, <2>1
<1>3. ASSUME NEW i \in Instruction, NEW p \in Instruction, Answer(w, <<i, p>>),
             i.to = job[w].cid, ~Push(i), Push(p), p.change = NoChange, Status(i)
      PROVE \E is \in Seq(Instruction) :
                /\ Answer(w, is) /\ is # <<>> /\ is[1].to = job[w].cid /\ ~Push(is[1])
                /\ \A n \in DOMAIN is : n # 1 => Push(is[n])
                /\ \A n \in DOMAIN is : Push(is[n]) => is[n].change = NoChange
                /\ Status(is[1])
  <2> HIDE DEF Status
  <2>1. /\ <<i, p>> \in Seq(Instruction) /\ <<i, p>> # <<>> /\ <<i, p>>[1] = i
        /\ \A n \in DOMAIN <<i, p>> : n = 1 \/ <<i, p>>[n] = p
    OBVIOUS
  <2> QED BY <1>3, <2>1
<1>4. worker[w] \in {"status", "result"} => job[w].type = worker[w] /\ Fits(job[w])
  BY DEF TypeOK, WorkersOK, CommandTypes
<1>5. ASSUME NEW change \in Changes, worker[w] \notin {"status", "result"}, change[1] # "status"
      PROVE /\ \A t \in Tasks \cup {Nobody} :
                  Ok(w, change, t) \in Instruction /\ Status(Ok(w, change, t))
            /\ Problem(w, change) \in Instruction /\ Status(Problem(w, change))
  BY <1>0, <1>1, <1>5, Answers
<1>6. /\ NoChange[1] # "status" /\ <<"auth", TRUE>>[1] # "status"
      /\ <<"auth", FALSE>>[1] # "status" /\ <<"group", 1>>[1] # "status"
      /\ <<"group", 2>>[1] # "status"
  BY DEF NoChange
<1>7. CASE ProcAuth(w)
  <2>1. \/ worker[w] = "auth" /\ Answer(w, <<Ok(w, <<"auth", TRUE>>, Nobody)>>)
        \/ worker[w] = "badauth" /\ Answer(w, <<Problem(w, <<"auth", FALSE>>)>>)
    BY <1>7 DEF ProcAuth
  <2>2. <<"auth", TRUE>> \in Changes /\ <<"auth", FALSE>> \in Changes
    BY ChangesMembers
  <2>3. CASE worker[w] = "auth" /\ Answer(w, <<Ok(w, <<"auth", TRUE>>, Nobody)>>)
    <3> DEFINE i == Ok(w, <<"auth", TRUE>>, Nobody)
    <3>1. i \in Instruction /\ i.to = job[w].cid /\ ~Push(i) /\ Status(i)
      BY <1>1, <1>5, <1>6, <2>2, <2>3
    <3> HIDE DEF i
    <3> QED BY <1>2, <2>3, <3>1 DEF i
  <2>4. CASE worker[w] = "badauth" /\ Answer(w, <<Problem(w, <<"auth", FALSE>>)>>)
    <3> DEFINE i == Problem(w, <<"auth", FALSE>>)
    <3>1. i \in Instruction /\ i.to = job[w].cid /\ ~Push(i) /\ Status(i)
      BY <1>1, <1>5, <1>6, <2>2, <2>4
    <3> HIDE DEF i
    <3> QED BY <1>2, <2>4, <3>1 DEF i
  <2> QED BY <2>1, <2>3, <2>4
<1>8. CASE RefuseRegistration(w) \/ NoServer(w) \/ NoHandler(w)
  BY <1>1, <1>2, <1>5, <1>6, <1>8, <1>0, ChangesMembers DEF RefuseRegistration, NoServer, NoHandler
<1>9. CASE RegisterClient(w) \/ AppendMethods(w)
  <2>1. PICK g \in {1, 2} :
            worker[w] \in {"reg", "append"} /\ Answer(w, <<Ok(w, <<"group", g>>, Nobody)>>)
    BY <1>9 DEF RegisterClient, AppendMethods, GroupConnectionClient, GroupConnectionServer
  <2> DEFINE i == Ok(w, <<"group", g>>, Nobody)
  <2>2. i \in Instruction /\ i.to = job[w].cid /\ ~Push(i) /\ Status(i)
    BY <1>1, <1>5, <1>6, <2>1, ChangesMembers
  <2> HIDE DEF i
  <2> QED BY <1>2, <2>1, <2>2 DEF i
<1>10. CASE ProcUpdateStatus(w)
  <2>1. /\ worker[w] = "status" /\ job[w].type = "status" /\ job[w].arg \in (1..3) \cup {Nobody}
        /\ JobStatus(job[w]) = job[w].arg
    BY <1>4, <1>10 DEF ProcUpdateStatus, Fits, JobStatus
  <2>2. CASE job[w].arg \in 1..3
    <3> DEFINE i == Ok(w, <<"status", job[w].arg>>, Nobody)
    <3>1. Answer(w, <<i>>)
      BY <1>10, <2>2, RpcAssumption DEF ProcUpdateStatus
    <3>2. i \in Instruction /\ i.to = job[w].cid /\ ~Push(i) /\ i.change = <<"status", job[w].arg>>
      BY <1>0, <1>1, <2>2, Answers, ChangesMembers
    <3> HIDE DEF i
    <3>3. Status(i)
      BY <2>1, <3>2
    <3> QED BY <1>0, <1>2, <3>1, <3>2, <3>3
  <2>3. CASE job[w].arg = Nobody
    <3> DEFINE i == Problem(w, NoChange)
    <3>1. Answer(w, <<i>>)
      BY <1>10, <2>3 DEF ProcUpdateStatus
    <3>2. i \in Instruction /\ i.to = job[w].cid /\ ~Push(i) /\ i.change[1] # "status"
      BY <1>0, <1>1, <1>6, Answers, ChangesMembers
    <3> HIDE DEF i
    <3>3. \A s \in 1..3 : i.change # <<"status", s>> /\ s # Nobody
      BY <3>2, RpcAssumption
    <3>4. Status(i)
      BY <2>1, <2>3, <3>3
    <3> QED BY <1>0, <1>2, <3>1, <3>2, <3>4
  <2> QED BY <2>1, <2>2, <2>3
<1>11. CASE ResultWithoutTask(w)
  <2>1. worker[w] = "result" /\ Answer(w, <<Problem(w, <<"status", 1>>)>>)
    BY <1>11 DEF ResultWithoutTask, ActiveAgain, ClientStatusActive
  <2>2. JobStatus(job[w]) = 1
    BY <1>4, <2>1 DEF JobStatus, ClientStatusActive
  <2> DEFINE i == Problem(w, <<"status", 1>>)
  <2>3. i \in Instruction /\ i.to = job[w].cid /\ ~Push(i) /\ i.change = <<"status", 1>>
    BY <1>0, <1>1, <2>2, Answers, ChangesMembers
  <2> HIDE DEF i
  <2>5. Status(i)
    BY <2>1, <2>2, <2>3
  <2> QED BY <1>0, <1>2, <2>1, <2>3, <2>5 DEF i
<1>12. CASE ResultReturned(w)
  <2> DEFINE i == Ok(w, <<"status", 1>>, job[w].arg)
             p == Out(direction[job[w].arg], "result", NoChange, job[w].arg)
             push == /\ direction[job[w].arg] # Nobody
                     /\ ClientInGroup(direction[job[w].arg], GroupConnectionWsClient)
  <2>1. worker[w] = "result" /\ job[w].arg # Nobody /\ Answer(w, IF push THEN <<i, p>> ELSE <<i>>)
    BY <1>12 DEF ResultReturned, ActiveAgain, ClientStatusActive
  <2>2. JobStatus(job[w]) = 1 /\ job[w].arg \in Tasks
    BY <1>4, <2>1 DEF JobStatus, ClientStatusActive, Fits
  <2>3. i \in Instruction /\ i.to = job[w].cid /\ ~Push(i) /\ i.change = <<"status", 1>>
    BY <1>0, <1>1, <2>2, Answers, ChangesMembers
  <2>4. push => p \in Instruction /\ Push(p) /\ p.change = NoChange
    <3> SUFFICES ASSUME push PROVE p \in Instruction /\ Push(p) /\ p.change = NoChange
      OBVIOUS
    <3>1. direction[job[w].arg] \in Conns
      BY <2>2 DEF TypeOK, TasksOK
    <3>2. p \in Instruction
      BY <2>2, <3>1, OutInstruction, ChangesMembers
    <3> QED BY <3>2 DEF Out, Push
  <2> HIDE DEF i, p, push
  <2>5. Status(i)
    BY <2>1, <2>2, <2>3
  <2>6. CASE push
    BY <1>0, <1>3, <2>1, <2>3, <2>4, <2>5, <2>6
  <2>7. CASE ~push
    BY <1>0, <1>2, <2>1, <2>3, <2>5, <2>7
  <2> QED BY <2>6, <2>7
<1>13. CASE ExitHandler(w)
  <2> DEFINE i == Out(job[w].cid, "exit", NoChange, Nobody)
  <2>1. worker[w] = "exit" /\ Answer(w, <<i>>)
    BY <1>13 DEF ExitHandler
  <2>2. i \in Instruction /\ i.to = job[w].cid /\ i.type = "exit" /\ i.change = NoChange
    BY <1>0, Answers, ChangesMembers, OutInstruction DEF Out
  <2> HIDE DEF i
  <2>3. Status(i)
    BY <1>6, <2>1, <2>2
  <2> QED BY <1>0, <1>2, <2>1, <2>2, <2>3 DEF Push
<1>14. ASSUME NEW s \in Conns, ProcRouteRpc(w, s)
       PROVE \E is \in Seq(Instruction) :
                /\ Answer(w, is) /\ is # <<>> /\ is[1].to = job[w].cid /\ ~Push(is[1])
                /\ \A n \in DOMAIN is : n # 1 => Push(is[n])
                /\ \A n \in DOMAIN is : Push(is[n]) => is[n].change = NoChange
                /\ Status(is[1])
  <2> DEFINE i == Ok(w, NoChange, tasks + 1)
             p == Out(s, "execute", NoChange, tasks + 1)
  <2>1. worker[w] = "pick" /\ tasks + 1 \in Tasks /\ Answer(w, <<i, p>>)
    BY <1>14 DEF ProcRouteRpc
  <2>2. i \in Instruction /\ i.to = job[w].cid /\ ~Push(i) /\ Status(i)
    BY <1>1, <1>5, <1>6, <2>1, ChangesMembers
  <2>3. p \in Instruction /\ Push(p) /\ p.change = NoChange
    BY <2>1, OutInstruction, ChangesMembers DEF Out, Push
  <2> HIDE DEF i, p
  <2> QED BY <1>3, <2>1, <2>2, <2>3
<1> QED BY <1>0, <1>7, <1>8, <1>9, <1>10, <1>11, <1>12, <1>13, <1>14

-----------------------------------------------------------------------------
\* How each step moves the commands of a connection

\* The places in the definition, as facts.
LEMMA PendingMember ==
    ASSUME NEW c
    PROVE \A p : p \in Pending(c) <=>
              \/ \E n \in DOMAIN in : in[n].cid = c /\ p = <<"in", n>>
              \/ \E w \in Workers : Owes(w, c) /\ p = <<"worker", w>>
              \/ \E n \in DOMAIN out[c] : ~Push(out[c][n]) /\ p = <<"out", n>>
BY DEF Pending

LEMMA PendingPeer ==
    ASSUME TypeOK, NEW d \in Conns, Peer(d), NEW c \in Conns
    PROVE \/ Pending(c)' = Pending(c) /\ waiting'[c] = waiting[c]
          \/ /\ Pending(c)' = Pending(c) \cup {<<"in", Len(in) + 1>>}
             /\ <<"in", Len(in) + 1>> \notin Pending(c)
             /\ waiting'[c] = waiting[c] + 1
<1>1. UNCHANGED <<worker, job, outs, out>>
  BY DEF Peer, NewConnection, PeerBreak, Processing, work, line
<1>2. CASE NewConnection(d) \/ PeerBreak(d)
  BY <1>1, <1>2 DEF NewConnection, PeerBreak, Pending, Owes
<1>3. ASSUME NEW k \in Commands[d], Processing(d, k)
      PROVE \/ Pending(c)' = Pending(c) /\ waiting'[c] = waiting[c]
            \/ /\ Pending(c)' = Pending(c) \cup {<<"in", Len(in) + 1>>}
               /\ <<"in", Len(in) + 1>> \notin Pending(c)
               /\ waiting'[c] = waiting[c] + 1
  <2> DEFINE j == [cid |-> d, type |-> TypeOf(k), arg |-> k[2]]
  <2>1. j \in Job /\ j.cid = d /\ in \in Seq(Job) /\ in' = Append(in, j)
    BY <1>3, CommandJob DEF Processing, TypeOK, WorkersOK
  <2> HIDE DEF j
  <2>2. /\ DOMAIN in = 1..Len(in) /\ Len(in) \in Nat /\ DOMAIN in' = 1..(Len(in) + 1)
        /\ in'[Len(in) + 1] = j /\ \A n \in DOMAIN in : in'[n] = in[n]
    BY <2>1, AppendProperties, LenProperties
  <2>3. /\ {n \in DOMAIN in' : in'[n].cid = c} =
              {n \in DOMAIN in : in[n].cid = c} \cup (IF c = d THEN {Len(in) + 1} ELSE {})
    BY <2>1, <2>2
  <2>4. CASE c = d
    <3>1. waiting'[c] = waiting[c] + 1
      BY <1>3, <2>4 DEF Processing, TypeOK, ConnectionsOK
    <3>2. Pending(c)' = Pending(c) \cup {<<"in", Len(in) + 1>>}
      BY <1>1, <2>3, <2>4 DEF Pending, Owes, Push
    <3>3. Len(in) + 1 \notin DOMAIN in
      BY <2>2
    <3>4. <<"in", Len(in) + 1>> \notin Pending(c)
      BY <3>3, PendingMember
    <3> QED BY <3>1, <3>2, <3>4
  <2>5. CASE c # d
    <3>1. waiting'[c] = waiting[c]
      BY <1>3, <2>5 DEF Processing, TypeOK, ConnectionsOK
    <3>2. {n \in DOMAIN in' : in'[n].cid = c} = {n \in DOMAIN in : in[n].cid = c}
      BY <2>3, <2>5
    <3>3. Pending(c)' = Pending(c)
      BY <1>1, <3>2 DEF Pending, Owes
    <3> QED BY <3>1, <3>3
  <2> QED BY <2>4, <2>5
<1> QED BY <1>2, <1>3 DEF Peer

LEMMA PendingReader ==
    ASSUME NEW d \in Conns, Reader(d), NEW c \in Conns
    PROVE Pending(c)' = Pending(c) /\ waiting'[c] = waiting[c]
BY DEF Reader, LookGroup, CreateGroup, AppendBackChannel, Put, ReadError, LeaveServers,
       RemoveBackChannel, Delete, RemoveConnection, Close, Pending, Owes, work, line

\* The first of a queue is taken: those behind it move up.
LEMMA PendingTail ==
    ASSUME TypeOK, NEW c \in Conns, out[c] # <<>>, out'[c] = Tail(out[c]),
           UNCHANGED <<in, worker, job, outs>>
    PROVE Injects(Pending(c)', IF Push(out[c][1]) THEN Pending(c) ELSE Pending(c) \ {<<"out", 1>>})
<1> DEFINE f == [p \in Pending(c)' |-> IF p[1] = "out" THEN <<"out", p[2] + 1>> ELSE p]
           S == IF Push(out[c][1]) THEN Pending(c) ELSE Pending(c) \ {<<"out", 1>>}
<1>1. out[c] \in Seq(Instruction)
  BY DEF TypeOK, WritersOK
<1>2. /\ \A n \in DOMAIN Tail(out[c]) : n + 1 \in DOMAIN out[c] /\ Tail(out[c])[n] = out[c][n + 1]
      /\ DOMAIN Tail(out[c]) \subseteq Nat \ {0}
  BY <1>1, TailElements, LenProperties
<1>3. ASSUME NEW p \in Pending(c)'
      PROVE /\ f[p] \in S
            /\ \/ p[1] # "out" /\ f[p] = p
               \/ \E n \in Nat \ {0} : p = <<"out", n>> /\ f[p] = <<"out", n + 1>>
  <2>1. \/ \E n \in DOMAIN in : in[n].cid = c /\ p = <<"in", n>>
        \/ \E w \in Workers : Owes(w, c) /\ p = <<"worker", w>>
        \/ \E n \in DOMAIN out'[c] : ~Push(out'[c][n]) /\ p = <<"out", n>>
    BY <1>3 DEF Pending, Owes, Push
  <2>2. CASE \E n \in DOMAIN in : in[n].cid = c /\ p = <<"in", n>>
    <3>1. p \in Pending(c) /\ p[1] = "in" /\ p # <<"out", 1>>
      BY <2>2, PendingMember
    <3> QED BY <1>3, <3>1
  <2>3. CASE \E w \in Workers : Owes(w, c) /\ p = <<"worker", w>>
    <3>1. p \in Pending(c) /\ p[1] = "worker" /\ p # <<"out", 1>>
      BY <2>3, PendingMember
    <3> QED BY <1>3, <3>1
  <2>4. CASE \E n \in DOMAIN out'[c] : ~Push(out'[c][n]) /\ p = <<"out", n>>
    <3>1. PICK n \in DOMAIN Tail(out[c]) : ~Push(Tail(out[c])[n]) /\ p = <<"out", n>>
      BY <2>4
    <3>2. n \in Nat \ {0} /\ n + 1 \in DOMAIN out[c] /\ ~Push(out[c][n + 1])
      BY <1>2, <3>1
    <3>3. <<"out", n + 1>> \in Pending(c) /\ <<"out", n + 1>> # <<"out", 1>>
      BY <3>2, PendingMember
    <3>4. f[p] = <<"out", n + 1>>
      BY <1>3, <3>1
    <3> QED BY <3>1, <3>2, <3>3, <3>4
  <2> QED BY <2>1, <2>2, <2>3, <2>4
<1>4. \A x, y \in Pending(c)' : f[x] = f[y] => x = y
  <2> SUFFICES ASSUME NEW x \in Pending(c)', NEW y \in Pending(c)', f[x] = f[y] PROVE x = y
    OBVIOUS
  <2>1. /\ \/ x[1] # "out" /\ f[x] = x
           \/ \E n \in Nat \ {0} : x = <<"out", n>> /\ f[x] = <<"out", n + 1>>
        /\ \/ y[1] # "out" /\ f[y] = y
           \/ \E n \in Nat \ {0} : y = <<"out", n>> /\ f[y] = <<"out", n + 1>>
    BY <1>3
  <2> HIDE DEF f
  <2> QED BY <2>1
<1>5. f \in [Pending(c)' -> S]
  BY <1>3
<1> HIDE DEF f
<1> QED BY <1>4, <1>5 DEF Injects

LEMMA PendingWriter ==
    ASSUME TypeOK, NEW d \in Conns, Writer(d), NEW c \in Conns
    PROVE \/ Injects(Pending(c)', Pending(c)) /\ waiting'[c] = waiting[c]
          \/ /\ c = d /\ Write(c) /\ out[c] # <<>> /\ ~Push(out[c][1])
             /\ <<"out", 1>> \in Pending(c) /\ waiting'[c] = waiting[c] - 1
             /\ Injects(Pending(c)', Pending(c) \ {<<"out", 1>>})
<1>1. UNCHANGED <<in, worker, job, outs>>
  BY DEF Writer, work
<1>2. CASE UNCHANGED <<out, waiting>>
  BY <1>1, <1>2, InjectsSubset DEF Pending, Owes
<1>3. CASE Write(d) \/ WriteError(d)
  <2>1. out[d] # <<>> /\ out' = [out EXCEPT ![d] = Tail(@)]
    BY <1>3 DEF Write, WriteError
  <2>2. CASE c # d
    <3>1. waiting'[c] = waiting[c] /\ out'[c] = out[c]
      BY <1>3, <2>1, <2>2 DEF Write, WriteError, TypeOK, ConnectionsOK, WritersOK
    <3> QED BY <1>1, <3>1, InjectsSubset DEF Pending, Owes
  <2>3. CASE c = d
    <3>1. out[c] \in Seq(Instruction) /\ out'[c] = Tail(out[c])
      BY <2>1, <2>3 DEF TypeOK, WritersOK
    <3>2. Head(out[c]) = out[c][1] /\ 1 \in DOMAIN out[c]
      BY <2>1, <2>3, <3>1, TailElements
    <3>3. Injects(Pending(c)', IF Push(out[c][1]) THEN Pending(c) ELSE Pending(c) \ {<<"out", 1>>})
      BY <1>1, <2>1, <2>3, <3>1, PendingTail
    <3>4. CASE Push(out[c][1])
      <4>1. waiting'[c] = waiting[c]
        BY <1>3, <2>3, <3>2, <3>4 DEF Write, WriteError, Push
      <4> QED BY <3>3, <3>4, <4>1
    <3>5. CASE ~Push(out[c][1])
      <4>1. <<"out", 1>> \in Pending(c)
        BY <3>2, <3>5, PendingMember
      <4>2. CASE Write(d)
        <5>1. waiting'[c] = waiting[c] - 1
          BY <2>3, <3>2, <3>5, <4>2 DEF Write, Push, TypeOK, ConnectionsOK
        <5> QED BY <2>1, <2>3, <3>3, <3>5, <4>1, <4>2, <5>1
      <4>3. CASE WriteError(d)
        <5>1. waiting'[c] = waiting[c]
          BY <4>3 DEF WriteError
        <5>2. Injects(Pending(c)', Pending(c))
          <6>1. PICK f \in [Pending(c)' -> Pending(c) \ {<<"out", 1>>}] :
                    \A x, y \in Pending(c)' : f[x] = f[y] => x = y
            BY <3>3, <3>5 DEF Injects
          <6>2. f \in [Pending(c)' -> Pending(c)]
            BY <6>1
          <6> QED BY <6>1, <6>2 DEF Injects
        <5> QED BY <5>1, <5>2
      <4> QED BY <1>3, <4>2, <4>3
    <3> QED BY <3>4, <3>5
  <2> QED BY <2>2, <2>3
<1> QED BY <1>2, <1>3 DEF Writer, CloseSocket, EndWriter, UpdateState, UpdateStateNil

LEMMA PendingTake ==
    ASSUME TypeOK, NEW w \in Workers, Take(w), NEW c \in Conns
    PROVE Injects(Pending(c)', Pending(c))
<1> DEFINE f == [p \in Pending(c)' |-> IF p[1] = "in" THEN <<"in", p[2] + 1>>
                                       ELSE IF p = <<"worker", w>> THEN <<"in", 1>> ELSE p]
<1>1. in \in Seq(Job) /\ in # <<>> /\ in' = Tail(in) /\ worker[w] = "idle" /\ UNCHANGED <<out, outs>>
  BY DEF Take, TypeOK, WorkersOK, line
<1>2. /\ \A n \in DOMAIN Tail(in) : n + 1 \in DOMAIN in /\ Tail(in)[n] = in[n + 1]
      /\ DOMAIN Tail(in) \subseteq Nat \ {0} /\ 1 \in DOMAIN in /\ Head(in) = in[1]
  BY <1>1, TailElements, LenProperties
<1>3. /\ worker'[w] = in[1].type /\ job'[w] = in[1] /\ in[1].type \notin {"idle", "send"}
      /\ \A v \in Workers : v # w => worker'[v] = worker[v] /\ job'[v] = job[v]
  <2>1. in[1] \in Job
    BY <1>1, <1>2, TailElements
  <2>2. in[1].type \notin {"idle", "send"}
    BY <2>1 DEF Job, CommandTypes
  <2>3. /\ job' = [job EXCEPT ![w] = in[1]] /\ worker' = [worker EXCEPT ![w] = in[1].type]
    BY <1>2 DEF Take
  <2> QED BY <2>2, <2>3 DEF TypeOK, WorkersOK
<1>4. ASSUME NEW p \in Pending(c)'
      PROVE /\ f[p] \in Pending(c)
            /\ \/ p[1] # "in" /\ p # <<"worker", w>> /\ f[p] = p
               \/ p = <<"worker", w>> /\ f[p] = <<"in", 1>>
               \/ \E n \in Nat \ {0} : p = <<"in", n>> /\ f[p] = <<"in", n + 1>>
  <2>1. \/ \E n \in DOMAIN in' : in'[n].cid = c /\ p = <<"in", n>>
        \/ \E v \in Workers : Owes(v, c)' /\ p = <<"worker", v>>
        \/ \E n \in DOMAIN out[c] : ~Push(out[c][n]) /\ p = <<"out", n>>
    BY <1>1, <1>4 DEF Pending, Push
  <2>2. CASE \E n \in DOMAIN in' : in'[n].cid = c /\ p = <<"in", n>>
    <3>1. PICK n \in DOMAIN Tail(in) : Tail(in)[n].cid = c /\ p = <<"in", n>>
      BY <1>1, <2>2
    <3>2. <<"in", n + 1>> \in Pending(c) /\ n \in Nat \ {0}
      BY <1>2, <3>1, PendingMember
    <3> QED BY <1>4, <3>1, <3>2
  <2>3. CASE \E v \in Workers : Owes(v, c)' /\ p = <<"worker", v>>
    <3>1. PICK v \in Workers : Owes(v, c)' /\ p = <<"worker", v>>
      BY <2>3
    <3>2. CASE v = w
      <4>1. in[1].cid = c
        BY <1>3, <3>1, <3>2 DEF Owes
      <4>2. <<"in", 1>> \in Pending(c)
        BY <1>2, <4>1, PendingMember
      <4> QED BY <1>4, <3>1, <3>2, <4>2
    <3>3. CASE v # w
      <4>1. Owes(v, c)
        BY <1>1, <1>3, <3>1, <3>3 DEF Owes, Push
      <4>2. p \in Pending(c) /\ p # <<"worker", w>> /\ p[1] # "in"
        BY <3>1, <3>3, <4>1, PendingMember
      <4> QED BY <1>4, <4>2
    <3> QED BY <3>2, <3>3
  <2>4. CASE \E n \in DOMAIN out[c] : ~Push(out[c][n]) /\ p = <<"out", n>>
    <3>1. p \in Pending(c) /\ p # <<"worker", w>> /\ p[1] # "in"
      BY <2>4, PendingMember
    <3> QED BY <1>4, <3>1
  <2> QED BY <2>1, <2>2, <2>3, <2>4
<1>5. \A x, y \in Pending(c)' : f[x] = f[y] => x = y
  <2> SUFFICES ASSUME NEW x \in Pending(c)', NEW y \in Pending(c)', f[x] = f[y] PROVE x = y
    OBVIOUS
  <2>1. /\ \/ x[1] # "in" /\ x # <<"worker", w>> /\ f[x] = x
           \/ x = <<"worker", w>> /\ f[x] = <<"in", 1>>
           \/ \E n \in Nat \ {0} : x = <<"in", n>> /\ f[x] = <<"in", n + 1>>
        /\ \/ y[1] # "in" /\ y # <<"worker", w>> /\ f[y] = y
           \/ y = <<"worker", w>> /\ f[y] = <<"in", 1>>
           \/ \E n \in Nat \ {0} : y = <<"in", n>> /\ f[y] = <<"in", n + 1>>
    BY <1>4
  <2> HIDE DEF f
  <2> QED BY <2>1
<1>6. f \in [Pending(c)' -> Pending(c)]
  BY <1>4
<1> HIDE DEF f
<1> QED BY <1>5, <1>6 DEF Injects

LEMMA PendingAnswer ==
    ASSUME TypeOK, NEW w \in Workers, worker[w] \notin {"idle", "send"},
           NEW is \in Seq(Instruction), Answer(w, is), is[1].to = job[w].cid, NEW c \in Conns
    PROVE Pending(c)' \subseteq Pending(c)
<1>1. /\ outs'[w] = is /\ worker'[w] = "send"
      /\ \A v \in Workers : v # w => outs'[v] = outs[v] /\ worker'[v] = worker[v]
      /\ UNCHANGED <<job, in, out>>
  BY DEF Answer, line, TypeOK, WorkersOK
<1>2. \A v \in Workers : Owes(v, c)' => Owes(v, c)
  BY <1>1 DEF Owes, Push
<1> QED BY <1>1, <1>2 DEF Pending

LEMMA PendingSend ==
    ASSUME TypeOK, RepliesInv, NEW w \in Workers, SendMissed(w) \/ Send(w), NEW c \in Conns
    PROVE Injects(Pending(c)', Pending(c))
<1> DEFINE o == outs[w][1]
           f == [p \in Pending(c)' |->
                    IF p = <<"out", Len(out[c]) + 1>> THEN <<"worker", w>> ELSE p]
<1>1. outs[w] \in Seq(Instruction) /\ outs[w] # <<>> /\ worker[w] = "send"
  BY SentOne
<1>2. /\ o \in Instruction /\ o = Head(outs[w])
      /\ \A n \in DOMAIN Tail(outs[w]) : n + 1 \in DOMAIN outs[w] /\ Tail(outs[w])[n] = outs[w][n + 1]
      /\ Tail(outs[w]) \in Seq(Instruction)
  BY <1>1, TailElements
<1>3. /\ outs'[w] = Tail(outs[w]) /\ worker'[w] = (IF outs'[w] = <<>> THEN "idle" ELSE "send")
      /\ \A v \in Workers : v # w => outs'[v] = outs[v] /\ worker'[v] = worker[v]
      /\ UNCHANGED <<job, in>>
  <2>1. /\ outs' = [outs EXCEPT ![w] = Tail(outs[w])]
        /\ worker' = [worker EXCEPT ![w] = IF Tail(outs[w]) = <<>> THEN "idle" ELSE "send"]
        /\ UNCHANGED <<job, in>>
    BY SentOne DEF Rest
  <2> QED BY <2>1 DEF TypeOK, WorkersOK
<1>4. \A v \in Workers : Owes(v, c)' => v # w /\ Owes(v, c)
  <2>1. ~Owes(w, c)'
    <3> SUFFICES ASSUME Owes(w, c)' PROVE FALSE
      OBVIOUS
    <3>1. Tail(outs[w]) # <<>> /\ ~Push(Tail(outs[w])[1])
      BY <1>3 DEF Owes, Push
    <3>2. 1 \in DOMAIN Tail(outs[w])
      BY <1>2, <3>1, TailElements
    <3>3. Tail(outs[w])[1] = outs[w][2] /\ 2 \in DOMAIN outs[w]
      BY <1>2, <3>2
    <3> QED BY <3>1, <3>3 DEF RepliesInv
  <2>2. \A v \in Workers : v # w => (Owes(v, c)' => Owes(v, c))
    BY <1>3 DEF Owes, Push
  <2> QED BY <2>1, <2>2
<1>5. CASE out'[c] = out[c]
  <2>1. Pending(c)' \subseteq Pending(c)
    BY <1>3, <1>4, <1>5 DEF Pending, Push
  <2> QED BY <2>1, InjectsSubset
<1>6. CASE out'[c] # out[c]
  <2>1. o.to = c /\ out'[c] = Append(out[c], o)
    <3>1. /\ o.to \in Conns
          /\ UNCHANGED out \/ out' = [out EXCEPT ![o.to] = Append(@, o)]
      BY <1>2, SentOne
    <3> HIDE DEF o
    <3> QED BY <1>6, <3>1 DEF TypeOK, WritersOK
  <2>2. out[c] \in Seq(Instruction)
    BY DEF TypeOK, WritersOK
  <2>3. /\ Len(out[c]) \in Nat /\ DOMAIN out[c] = 1..Len(out[c])
        /\ DOMAIN out'[c] = 1..(Len(out[c]) + 1)
        /\ out'[c][Len(out[c]) + 1] = o /\ \A n \in DOMAIN out[c] : out'[c][n] = out[c][n]
    BY <1>2, <2>1, <2>2, AppendProperties, LenProperties
  <2> HIDE DEF o
  <2>4. ASSUME NEW p \in Pending(c)'
        PROVE /\ f[p] \in Pending(c)
              /\ \/ p # <<"worker", w>> /\ f[p] = p
                 \/ p = <<"out", Len(out[c]) + 1>> /\ f[p] = <<"worker", w>>
    <3>1. \/ \E n \in DOMAIN in : in[n].cid = c /\ p = <<"in", n>>
          \/ \E v \in Workers : Owes(v, c)' /\ p = <<"worker", v>>
          \/ \E n \in DOMAIN out'[c] : ~Push(out'[c][n]) /\ p = <<"out", n>>
      BY <1>3, <2>4 DEF Pending, Push
    <3>2. CASE \E n \in DOMAIN in : in[n].cid = c /\ p = <<"in", n>>
      <4>1. p \in Pending(c) /\ p # <<"worker", w>> /\ p # <<"out", Len(out[c]) + 1>>
        BY <3>2, PendingMember
      <4> QED BY <2>4, <4>1
    <3>3. CASE \E v \in Workers : Owes(v, c)' /\ p = <<"worker", v>>
      <4>1. p \in Pending(c) /\ p # <<"worker", w>> /\ p # <<"out", Len(out[c]) + 1>>
        BY <1>4, <3>3, PendingMember
      <4> QED BY <2>4, <4>1
    <3>4. CASE \E n \in DOMAIN out'[c] : ~Push(out'[c][n]) /\ p = <<"out", n>>
      <4>1. PICK n \in DOMAIN out'[c] : ~Push(out'[c][n]) /\ p = <<"out", n>>
        BY <3>4
      <4>2. CASE n \in DOMAIN out[c]
        <5>1. p \in Pending(c) /\ p # <<"worker", w>> /\ p # <<"out", Len(out[c]) + 1>>
          BY <2>3, <4>1, <4>2, PendingMember
        <5> QED BY <2>4, <5>1
      <4>3. CASE n = Len(out[c]) + 1
        <5>1. Owes(w, c)
          BY <1>1, <2>1, <2>3, <4>1, <4>3 DEF Owes, o
        <5>2. <<"worker", w>> \in Pending(c)
          BY <5>1, PendingMember
        <5> QED BY <2>4, <4>1, <4>3, <5>2
      <4> QED BY <2>3, <4>2, <4>3
    <3> QED BY <3>1, <3>2, <3>3, <3>4
  <2>5. \A x, y \in Pending(c)' : f[x] = f[y] => x = y
    <3> HIDE DEF f
    <3> QED BY <2>4
  <2>6. f \in [Pending(c)' -> Pending(c)]
    BY <2>4
  <2> HIDE DEF f
  <2> QED BY <2>5, <2>6 DEF Injects
<1> QED BY <1>5, <1>6

LEMMA PendingWorker ==
    ASSUME TypeOK, RepliesInv, NEW w \in Workers, Worker(w), NEW c \in Conns
    PROVE Injects(Pending(c)', Pending(c)) /\ waiting'[c] = waiting[c]
<1>1. waiting'[c] = waiting[c]
  BY DEF Worker
<1>2. CASE Take(w)
  BY <1>1, <1>2, PendingTake
<1>3. CASE \/ ProcAuth(w) \/ RefuseRegistration(w) \/ RegisterClient(w) \/ AppendMethods(w)
           \/ ProcUpdateStatus(w) \/ NoServer(w) \/ (\E s \in Conns : ProcRouteRpc(w, s))
           \/ ResultWithoutTask(w) \/ ResultReturned(w) \/ NoHandler(w) \/ ExitHandler(w)
  BY <1>1, <1>3, HandlerReplies, PendingAnswer, InjectsSubset
<1>4. CASE \/ RegisterClientMethods(w) \/ GetCidVariants(w)
           \/ SendNil(w) \/ SendLookup(w) \/ SendClosed(w)
           \/ \E s \in Conns : SkipBusy(w, s)
  <2>0. worker \in [Workers -> CommandTypes \cup {"idle", "append", "pick", "send"}]
    BY DEF TypeOK, WorkersOK
  <2>1. /\ UNCHANGED <<in, out, outs, job>>
        /\ \/ UNCHANGED worker
           \/ /\ worker[w] \in {"reg", "external"}
              /\ \E place \in {"append", "pick"} : worker' = [worker EXCEPT ![w] = place]
    BY <1>4 DEF RegisterClientMethods, GetCidVariants, SendNil, SendLookup, SendClosed,
        SkipBusy, line, work
  <2>1a. \A v \in Workers :
            \/ worker'[v] = worker[v]
            \/ worker[v] \notin {"idle", "send"} /\ worker'[v] # "send"
    <3>1. CASE UNCHANGED worker
      BY <3>1
    <3>2. ASSUME NEW place \in {"append", "pick"}, worker' = [worker EXCEPT ![w] = place],
                 worker[w] \in {"reg", "external"}
          PROVE \A v \in Workers :
                    \/ worker'[v] = worker[v]
                    \/ worker[v] \notin {"idle", "send"} /\ worker'[v] # "send"
      BY <2>0, <3>2
    <3> QED BY <2>1, <3>1, <3>2
  <2>2. Pending(c)' \subseteq Pending(c)
    BY <2>1, <2>1a DEF Pending, Owes, Push
  <2> QED BY <1>1, <2>2, InjectsSubset
<1>5. CASE SendMissed(w) \/ Send(w)
  BY <1>1, <1>5, PendingSend
<1> QED BY <1>2, <1>3, <1>4, <1>5 DEF Worker

-----------------------------------------------------------------------------
\* Answers are awaited

LEMMA RepliesKept ==
    ASSUME RepliesInv, UNCHANGED outs,
           \A c \in Conns : \A n \in DOMAIN out'[c] :
               \E k \in DOMAIN out[c] : out'[c][n] = out[c][k]
    PROVE RepliesInv'
BY DEF RepliesInv, Push

LEMMA RepliesWorker ==
    ASSUME TypeOK, RepliesInv, NEW w \in Workers, Worker(w) PROVE RepliesInv'
<1>1. CASE \/ ProcAuth(w) \/ RefuseRegistration(w) \/ RegisterClient(w) \/ AppendMethods(w)
           \/ ProcUpdateStatus(w) \/ NoServer(w) \/ (\E s \in Conns : ProcRouteRpc(w, s))
           \/ ResultWithoutTask(w) \/ ResultReturned(w) \/ NoHandler(w) \/ ExitHandler(w)
  <2>1. PICK is \in Seq(Instruction) :
            /\ Answer(w, is) /\ \A n \in DOMAIN is : n # 1 => Push(is[n])
            /\ \A n \in DOMAIN is : Push(is[n]) => is[n].change = NoChange
    BY <1>1, HandlerReplies
  <2>2. outs'[w] = is /\ (\A v \in Workers : v # w => outs'[v] = outs[v]) /\ UNCHANGED out
    BY <2>1 DEF Answer, line, TypeOK, WorkersOK
  <2> QED BY <2>1, <2>2 DEF RepliesInv, Push
<1>2. CASE \/ Take(w) \/ RegisterClientMethods(w) \/ GetCidVariants(w)
           \/ SendNil(w) \/ SendLookup(w) \/ SendClosed(w)
           \/ \E s \in Conns : SkipBusy(w, s)
  <2>1. UNCHANGED <<outs, out>>
    BY <1>2 DEF Take, RegisterClientMethods, GetCidVariants, SendNil, SendLookup, SendClosed,
        SkipBusy, line, work
  <2> QED BY <2>1, RepliesKept
<1>3. CASE SendMissed(w) \/ Send(w)
  <2> DEFINE o == outs[w][1]
  <2>1. outs[w] \in Seq(Instruction) /\ outs[w] # <<>>
    BY <1>3, SentOne
  <2>2. /\ o \in Instruction /\ o = Head(outs[w]) /\ 1 \in DOMAIN outs[w]
        /\ \A n \in DOMAIN Tail(outs[w]) :
              n + 1 \in DOMAIN outs[w] /\ Tail(outs[w])[n] = outs[w][n + 1]
        /\ DOMAIN Tail(outs[w]) \subseteq Nat \ {0}
    BY <2>1, TailElements, LenProperties
  <2>3. outs'[w] = Tail(outs[w]) /\ \A v \in Workers : v # w => outs'[v] = outs[v]
    BY <1>3, SentOne DEF Rest, TypeOK, WorkersOK
  <2>4. \A v \in Workers : \A n \in DOMAIN outs'[v] :
            /\ n # 1 => Push(outs'[v][n])
            /\ Push(outs'[v][n]) => outs'[v][n].change = NoChange
    <3> SUFFICES ASSUME NEW n \in DOMAIN outs'[w]
                 PROVE Push(outs'[w][n]) /\ outs'[w][n].change = NoChange
      BY <2>3 DEF RepliesInv
    <3>1. n + 1 \in DOMAIN outs[w] /\ outs'[w][n] = outs[w][n + 1] /\ n + 1 # 1
      BY <2>2, <2>3
    <3> QED BY <3>1 DEF RepliesInv
  <2>5. \A c \in Conns : \A n \in DOMAIN out'[c] :
            (n \in DOMAIN out[c] /\ out'[c][n] = out[c][n]) \/ out'[c][n] = o
    <3>1. UNCHANGED out \/ out' = [out EXCEPT ![o.to] = Append(@, o)]
      BY <1>3, <2>2, SentOne
    <3>2. CASE out' = [out EXCEPT ![o.to] = Append(@, o)]
      <4>1. o.to \in Conns /\ out[o.to] \in Seq(Instruction)
        BY <2>2 DEF Instruction, TypeOK, WritersOK
      <4>2. \A n \in DOMAIN Append(out[o.to], o) :
                \/ n \in DOMAIN out[o.to] /\ Append(out[o.to], o)[n] = out[o.to][n]
                \/ Append(out[o.to], o)[n] = o
        BY <2>2, <4>1, AppendElements
      <4>3. out'[o.to] = Append(out[o.to], o) /\ \A c \in Conns : c # o.to => out'[c] = out[c]
        BY <3>2, <4>1 DEF TypeOK, WritersOK
      <4> HIDE DEF o
      <4> QED BY <4>2, <4>3
    <3> QED BY <3>1, <3>2
  <2>6. Push(o) => o.change = NoChange
    BY <2>2 DEF RepliesInv
  <2> HIDE DEF o
  <2>7. \A c \in Conns : \A n \in DOMAIN out'[c] : Push(out'[c][n]) => out'[c][n].change = NoChange
    BY <2>5, <2>6 DEF RepliesInv
  <2> QED BY <2>4, <2>7 DEF RepliesInv, Push
<1> QED BY <1>1, <1>2, <1>3 DEF Worker

LEMMA RepliesWriter ==
    ASSUME TypeOK, RepliesInv, NEW d \in Conns, Writer(d) PROVE RepliesInv'
<1>1. UNCHANGED outs
  BY DEF Writer, work
<1>2. CASE UNCHANGED out
  BY <1>1, <1>2, RepliesKept
<1>3. CASE Write(d) \/ WriteError(d)
  <2>1. out[d] # <<>> /\ out[d] \in Seq(Instruction)
    BY <1>3 DEF Write, WriteError, TypeOK, WritersOK
  <2>2. out'[d] = Tail(out[d]) /\ \A c \in Conns : c # d => out'[c] = out[c]
    BY <1>3 DEF Write, WriteError, TypeOK, WritersOK
  <2>3. \A n \in DOMAIN Tail(out[d]) : n + 1 \in DOMAIN out[d] /\ Tail(out[d])[n] = out[d][n + 1]
    BY <2>1, TailElements
  <2>4. \A c \in Conns : \A n \in DOMAIN out'[c] :
            \E k \in DOMAIN out[c] : out'[c][n] = out[c][k]
    BY <2>2, <2>3
  <2> QED BY <1>1, <2>4, RepliesKept
<1> QED BY <1>2, <1>3 DEF Writer, CloseSocket, EndWriter, UpdateState, UpdateStateNil

LEMMA RepliesNext == TypeOK /\ RepliesInv /\ [Next]_vars => RepliesInv'
<1> SUFFICES ASSUME TypeOK, RepliesInv, [Next]_vars PROVE RepliesInv'
  OBVIOUS
<1>1. CASE UNCHANGED <<outs, out>>
  BY <1>1, RepliesKept
<1>2. ASSUME NEW d \in Conns, Peer(d) \/ Reader(d) PROVE UNCHANGED <<outs, out>>
  BY <1>2 DEF Peer, Reader, NewConnection, PeerBreak, Processing, LookGroup, CreateGroup,
              AppendBackChannel, Put, ReadError, LeaveServers, RemoveBackChannel, Delete,
              RemoveConnection, Close, line, work
<1>3. UNCHANGED vars => UNCHANGED <<outs, out>>
  BY DEF vars, line, work
<1> QED BY <1>1, <1>2, <1>3, RepliesWorker, RepliesWriter DEF Next

\* What a step does to the commands of a connection that are pending: one more is
\* awaited, one is answered, or each of them keeps a place.
LEMMA PendingNext ==
    ASSUME TypeOK, RepliesInv, [Next]_vars, NEW c \in Conns
    PROVE \/ Injects(Pending(c)', Pending(c)) /\ waiting'[c] = waiting[c]
          \/ /\ Pending(c)' \subseteq Pending(c) \cup {<<"in", Len(in) + 1>>}
             /\ waiting'[c] = waiting[c] + 1
          \/ /\ <<"out", 1>> \in Pending(c) /\ waiting'[c] = waiting[c] - 1
             /\ Injects(Pending(c)', Pending(c) \ {<<"out", 1>>})
<1>1. CASE UNCHANGED vars
  <2>1. UNCHANGED <<in, worker, job, outs, out, waiting>>
    BY <1>1 DEF vars, work, line
  <2> QED BY <2>1, InjectsSubset DEF Pending, Owes
<1>2. ASSUME NEW d \in Conns, Peer(d) \/ Reader(d)
      PROVE \/ Injects(Pending(c)', Pending(c)) /\ waiting'[c] = waiting[c]
            \/ /\ Pending(c)' \subseteq Pending(c) \cup {<<"in", Len(in) + 1>>}
               /\ waiting'[c] = waiting[c] + 1
  BY <1>2, PendingPeer, PendingReader, InjectsSubset
<1>3. CASE \E d \in Conns : Writer(d)
  BY <1>3, PendingWriter
<1>4. CASE \E w \in Workers : Worker(w)
  BY <1>4, PendingWorker
<1> QED BY <1>1, <1>2, <1>3, <1>4 DEF Next

LEMMA AnswerInvariant == Spec => []AnswerInv
<1>1. Init => AnswerInv
  <2> SUFFICES ASSUME Init PROVE AnswerInv
    OBVIOUS
  <2>1. /\ in = <<>> /\ \A w \in Workers : worker[w] = "idle" /\ outs[w] = <<>>
        /\ \A c \in Conns : out[c] = <<>> /\ waiting[c] = 0
    BY DEF Init
  <2>2. \A c \in Conns : Pending(c) = {}
    BY <2>1 DEF Pending, Owes
  <2>3. RepliesInv
    BY <2>1 DEF RepliesInv
  <2> QED BY <2>1, <2>2, <2>3, TypeInit, FS_EmptySet DEF AnswerInv, Enough
<1>2. AnswerInv /\ [Next]_vars => AnswerInv'
  <2> SUFFICES ASSUME AnswerInv, [Next]_vars PROVE AnswerInv'
    OBVIOUS
  <2>1. TypeOK' /\ RepliesInv'
    BY TypeNext, RepliesNext DEF AnswerInv
  <2>2. ASSUME NEW c \in Conns PROVE Enough(c)'
    <3>1. waiting[c] \in Int /\ IsFiniteSet(Pending(c)) /\ Cardinality(Pending(c)) <= waiting[c]
      BY DEF AnswerInv, Enough, TypeOK, ConnectionsOK
    <3>2. IsFiniteSet(Pending(c)') /\ Cardinality(Pending(c)') <= waiting'[c]
      <4>1. TypeOK /\ RepliesInv
        BY DEF AnswerInv
      <4>2. CASE Injects(Pending(c)', Pending(c)) /\ waiting'[c] = waiting[c]
        BY <3>1, <4>2, EnoughSmaller
      <4>3. CASE /\ Pending(c)' \subseteq Pending(c) \cup {<<"in", Len(in) + 1>>}
                 /\ waiting'[c] = waiting[c] + 1
        <5>1. PICK x : Pending(c)' \subseteq Pending(c) \cup {x}
          BY <4>3
        <5> DEFINE T == Pending(c)'
        <5>2. T \subseteq Pending(c) \cup {x}
          BY <5>1
        <5> HIDE DEF T
        <5>3. IsFiniteSet(T) /\ Cardinality(T) <= waiting[c] + 1
          BY <3>1, <5>2, EnoughMore
        <5> QED BY <4>3, <5>3 DEF T
      <4>4. CASE /\ <<"out", 1>> \in Pending(c) /\ waiting'[c] = waiting[c] - 1
                 /\ Injects(Pending(c)', Pending(c) \ {<<"out", 1>>})
        BY <3>1, <4>4, EnoughLess
      <4> QED BY <4>1, <4>2, <4>3, <4>4, PendingNext
    <3> QED BY <3>2 DEF Enough
  <2> QED BY <2>1, <2>2 DEF AnswerInv
<1> QED BY <1>1, <1>2, PTL DEF Spec

\* No handler answers twice, whatever it has to push, and none answers for another:
\* every answer that the writer writes finds a command that waits for it.
THEOREM AnswersOnce == Spec => []AnswersAwaited
<1>1. AnswerInv => AnswersAwaited
  <2> SUFFICES ASSUME AnswerInv, NEW c \in Conns PROVE waiting[c] >= 0
    BY DEF AnswersAwaited
  <2>1. /\ waiting[c] \in Int /\ Cardinality(Pending(c)) \in Nat
        /\ Cardinality(Pending(c)) <= waiting[c]
    BY FS_CardinalityType DEF AnswerInv, Enough, TypeOK, ConnectionsOK
  <2> QED BY <2>1
<1> QED BY <1>1, AnswerInvariant, PTL

-----------------------------------------------------------------------------
\* The status settles as the peer last asked, when it works in lockstep

\* Of a peer that waits for one answer at most, one command at most is pending.
LEMMA OnlyOne ==
    ASSUME NEW c \in Conns, TypeOK, Enough(c), waiting[c] <= 1, NEW p \in Pending(c)
    PROVE waiting[c] = 1 /\ Pending(c) = {p}
<1>1. Cardinality(Pending(c)) \in Nat /\ IsFiniteSet(Pending(c)) /\ waiting[c] \in Int
  BY FS_CardinalityType DEF Enough, TypeOK, ConnectionsOK
<1>2. Cardinality(Pending(c)) # 0
  BY <1>1, FS_EmptySet
<1>3. Cardinality(Pending(c)) = 1 /\ waiting[c] = 1
  BY <1>1, <1>2 DEF Enough
<1>4. \E x : Pending(c) = {x}
  BY <1>1, <1>3, FS_Singleton
<1> QED BY <1>3, <1>4

\* Where a command is that asks for a status.
LEMMA AsksPlaces ==
    ASSUME TypeOK, NEW c \in Conns, NEW s \in 1..3, Asks(c, s)
    PROVE \/ \E n \in DOMAIN in : in[n].cid = c /\ JobStatus(in[n]) = s /\ <<"in", n>> \in Pending(c)
          \/ \E w \in Workers :
                /\ worker[w] \in {"status", "result"} /\ job[w].cid = c /\ JobStatus(job[w]) = s
                /\ <<"worker", w>> \in Pending(c)
          \/ \E w \in Workers :
                /\ worker[w] = "send" /\ Owes(w, c) /\ outs[w][1].change = <<"status", s>>
                /\ <<"worker", w>> \in Pending(c)
          \/ \E n \in DOMAIN out[c] :
                /\ ~Push(out[c][n]) /\ out[c][n].change = <<"status", s>>
                /\ <<"out", n>> \in Pending(c)
<1>1. \A w \in Workers : worker[w] \in {"status", "result"} /\ job[w].cid = c => Owes(w, c)
  BY DEF Owes
<1> QED BY <1>1, PendingMember DEF Asks

\* What no step but a command, or the writing of its answer, may break.
LEMMA StatusKept ==
    ASSUME TypeOK, NEW c \in Conns, StatusFor(c),
           UNCHANGED <<waiting[c], last[c]>>, reader'[c] = "none" => reader[c] = "none",
           Injects(Pending(c)', Pending(c)),
           \A s \in 1..3 : /\ Asks(c, s)' => Asks(c, s)
                           /\ Asks(c, s) => Asks(c, s)' \/ Forlorn(c)',
           last[c] # 0 => \A s \in 1..3 : Holds(c, s) => Holds(c, s)'
    PROVE StatusFor(c)'
<1>1. Forlorn(c) => Forlorn(c)'
  BY InjectsEmpty DEF Forlorn
<1>2. last[c] \in 0..3
  BY DEF TypeOK, HistoryOK
<1>3. last'[c] # 0 => Asks(c, last[c])' \/ Forlorn(c)' \/ Holds(c, last[c])'
  <2> SUFFICES ASSUME last[c] # 0
               PROVE Asks(c, last[c])' \/ Forlorn(c)' \/ Holds(c, last[c])'
    OBVIOUS
  <2>1. last[c] \in 1..3
    BY <1>2
  <2> QED BY <1>1, <2>1 DEF StatusFor
<1>4. waiting'[c] <= 1 /\ (reader'[c] = "none" => last'[c] = 0)
      /\ \A s \in 1..3 : Asks(c, s)' => s = last'[c]
  BY DEF StatusFor
<1>5. last'[c] # 0 => Asks(c, last[c])' \/ Forlorn(c)' \/ Holds(c, last[c])'
  BY <1>3
<1>6. last'[c] = last[c]
  OBVIOUS
<1> QED BY <1>4, <1>5, <1>6 DEF StatusFor, Asks, Holds, Forlorn, Owes, Push, Pending

\* A command keeps what it asks for while a worker takes it ...
LEMMA AsksTake ==
    ASSUME TypeOK, NEW w \in Workers, Take(w), NEW c \in Conns, NEW s \in 1..3
    PROVE Asks(c, s)' <=> Asks(c, s)
<1>1. in \in Seq(Job) /\ in # <<>> /\ in' = Tail(in) /\ worker[w] = "idle" /\ UNCHANGED <<out, outs>>
  BY DEF Take, TypeOK, WorkersOK, line
<1>2. /\ Len(in) \in Nat /\ DOMAIN in = 1..Len(in) /\ DOMAIN in' = 1..(Len(in) - 1)
      /\ \A n \in DOMAIN in' : in'[n] = in[n + 1]
      /\ 1 \in DOMAIN in /\ Head(in) = in[1]
  BY <1>1, TailElements, LenProperties, HeadTailProperties
<1>3. /\ worker'[w] = in[1].type /\ job'[w] = in[1] /\ in[1].type \notin {"idle", "send"}
      /\ \A v \in Workers : v # w => worker'[v] = worker[v] /\ job'[v] = job[v]
  <2>1. in[1] \in Job
    BY <1>1, <1>2
  <2>2. in[1].type \notin {"idle", "send"}
    BY <2>1 DEF Job, CommandTypes
  <2>3. /\ job' = [job EXCEPT ![w] = in[1]] /\ worker' = [worker EXCEPT ![w] = in[1].type]
    BY <1>2 DEF Take
  <2> QED BY <2>2, <2>3 DEF TypeOK, WorkersOK
<1>4. \A v \in Workers : worker[v] = "send" \/ worker'[v] = "send" =>
          v # w /\ worker'[v] = worker[v] /\ (Owes(v, c)' <=> Owes(v, c))
  BY <1>1, <1>3 DEF Owes, Push
<1>5. ASSUME Asks(c, s)' PROVE Asks(c, s)
  <2>1. CASE \E n \in DOMAIN in' : in'[n].cid = c /\ JobStatus(in'[n]) = s
    <3>1. PICK n \in DOMAIN in' : in'[n].cid = c /\ JobStatus(in'[n]) = s
      BY <2>1
    <3>2. n + 1 \in DOMAIN in /\ in'[n] = in[n + 1]
      BY <1>2
    <3> QED BY <3>1, <3>2 DEF Asks
  <2>2. CASE \E v \in Workers : /\ worker'[v] \in {"status", "result"} /\ job'[v].cid = c
                                /\ JobStatus(job'[v]) = s
    BY <1>2, <1>3, <2>2 DEF Asks
  <2>3. CASE \E v \in Workers : /\ worker'[v] = "send" /\ Owes(v, c)'
                                /\ outs'[v][1].change = <<"status", s>>
    BY <1>1, <1>4, <2>3 DEF Asks
  <2>4. CASE \E n \in DOMAIN out[c] : ~Push(out[c][n]) /\ out[c][n].change = <<"status", s>>
    BY <2>4 DEF Asks
  <2> QED BY <1>1, <1>5, <2>1, <2>2, <2>3, <2>4 DEF Asks, JobStatus, Push
<1>6. ASSUME Asks(c, s) PROVE Asks(c, s)'
  <2>1. CASE \E n \in DOMAIN in : in[n].cid = c /\ JobStatus(in[n]) = s
    <3>1. PICK n \in DOMAIN in : in[n].cid = c /\ JobStatus(in[n]) = s
      BY <2>1
    <3>2. CASE n = 1
      <4>1. in[1].type \in {"status", "result"}
        BY <3>1, <3>2 DEF JobStatus
      <4>2. worker'[w] \in {"status", "result"} /\ job'[w].cid = c /\ JobStatus(job'[w]) = s
        BY <1>3, <3>1, <3>2, <4>1
      <4> QED BY <4>2 DEF Asks, JobStatus
    <3>3. CASE n # 1
      <4>1. n - 1 \in DOMAIN in' /\ in'[n - 1] = in[n]
        BY <1>2, <3>3
      <4> QED BY <3>1, <4>1 DEF Asks, JobStatus
    <3> QED BY <3>2, <3>3
  <2>2. CASE \E v \in Workers : /\ worker[v] \in {"status", "result"} /\ job[v].cid = c
                                /\ JobStatus(job[v]) = s
    <3>1. PICK v \in Workers : /\ worker[v] \in {"status", "result"} /\ job[v].cid = c
                               /\ JobStatus(job[v]) = s
      BY <2>2
    <3>2. worker'[v] = worker[v] /\ job'[v] = job[v]
      BY <1>1, <1>3, <3>1
    <3> QED BY <3>1, <3>2 DEF Asks, JobStatus
  <2>3. CASE \E v \in Workers : /\ worker[v] = "send" /\ Owes(v, c)
                                /\ outs[v][1].change = <<"status", s>>
    BY <1>1, <1>4, <2>3 DEF Asks
  <2>4. CASE \E n \in DOMAIN out[c] : ~Push(out[c][n]) /\ out[c][n].change = <<"status", s>>
    BY <1>1, <2>4 DEF Asks, Push
  <2> QED BY <1>6, <2>1, <2>2, <2>3, <2>4 DEF Asks
<1> QED BY <1>5, <1>6

\* ... and handles it ...
LEMMA AsksAnswer ==
    ASSUME TypeOK, NEW w \in Workers, worker[w] \notin {"idle", "send"},
           NEW is \in Seq(Instruction), Answer(w, is), is # <<>>, is[1].to = job[w].cid,
           ~Push(is[1]), NEW c \in Conns, NEW s \in 1..3,
           is[1].change = <<"status", s>> <=>
               worker[w] \in {"status", "result"} /\ JobStatus(job[w]) = s
    PROVE Asks(c, s)' <=> Asks(c, s)
<1>1. /\ outs'[w] = is /\ worker'[w] = "send"
      /\ \A v \in Workers : v # w => outs'[v] = outs[v] /\ worker'[v] = worker[v]
      /\ UNCHANGED <<job, in, out>>
  BY DEF Answer, line, TypeOK, WorkersOK
<1>2. \A v \in Workers : v # w => (Owes(v, c)' <=> Owes(v, c))
  BY <1>1 DEF Owes, Push
<1>3. Owes(w, c)' <=> job[w].cid = c
  BY <1>1 DEF Owes, Push
<1>4. (\E v \in Workers : worker[v] = "send" /\ Owes(v, c) /\ outs[v][1].change = <<"status", s>>)
      => \E v \in Workers :
            worker'[v] = "send" /\ Owes(v, c)' /\ outs'[v][1].change = <<"status", s>>
  BY <1>1, <1>2
<1>5. (\E v \in Workers :
          worker[v] \in {"status", "result"} /\ job[v].cid = c /\ JobStatus(job[v]) = s)
      => \/ \E v \in Workers : /\ worker'[v] \in {"status", "result"} /\ job'[v].cid = c
                               /\ JobStatus(job[v]) = s
         \/ worker'[w] = "send" /\ Owes(w, c)' /\ outs'[w][1].change = <<"status", s>>
  BY <1>1, <1>3
<1>6. \A v \in Workers : worker'[v] = "send" /\ Owes(v, c)' /\ outs'[v][1].change = <<"status", s>> =>
          \/ worker[v] = "send" /\ Owes(v, c) /\ outs[v][1].change = <<"status", s>>
          \/ worker[v] \in {"status", "result"} /\ job[v].cid = c /\ JobStatus(job[v]) = s
  BY <1>1, <1>2, <1>3
<1>7. Asks(c, s)' => Asks(c, s)
  BY <1>1, <1>6 DEF Asks, JobStatus, Push
<1>8. ASSUME Asks(c, s) PROVE Asks(c, s)'
  <2>1. CASE \E n \in DOMAIN in : in[n].cid = c /\ JobStatus(in[n]) = s
    BY <1>1, <2>1 DEF Asks, JobStatus
  <2>2. CASE \E v \in Workers : /\ worker[v] \in {"status", "result"} /\ job[v].cid = c
                                /\ JobStatus(job[v]) = s
    <3>1. CASE \E v \in Workers : /\ worker'[v] \in {"status", "result"} /\ job'[v].cid = c
                                  /\ JobStatus(job[v]) = s
      BY <1>1, <3>1 DEF Asks, JobStatus
    <3>2. CASE worker'[w] = "send" /\ Owes(w, c)' /\ outs'[w][1].change = <<"status", s>>
      BY <3>2 DEF Asks
    <3> QED BY <1>5, <2>2, <3>1, <3>2
  <2>3. CASE \E v \in Workers : /\ worker[v] = "send" /\ Owes(v, c)
                                /\ outs[v][1].change = <<"status", s>>
    BY <1>4, <2>3 DEF Asks
  <2>4. CASE \E n \in DOMAIN out[c] : ~Push(out[c][n]) /\ out[c][n].change = <<"status", s>>
    BY <1>1, <2>4 DEF Asks, Push
  <2> QED BY <1>8, <2>1, <2>2, <2>3, <2>4 DEF Asks
<1> QED BY <1>7, <1>8

\* ... and its answer until it is written, or lost.
LEMMA AsksSend ==
    ASSUME TypeOK, RepliesInv, NEW w \in Workers, SendMissed(w) \/ Send(w), NEW c \in Conns, Enough(c),
           waiting[c] <= 1, UNCHANGED waiting, NEW s \in 1..3
    PROVE /\ Asks(c, s)' => Asks(c, s)
          /\ Asks(c, s) => Asks(c, s)' \/ Forlorn(c)'
<1> DEFINE o == outs[w][1]
<1>1. outs[w] \in Seq(Instruction) /\ outs[w] # <<>> /\ worker[w] = "send"
  BY SentOne
<1>2. /\ o \in Instruction /\ o = Head(outs[w])
      /\ \A n \in DOMAIN Tail(outs[w]) : n + 1 \in DOMAIN outs[w] /\ Tail(outs[w])[n] = outs[w][n + 1]
      /\ Tail(outs[w]) \in Seq(Instruction)
  BY <1>1, TailElements
<1>3. /\ outs'[w] = Tail(outs[w]) /\ worker'[w] = (IF outs'[w] = <<>> THEN "idle" ELSE "send")
      /\ \A v \in Workers : v # w => outs'[v] = outs[v] /\ worker'[v] = worker[v]
      /\ UNCHANGED <<job, in>>
  <2>1. /\ outs' = [outs EXCEPT ![w] = Tail(outs[w])]
        /\ worker' = [worker EXCEPT ![w] = IF Tail(outs[w]) = <<>> THEN "idle" ELSE "send"]
        /\ UNCHANGED <<job, in>>
    BY SentOne DEF Rest
  <2> QED BY <2>1 DEF TypeOK, WorkersOK
<1>4. ~Owes(w, c)'
  <2> SUFFICES ASSUME Owes(w, c)' PROVE FALSE
    OBVIOUS
  <2>1. Tail(outs[w]) # <<>> /\ ~Push(Tail(outs[w])[1])
    BY <1>3 DEF Owes, Push
  <2>2. 1 \in DOMAIN Tail(outs[w])
    BY <1>2, <2>1, TailElements
  <2>3. Tail(outs[w])[1] = outs[w][2] /\ 2 \in DOMAIN outs[w]
    BY <1>2, <2>2
  <2> QED BY <2>1, <2>3 DEF RepliesInv
<1>5. \A v \in Workers : v # w => (Owes(v, c)' <=> Owes(v, c))
  BY <1>3 DEF Owes, Push
<1>6. \/ /\ o.to = c /\ Len(out[c]) + 1 \in DOMAIN out'[c] /\ out'[c][Len(out[c]) + 1] = o
         /\ \A n \in DOMAIN out'[c] : n \in DOMAIN out[c] \/ out'[c][n] = o
         /\ \A n \in DOMAIN out[c] : n \in DOMAIN out'[c] /\ out'[c][n] = out[c][n]
      \/ out'[c] = out[c]
  <2> SUFFICES ASSUME out'[c] # out[c]
               PROVE /\ o.to = c /\ Len(out[c]) + 1 \in DOMAIN out'[c]
                     /\ out'[c][Len(out[c]) + 1] = o
                     /\ \A n \in DOMAIN out'[c] : n \in DOMAIN out[c] \/ out'[c][n] = o
                     /\ \A n \in DOMAIN out[c] : n \in DOMAIN out'[c] /\ out'[c][n] = out[c][n]
    OBVIOUS
  <2>1. o.to = c /\ out'[c] = Append(out[c], o)
    <3>1. /\ o.to \in Conns
          /\ UNCHANGED out \/ out' = [out EXCEPT ![o.to] = Append(@, o)]
      BY <1>2, SentOne
    <3> HIDE DEF o
    <3> QED BY <3>1 DEF TypeOK, WritersOK
  <2>2. out[c] \in Seq(Instruction)
    BY DEF TypeOK, WritersOK
  <2>3. /\ Len(out[c]) \in Nat /\ DOMAIN out[c] = 1..Len(out[c])
        /\ DOMAIN out'[c] = 1..(Len(out[c]) + 1)
        /\ out'[c][Len(out[c]) + 1] = o /\ \A n \in DOMAIN out[c] : out'[c][n] = out[c][n]
    BY <1>2, <2>1, <2>2, AppendProperties, LenProperties
  <2> QED BY <2>1, <2>3
<1> HIDE DEF o
<1>7. worker[w] = "send" /\ Owes(w, c) /\ o = outs[w][1]
      <=> o.to = c /\ ~Push(o)
  BY <1>1 DEF Owes, o
<1>8. ASSUME Asks(c, s)' PROVE Asks(c, s)
  <2>1. CASE \E n \in DOMAIN in' : in'[n].cid = c /\ JobStatus(in'[n]) = s
    BY <1>3, <2>1 DEF Asks
  <2>2. CASE \E v \in Workers : /\ worker'[v] \in {"status", "result"} /\ job'[v].cid = c
                                /\ JobStatus(job'[v]) = s
    BY <1>3, <2>2 DEF Asks
  <2>3. CASE \E v \in Workers : /\ worker'[v] = "send" /\ Owes(v, c)'
                                /\ outs'[v][1].change = <<"status", s>>
    BY <1>3, <1>4, <1>5, <2>3 DEF Asks
  <2>4. CASE \E n \in DOMAIN out'[c] : ~Push(out'[c][n]) /\ out'[c][n].change = <<"status", s>>
    <3>1. PICK n \in DOMAIN out'[c] : ~Push(out'[c][n]) /\ out'[c][n].change = <<"status", s>>
      BY <2>4
    <3>2. CASE n \in DOMAIN out[c] /\ out'[c][n] = out[c][n]
      BY <3>1, <3>2 DEF Asks
    <3>3. CASE o.to = c /\ out'[c][n] = o
      <4>1. Owes(w, c) /\ outs[w][1].change = <<"status", s>>
        BY <1>7, <3>1, <3>3 DEF o
      <4> QED BY <1>1, <4>1 DEF Asks
    <3> QED BY <1>6, <3>1, <3>2, <3>3
  <2> QED BY <1>8, <2>1, <2>2, <2>3, <2>4 DEF Asks, JobStatus, Push
<1>9. ASSUME Asks(c, s), ~Asks(c, s)' PROVE Forlorn(c)'
  <2>1. Owes(w, c) /\ o.change = <<"status", s>>
    <3>1. ~\E n \in DOMAIN in : in[n].cid = c /\ JobStatus(in[n]) = s
      BY <1>3, <1>9 DEF Asks, JobStatus
    <3>2. ~\E v \in Workers : /\ worker[v] \in {"status", "result"} /\ job[v].cid = c
                              /\ JobStatus(job[v]) = s
      <4> SUFFICES ASSUME NEW v \in Workers, worker[v] \in {"status", "result"}, job[v].cid = c,
                          JobStatus(job[v]) = s
                   PROVE FALSE
        OBVIOUS
      <4>1. worker'[v] = worker[v] /\ job'[v] = job[v]
        BY <1>1, <1>3
      <4> QED BY <1>9, <4>1 DEF Asks, JobStatus
    <3>3. ~\E n \in DOMAIN out[c] : ~Push(out[c][n]) /\ out[c][n].change = <<"status", s>>
      BY <1>6, <1>9 DEF Asks, Push
    <3>4. PICK v \in Workers : worker[v] = "send" /\ Owes(v, c) /\ outs[v][1].change = <<"status", s>>
      BY <1>9, <3>1, <3>2, <3>3 DEF Asks
    <3>5. v = w
      BY <1>3, <1>5, <1>9, <3>4 DEF Asks
    <3> QED BY <3>4, <3>5 DEF o
  <2>2. waiting[c] = 1 /\ Pending(c) = {<<"worker", w>>}
    BY <2>1, PendingMember, OnlyOne
  <2>3. out'[c] = out[c]
    <3> SUFFICES ASSUME out'[c] # out[c] PROVE FALSE
      OBVIOUS
    <3>1. ~Push(o) /\ o.to = c
      BY <1>1, <2>1 DEF Owes, o
    <3> QED BY <1>6, <1>9, <2>1, <3>1 DEF Asks, Push
  <2>4. Pending(c)' = {}
    <3> SUFFICES ASSUME NEW p \in Pending(c)' PROVE FALSE
      OBVIOUS
    <3>1. \/ \E n \in DOMAIN in : in[n].cid = c /\ p = <<"in", n>>
          \/ \E v \in Workers : v # w /\ Owes(v, c) /\ p = <<"worker", v>>
          \/ \E n \in DOMAIN out[c] : ~Push(out[c][n]) /\ p = <<"out", n>>
      BY <1>3, <1>4, <1>5, <2>3 DEF Pending, Push
    <3>2. p \in Pending(c) /\ p # <<"worker", w>>
      BY <3>1, PendingMember
    <3> QED BY <2>2, <3>2
  <2> QED BY <2>2, <2>4 DEF Forlorn
<1> QED BY <1>8, <1>9

LEMMA StatusWorker ==
    ASSUME Lockstep, StatusInv, NEW w \in Workers, Worker(w), NEW c \in Conns
    PROVE StatusFor(c)'
<1>1. /\ TypeOK /\ RepliesInv /\ Enough(c) /\ StatusFor(c) /\ waiting[c] <= 1
  BY DEF StatusInv, AnswerInv, StatusFor
<1>2. UNCHANGED <<waiting, last, reader, writer, cur, state>>
  BY DEF Worker, conn
<1>3. \A s \in 1..3 : Holds(c, s) => Holds(c, s)'
  BY <1>2 DEF Holds
<1>4. Injects(Pending(c)', Pending(c))
  BY <1>1, PendingWorker
<1>5. SUFFICES \A s \in 1..3 : /\ Asks(c, s)' => Asks(c, s)
                               /\ Asks(c, s) => Asks(c, s)' \/ Forlorn(c)'
  BY <1>1, <1>2, <1>3, <1>4, StatusKept
<1>6. CASE Take(w)
  BY <1>1, <1>6, AsksTake
<1>7. CASE \/ ProcAuth(w) \/ RefuseRegistration(w) \/ RegisterClient(w) \/ AppendMethods(w)
           \/ ProcUpdateStatus(w) \/ NoServer(w) \/ (\E s \in Conns : ProcRouteRpc(w, s))
           \/ ResultWithoutTask(w) \/ ResultReturned(w) \/ NoHandler(w) \/ ExitHandler(w)
  <2>1. worker[w] \notin {"idle", "send"}
    BY <1>1, <1>7, HandlerReplies
  <2>2. PICK is \in Seq(Instruction) :
            /\ Answer(w, is) /\ is # <<>> /\ is[1].to = job[w].cid /\ ~Push(is[1])
            /\ \A s \in 1..3 : is[1].change = <<"status", s>> <=>
                  worker[w] \in {"status", "result"} /\ JobStatus(job[w]) = s
    BY <1>1, <1>7, HandlerReplies
  <2> QED BY <1>1, <2>1, <2>2, AsksAnswer
<1>8. CASE \/ RegisterClientMethods(w) \/ GetCidVariants(w)
           \/ SendNil(w) \/ SendLookup(w) \/ SendClosed(w)
           \/ \E s \in Conns : SkipBusy(w, s)
  <2>0. worker \in [Workers -> CommandTypes \cup {"idle", "append", "pick", "send"}]
    BY <1>1 DEF TypeOK, WorkersOK
  <2>1. /\ UNCHANGED <<in, out, outs, job>>
        /\ \/ UNCHANGED worker
           \/ /\ worker[w] \in {"reg", "external"}
              /\ \E place \in {"append", "pick"} : worker' = [worker EXCEPT ![w] = place]
    BY <1>8 DEF RegisterClientMethods, GetCidVariants, SendNil, SendLookup, SendClosed,
        SkipBusy, line, work
  <2>2. \A v \in Workers :
            \/ worker'[v] = worker[v]
            \/ /\ worker[v] \notin {"status", "result", "send"}
               /\ worker'[v] \notin {"status", "result", "send"}
    <3>1. CASE UNCHANGED worker
      BY <3>1
    <3>2. ASSUME NEW place \in {"append", "pick"}, worker' = [worker EXCEPT ![w] = place],
                 worker[w] \in {"reg", "external"}
          PROVE \A v \in Workers :
                    \/ worker'[v] = worker[v]
                    \/ /\ worker[v] \notin {"status", "result", "send"}
                       /\ worker'[v] \notin {"status", "result", "send"}
      BY <2>0, <3>2
    <3> QED BY <2>1, <3>1, <3>2
  <2>3. \A v \in Workers : worker[v] = "send" \/ worker'[v] = "send" =>
            worker'[v] = worker[v] /\ (Owes(v, c)' <=> Owes(v, c))
    BY <2>1, <2>2 DEF Owes, Push
  <2>4. \A s \in 1..3 : Asks(c, s)' <=> Asks(c, s)
    BY <2>1, <2>2, <2>3 DEF Asks, JobStatus, Push
  <2> QED BY <2>4
<1>9. CASE SendMissed(w) \/ Send(w)
  BY <1>1, <1>2, <1>9, AsksSend
<1> QED BY <1>6, <1>7, <1>8, <1>9 DEF Worker

\* The places that a command is in while the writers and the readers work.
LEMMA AsksOut ==
    ASSUME NEW c \in Conns, UNCHANGED <<in, worker, job, outs, out[c]>>, NEW s
    PROVE Asks(c, s)' <=> Asks(c, s)
BY DEF Asks, JobStatus, Owes, Push

LEMMA StatusPeer ==
    ASSUME Lockstep, StatusInv, NEW d \in Conns, Peer(d), NEW c \in Conns
    PROVE StatusFor(c)'
<1>1. /\ TypeOK /\ RpcInv /\ Enough(c) /\ StatusFor(c) /\ waiting[c] <= 1 /\ waiting[c] \in Int
  BY DEF StatusInv, AnswerInv, StatusFor, TypeOK, ConnectionsOK
<1>2. UNCHANGED <<worker, job, outs, out, writer, cur>>
  BY DEF Peer, NewConnection, PeerBreak, Processing, work, line
<1>3. CASE NewConnection(d) \/ PeerBreak(d)
  <2>1. UNCHANGED <<in, waiting, last>> /\ (reader'[c] = "none" => reader[c] = "none")
    BY <1>1, <1>3 DEF NewConnection, PeerBreak, Goto, TypeOK, ConnectionsOK
  <2>2. Injects(Pending(c)', Pending(c))
    BY <1>2, <2>1, InjectsSubset DEF Pending, Owes
  <2>3. \A s \in 1..3 : Asks(c, s)' <=> Asks(c, s)
    BY <1>2, <2>1, AsksOut
  <2>4. last[c] # 0 => \A s \in 1..3 : Holds(c, s) => Holds(c, s)'
    <3>1. last[c] # 0 => state'[c] = state[c]
      BY <1>1, <1>3 DEF NewConnection, PeerBreak, Goto, StatusFor, TypeOK, ConnectionsOK
    <3> QED BY <1>2, <3>1 DEF Holds
  <2> QED BY <1>1, <2>1, <2>2, <2>3, <2>4, StatusKept
<1>4. ASSUME NEW k \in Commands[d], Processing(d, k), c # d PROVE StatusFor(c)'
  <2> DEFINE j == [cid |-> d, type |-> TypeOf(k), arg |-> k[2]]
  <2>1. j.cid = d /\ in \in Seq(Job) /\ in' = Append(in, j) /\ j \in Job
    BY <1>1, <1>4, CommandJob DEF Processing, TypeOK, WorkersOK
  <2> HIDE DEF j
  <2>2. /\ DOMAIN in = 1..Len(in) /\ Len(in) \in Nat /\ DOMAIN in' = 1..(Len(in) + 1)
        /\ in'[Len(in) + 1] = j /\ \A n \in DOMAIN in : in'[n] = in[n]
    BY <2>1, AppendProperties, LenProperties
  <2>3. /\ waiting'[c] = waiting[c] /\ last'[c] = last[c] /\ state'[c] = state[c]
        /\ reader'[c] = reader[c]
    BY <1>1, <1>4 DEF Processing, Goto, TypeOK, ConnectionsOK, HistoryOK
  <2>4. Injects(Pending(c)', Pending(c))
    <3>1. {n \in DOMAIN in' : in'[n].cid = c} = {n \in DOMAIN in : in[n].cid = c}
      BY <1>4, <2>1, <2>2
    <3>2. Pending(c)' = Pending(c)
      BY <1>2, <3>1 DEF Pending, Owes
    <3> QED BY <3>2, InjectsSubset
  <2>5. \A s \in 1..3 : Asks(c, s)' <=> Asks(c, s)
    <3>1. \A n \in DOMAIN in' : in'[n].cid = c => n \in DOMAIN in /\ in'[n] = in[n]
      BY <1>4, <2>1, <2>2
    <3>2. \A n \in DOMAIN in : n \in DOMAIN in' /\ in'[n] = in[n]
      BY <2>2
    <3> QED BY <1>2, <3>1, <3>2 DEF Asks, JobStatus, Owes, Push
  <2>6. \A s \in 1..3 : Holds(c, s) => Holds(c, s)'
    BY <1>2, <2>3 DEF Holds
  <2> QED BY <1>1, <2>3, <2>4, <2>5, <2>6, StatusKept
<1>5. ASSUME NEW k \in Commands[c], Processing(c, k) PROVE StatusFor(c)'
  <2> DEFINE j == [cid |-> c, type |-> TypeOf(k), arg |-> k[2]]
  <2>1. /\ j.cid = c /\ in \in Seq(Job) /\ in' = Append(in, j) /\ j \in Job /\ Fits(j)
        /\ j.type = TypeOf(k) /\ j.arg = k[2]
    BY <1>1, <1>5, CommandJob DEF Processing, TypeOK, WorkersOK
  <2> HIDE DEF j
  <2>2. /\ DOMAIN in = 1..Len(in) /\ Len(in) \in Nat /\ DOMAIN in' = 1..(Len(in) + 1)
        /\ in'[Len(in) + 1] = j /\ \A n \in DOMAIN in : in'[n] = in[n]
    BY <2>1, AppendProperties, LenProperties
  <2>3. waiting[c] = 0 /\ waiting'[c] = 1 /\ state'[c] = state[c] /\ reader'[c] # "none"
    BY <1>1, <1>5 DEF Processing, Goto, TypeOK, ConnectionsOK
  <2>4. Pending(c) = {}
    BY <1>1, <2>3, OnlyOne
  <2>5. \A s \in 1..3 : ~Asks(c, s)
    BY <1>1, <2>4, AsksPlaces
  <2>6. \A s \in 1..3 : Asks(c, s)' <=> JobStatus(j) = s
    <3>1. \A n \in DOMAIN in' : (n \in DOMAIN in /\ in'[n] = in[n]) \/ in'[n] = j
      BY <2>2
    <3>2. \A s \in 1..3 : Asks(c, s)' => JobStatus(j) = s
      <4> SUFFICES ASSUME NEW s \in 1..3, Asks(c, s)', JobStatus(j) # s PROVE FALSE
        OBVIOUS
      <4>1. ~\E n \in DOMAIN in' : in'[n].cid = c /\ JobStatus(in'[n]) = s
        BY <2>5, <3>1 DEF Asks
      <4> QED BY <1>2, <2>5, <4>1 DEF Asks, JobStatus, Owes, Push
    <3>3. Len(in) + 1 \in DOMAIN in'
      BY <2>2
    <3>4. \A s : JobStatus(j) = s => Asks(c, s)'
      BY <2>1, <2>2, <3>3 DEF Asks, JobStatus
    <3> QED BY <3>2, <3>4
  <2>7. /\ JobStatus(j) \in 1..3 => last'[c] = JobStatus(j)
        /\ JobStatus(j) \notin 1..3 => last'[c] = last[c]
    <3>1. (TypeOf(k) = "status" <=> k[1] = "status") /\ (TypeOf(k) = "result" <=> k[1] = "result")
      BY DEF TypeOf
    <3>2. last \in [Conns -> 0..3]
      BY <1>1 DEF TypeOK, HistoryOK
    <3>3. CASE k[1] = "status"
      <4>1. JobStatus(j) = k[2] /\ k[2] \in (1..3) \cup {Nobody} /\ Nobody \notin 1..3
        BY <2>1, <3>1, <3>3, RpcAssumption DEF JobStatus, Fits
      <4>2. last' = IF k[2] # Nobody THEN [last EXCEPT ![c] = k[2]] ELSE last
        BY <1>5, <3>3 DEF Processing
      <4> QED BY <3>2, <4>1, <4>2
    <3>4. CASE k[1] = "result"
      <4>1. last' = [last EXCEPT ![c] = 1] /\ JobStatus(j) = 1
        BY <1>5, <2>1, <3>1, <3>4 DEF Processing, JobStatus, ClientStatusActive
      <4> QED BY <3>2, <4>1
    <3>5. CASE k[1] \notin {"status", "result"}
      <4>1. last' = last /\ JobStatus(j) = 0
        BY <1>5, <2>1, <3>1, <3>5 DEF Processing, JobStatus
      <4> QED BY <4>1
    <3> QED BY <3>3, <3>4, <3>5
  <2>8. last[c] \in 0..3 /\ ~Forlorn(c) /\ \A s \in 1..3 : Holds(c, s) => Holds(c, s)'
    BY <1>1, <1>2, <2>3 DEF TypeOK, HistoryOK, Forlorn, Holds
  <2>9. CASE JobStatus(j) \in 1..3
    <3>1. PICK s \in 1..3 : s = JobStatus(j)
      BY <2>9
    <3>2. Asks(c, s)' /\ last'[c] = s
      BY <2>6, <2>7, <3>1
    <3>3. \A r \in 1..3 : Asks(c, r)' => r = last'[c]
      BY <2>6, <3>1, <3>2
    <3>4. Asks(c, last[c])'
      BY <3>2 DEF Asks, JobStatus
    <3> QED BY <2>3, <3>2, <3>3, <3>4 DEF StatusFor
  <2>10. CASE JobStatus(j) \notin 1..3
    <3>1. last'[c] = last[c] /\ \A s \in 1..3 : ~Asks(c, s)'
      BY <2>6, <2>7, <2>10
    <3>2. last[c] # 0 => Holds(c, last[c])
      BY <1>1, <2>5, <2>8 DEF StatusFor
    <3>3. last'[c] # 0 => Holds(c, last[c])'
      <4> SUFFICES ASSUME last[c] # 0 PROVE Holds(c, last[c])'
        BY <3>1
      <4>1. Holds(c, last[c]) /\ last[c] \in 1..3
        BY <2>8, <3>2
      <4> QED BY <1>2, <2>3, <3>1, <4>1 DEF Holds
    <3> QED BY <2>3, <3>1, <3>3 DEF StatusFor
  <2> QED BY <2>9, <2>10
<1> QED BY <1>3, <1>4, <1>5 DEF Peer

LEMMA StatusReader ==
    ASSUME Lockstep, StatusInv, NEW d \in Conns, Reader(d), NEW c \in Conns
    PROVE StatusFor(c)'
<1>1. TypeOK /\ GroupInv /\ ServerInv /\ StatusFor(c)
  BY DEF StatusInv, AnswerInv, RpcInv
<1>2. /\ UNCHANGED <<in, worker, job, outs, out, waiting, last, cur>>
      /\ reader'[c] = "none" => reader[c] = "none"
      /\ state'[c] = state[c] \/ state'[c] = Nobody
  BY <1>1 DEF Reader, LookGroup, CreateGroup, AppendBackChannel, Put, ReadError, LeaveServers,
              RemoveBackChannel, Delete, RemoveConnection, Close, Goto, work, line, TypeOK,
              ConnectionsOK
<1>3. writer'[c] = writer[c] \/ (writer[c] = "none" /\ writer'[c] = "recv")
  <2>1. CASE Put(d)
    <3>1. writer[d] = "none" /\ writer' = [writer EXCEPT ![d] = "recv"]
      BY <1>1, <2>1 DEF Put, Goto, GroupInv, ServerInv
    <3> QED BY <1>1, <3>1 DEF TypeOK, WritersOK
  <2>2. CASE UNCHANGED writer
    BY <2>2
  <2> QED BY <2>1, <2>2 DEF Reader, LookGroup, CreateGroup, AppendBackChannel, ReadError,
                            LeaveServers, RemoveBackChannel, Delete, RemoveConnection, Close
<1>4. Injects(Pending(c)', Pending(c))
  BY <1>2, InjectsSubset DEF Pending, Owes
<1>5. \A s \in 1..3 : Asks(c, s)' <=> Asks(c, s)
  BY <1>2, AsksOut
<1>6. \A s \in 1..3 : Holds(c, s) => Holds(c, s)'
  BY <1>2, <1>3 DEF Holds
<1> QED BY <1>1, <1>2, <1>4, <1>5, <1>6, StatusKept

LEMMA StatusWriter ==
    ASSUME Lockstep, StatusInv, NEW d \in Conns, Writer(d), NEW c \in Conns
    PROVE StatusFor(c)'
<1>1. /\ TypeOK /\ RepliesInv /\ Enough(c) /\ StatusFor(c) /\ waiting[c] <= 1
      /\ waiting[c] \in Int /\ last[c] \in 0..3
  BY DEF StatusInv, AnswerInv, StatusFor, TypeOK, ConnectionsOK, HistoryOK
<1>2. UNCHANGED <<reader, in, worker, job, outs, last>>
  BY DEF Writer, work
<1>3. CASE UNCHANGED <<out, waiting>> /\ \A s \in 1..3 : Holds(c, s) => Holds(c, s)'
  <2>1. Injects(Pending(c)', Pending(c))
    BY <1>2, <1>3, InjectsSubset DEF Pending, Owes
  <2>2. \A s \in 1..3 : Asks(c, s)' <=> Asks(c, s)
    BY <1>2, <1>3, AsksOut
  <2> QED BY <1>1, <1>2, <1>3, <2>1, <2>2, StatusKept
<1>4. CASE CloseSocket(d) \/ EndWriter(d) \/ UpdateStateNil(d)
  <2>1. writer'[c] = writer[c] \/ writer'[c] \in {"end", "ended"}
    BY <1>1, <1>4 DEF CloseSocket, EndWriter, UpdateStateNil, WriterGoto, TypeOK, WritersOK
  <2>2. UNCHANGED <<out, waiting, cur, state>>
    BY <1>4 DEF CloseSocket, EndWriter, UpdateStateNil
  <2>3. \A s \in 1..3 : Holds(c, s) => Holds(c, s)'
    BY <2>1, <2>2 DEF Holds
  <2> QED BY <1>3, <2>2, <2>3
<1>5. CASE UpdateState(d)
  <2>1. UNCHANGED <<out, waiting, cur>>
    BY <1>5 DEF UpdateState
  <2>2. CASE c # d
    <3>1. writer'[c] = writer[c] /\ state'[c] = state[c]
      BY <1>1, <1>5, <2>2 DEF UpdateState, WriterGoto, TypeOK, WritersOK, ConnectionsOK
    <3> QED BY <1>3, <2>1, <3>1 DEF Holds
  <2>3. CASE c = d
    <3>1. /\ writer[c] = "update" /\ writer'[c] = "recv" /\ state[c] \in Record
          /\ state'[c] = Updated(state[c], cur[c].change) /\ cur[c].change \in Changes
      BY <1>1, <1>5, <2>3
        DEF UpdateState, WriterGoto, TypeOK, WritersOK, ConnectionsOK, Instruction
    <3>2. ASSUME NEW s \in 1..3, cur[c].change = <<"status", s>> PROVE state'[c].status = s
      <4>1. state'[c] = [state[c] EXCEPT !.status = s]
        BY <3>1, <3>2 DEF Updated
      <4> QED BY <3>1, <4>1 DEF Record
    <3>3. ASSUME cur[c].change \notin {"status"} \X (1..3) PROVE state'[c].status = state[c].status
      <4>1. cur[c].change[1] # "status"
        BY <3>1, <3>3 DEF Changes, NoChange
      <4>2. \/ state'[c] = [state[c] EXCEPT !.auth = cur[c].change[2]]
            \/ state'[c] = [state[c] EXCEPT !.group = cur[c].change[2]]
            \/ state'[c] = state[c]
        BY <3>1, <4>1 DEF Updated
      <4> QED BY <3>1, <4>2 DEF Record
    <3>4. \A s \in 1..3 : Holds(c, s) => Holds(c, s)'
      <4> SUFFICES ASSUME NEW s \in 1..3, Holds(c, s) PROVE Holds(c, s)'
        OBVIOUS
      <4>1. state[c] # Nobody
        BY <1>5, <2>3 DEF UpdateState
      <4>2. state'[c].status = s
        BY <3>1, <3>2, <3>3, <4>1 DEF Holds
      <4> QED BY <3>1, <4>2 DEF Holds
    <3> QED BY <1>3, <2>1, <3>4
  <2> QED BY <2>2, <2>3
<1>6. CASE Write(d) \/ WriteError(d)
  <2>1. out[d] # <<>> /\ out' = [out EXCEPT ![d] = Tail(@)] /\ UNCHANGED state /\ writer[d] = "recv"
    BY <1>6 DEF Write, WriteError, WriterGoto
  <2>2. CASE c # d
    <3>1. /\ writer'[c] = writer[c] /\ cur'[c] = cur[c] /\ waiting'[c] = waiting[c]
          /\ out'[c] = out[c]
      BY <1>1, <1>6, <2>2 DEF Write, WriteError, WriterGoto, TypeOK, WritersOK, ConnectionsOK
    <3>2. Injects(Pending(c)', Pending(c))
      BY <1>2, <3>1, InjectsSubset DEF Pending, Owes
    <3>3. \A s \in 1..3 : Asks(c, s)' <=> Asks(c, s)
      BY <1>2, <3>1, AsksOut
    <3>4. \A s \in 1..3 : Holds(c, s) => Holds(c, s)'
      BY <2>1, <3>1 DEF Holds
    <3> QED BY <1>1, <1>2, <3>1, <3>2, <3>3, <3>4, StatusKept
  <2>3. CASE c = d
    <3> DEFINE o == out[c][1]
    <3>1. out[c] \in Seq(Instruction) /\ out[c] # <<>> /\ out'[c] = Tail(out[c])
      BY <1>1, <2>1, <2>3 DEF TypeOK, WritersOK
    <3>2. /\ Len(out[c]) \in Nat /\ DOMAIN out[c] = 1..Len(out[c])
          /\ DOMAIN out'[c] = 1..(Len(out[c]) - 1) /\ Head(out[c]) = o /\ 1 \in DOMAIN out[c]
          /\ \A n \in DOMAIN out'[c] : out'[c][n] = out[c][n + 1]
      BY <3>1, TailElements, LenProperties, HeadTailProperties
    <3> HIDE DEF o
    <3>3. \A s \in 1..3 : Asks(c, s)' => Asks(c, s)
      <4>1. \A n \in DOMAIN out'[c] : n + 1 \in DOMAIN out[c] /\ out'[c][n] = out[c][n + 1]
        BY <3>2
      <4> QED BY <1>2, <4>1 DEF Asks, JobStatus, Owes, Push
    <3>4. \A s \in 1..3 : Asks(c, s) =>
              Asks(c, s)' \/ (~Push(o) /\ o.change = <<"status", s>>)
      <4>1. \A n \in DOMAIN out[c] : n = 1 \/ (n - 1 \in DOMAIN out'[c] /\ out'[c][n - 1] = out[c][n])
        BY <3>2
      <4> QED BY <1>2, <4>1 DEF Asks, JobStatus, Owes, Push, o
    <3>5. CASE writer'[c] \in {"exit", "end"}
      <4>1. waiting'[c] <= 1
        BY <1>1, <1>6, <2>3 DEF Write, WriteError, TypeOK, ConnectionsOK
      <4>2. Holds(c, last[c])'
        BY <3>5 DEF Holds
      <4> QED BY <1>1, <1>2, <3>3, <4>1, <4>2 DEF StatusFor
    <3>6. CASE Write(c) /\ writer'[c] \notin {"exit", "end"} /\ Push(o)
      <4>1. o.change = NoChange
        BY <1>1, <3>2, <3>6 DEF RepliesInv, o
      <4>2. writer'[c] = "recv" /\ waiting'[c] = waiting[c]
        BY <1>1, <3>2, <3>6, <4>1 DEF Write, WriterGoto, Push, TypeOK, WritersOK
      <4>3. Injects(Pending(c)', Pending(c))
        BY <1>1, <1>2, <3>1, <3>6, PendingTail DEF o
      <4>4. \A s \in 1..3 : Holds(c, s) => Holds(c, s)'
        BY <2>1, <2>3, <4>2 DEF Holds
      <4>5. \A s \in 1..3 : Asks(c, s) => Asks(c, s)'
        BY <3>4, <3>6
      <4> QED BY <1>1, <1>2, <3>3, <4>2, <4>3, <4>4, <4>5, StatusKept
    <3>7. CASE Write(c) /\ writer'[c] \notin {"exit", "end"} /\ ~Push(o)
      <4>1. <<"out", 1>> \in Pending(c)
        BY <3>2, <3>7, PendingMember DEF o
      <4>2. waiting[c] = 1 /\ Pending(c) = {<<"out", 1>>}
        BY <1>1, <4>1, OnlyOne
      <4>3. waiting'[c] = 0
        BY <1>1, <3>2, <3>7, <4>2 DEF Write, Push, TypeOK, ConnectionsOK
      <4>4. ~Forlorn(c)
        BY <4>1 DEF Forlorn
      <4>5. \A s \in 1..3 : Asks(c, s) => o.change = <<"status", s>>
        <5> SUFFICES ASSUME NEW s \in 1..3, Asks(c, s) PROVE o.change = <<"status", s>>
          OBVIOUS
        <5>1. \E n \in DOMAIN out[c] : /\ ~Push(out[c][n]) /\ out[c][n].change = <<"status", s>>
                                       /\ <<"out", n>> \in Pending(c)
          <6>1. \A x : <<"in", x>> # <<"out", 1>> /\ <<"worker", x>> # <<"out", 1>>
            OBVIOUS
          <6>2. \A x : <<"in", x>> \notin Pending(c) /\ <<"worker", x>> \notin Pending(c)
            BY <4>2, <6>1
          <6> QED BY <1>1, <6>2, AsksPlaces
        <5>2. \A n : <<"out", n>> = <<"out", 1>> => n = 1
          OBVIOUS
        <5> QED BY <4>2, <5>1, <5>2 DEF o
      <4>6. \A s \in 1..3 : o.change = <<"status", s>> => Asks(c, s)
        BY <3>2, <3>7 DEF Asks, o
      <4>7. /\ cur'[c] = o
            /\ writer'[c] = "update" \/ (writer'[c] = "recv" /\ o.change = NoChange)
            /\ o.change # NoChange => writer'[c] = "update"
        BY <1>1, <3>2, <3>7 DEF Write, WriterGoto, TypeOK, WritersOK
      <4>8. state'[c] = state[c] /\ writer[c] = "recv"
        BY <2>1, <2>3
      <4>9. last[c] # 0 => Holds(c, last[c])'
        <5> SUFFICES ASSUME NEW s \in 1..3, s = last[c] PROVE Holds(c, last[c])'
          BY <1>1
        <5>1. CASE Asks(c, s)
          <6>1. o.change = <<"status", s>>
            BY <4>5, <5>1
          <6>2. <<"status", s>> # NoChange
            BY DEF NoChange
          <6>3. writer'[c] = "update" /\ cur'[c].change = <<"status", last'[c]>>
            BY <1>2, <4>7, <6>1, <6>2
          <6> QED BY <6>3 DEF Holds
        <5>2. CASE ~Asks(c, s)
          <6>1. Holds(c, s)
            BY <1>1, <4>4, <5>2 DEF StatusFor
          <6>2. state[c] = Nobody \/ state[c].status = s
            BY <4>8, <6>1 DEF Holds
          <6>3. o.change \notin {"status"} \X (1..3)
            <7> SUFFICES ASSUME o.change \in {"status"} \X (1..3) PROVE FALSE
              OBVIOUS
            <7>1. PICK r \in 1..3 : o.change = <<"status", r>>
              OBVIOUS
            <7>2. Asks(c, r)
              BY <4>6, <7>1
            <7>3. r = last[c]
              BY <1>1, <7>2 DEF StatusFor
            <7> QED BY <5>2, <7>2, <7>3
          <6> QED BY <1>2, <4>7, <4>8, <6>2, <6>3 DEF Holds
        <5> QED BY <5>1, <5>2
      <4> QED BY <1>1, <1>2, <3>3, <4>3, <4>9 DEF StatusFor
    <3>8. Write(c) \/ writer'[c] \in {"exit", "end"}
      BY <1>1, <1>6, <2>3 DEF WriteError, WriterGoto, TypeOK, WritersOK
    <3> QED BY <3>5, <3>6, <3>7, <3>8
  <2> QED BY <2>2, <2>3
<1> QED BY <1>4, <1>5, <1>6 DEF Writer

LEMMA StatusInvariant == ASSUME Lockstep PROVE Spec => []StatusInv
<1>1. Init => \A c \in Conns : StatusFor(c)
  <2> SUFFICES ASSUME Init, NEW c \in Conns PROVE StatusFor(c)
    OBVIOUS
  <2>1. /\ waiting[c] = 0 /\ last[c] = 0 /\ in = <<>> /\ out[c] = <<>>
        /\ \A w \in Workers : worker[w] = "idle"
    BY DEF Init
  <2>2. \A s : ~Asks(c, s)
    BY <2>1 DEF Asks
  <2> QED BY <2>1, <2>2 DEF StatusFor
<1>2. StatusInv /\ [Next]_vars => (\A c \in Conns : StatusFor(c))'
  <2> SUFFICES ASSUME StatusInv, [Next]_vars, NEW c \in Conns PROVE StatusFor(c)'
    OBVIOUS
  <2>1. CASE UNCHANGED vars
    BY <2>1 DEF vars, conn, line, work, StatusInv, StatusFor, Asks, Forlorn, Holds, JobStatus, Owes,
                Push, Pending
  <2>2. CASE \E d \in Conns : Peer(d) \/ Reader(d) \/ Writer(d)
    BY <2>2, StatusPeer, StatusReader, StatusWriter
  <2>3. CASE \E w \in Workers : Worker(w)
    BY <2>3, StatusWorker
  <2> QED BY <2>1, <2>2, <2>3 DEF Next
<1>3. RpcInv /\ AnswerInv /\ (\A c \in Conns : StatusFor(c)) <=> StatusInv
  BY DEF StatusInv
<1> QED BY <1>1, <1>2, <1>3, RpcInvariant, AnswerInvariant, PTL DEF Spec

\* Two workers may hold two commands of two servers, but of a server in lockstep there
\* is one, so the status in its record, once it settles, is the one it asked for last.
THEOREM StatusOfLast == ASSUME Lockstep PROVE Spec => []StatusSettles
<1>1. StatusInv => StatusSettles
  <2> SUFFICES ASSUME StatusInv, NEW c \in Conns, Settled(c), last[c] # 0
               PROVE state[c].status = last[c]
    BY DEF StatusSettles
  <2>0. /\ TypeOK /\ Enough(c) /\ StatusFor(c) /\ waiting[c] = 0 /\ writer[c] = "recv"
        /\ state[c] # Nobody
    BY DEF StatusInv, AnswerInv, Settled
  <2>1. last[c] \in 1..3
    <3>1. last[c] \in 0..3
      BY <2>0 DEF TypeOK, HistoryOK
    <3> QED BY <3>1
  <2>2. Pending(c) = {}
    BY <2>0, OnlyOne
  <2>3. ~Asks(c, last[c])
    BY <2>0, <2>1, <2>2, AsksPlaces
  <2>4. Holds(c, last[c])
    BY <2>0, <2>1, <2>3 DEF StatusFor, Forlorn
  <2> QED BY <2>0, <2>1, <2>4 DEF Holds
<1> QED BY <1>1, StatusInvariant, PTL

-----------------------------------------------------------------------------
\* Nothing is forgotten: what a worker could not send has an end that is known.

\* The connection is broken or closed, and stays so.
Dead(c) == sock[c] \in {"broken", "closed"}

\* The end of the back channel of c, or of its writer, is behind it.
Ending(c) ==
    \/ reader[c] \in {"methods", "channel", "delete", "record", "close", "gone"}
    \/ chan[c] = "removed" \/ writer[c] \in {"end", "ended"}

\* A channel has a writer, and its cleanup and the end of its writer come after the
\* end of the connection; only a worker that sends has something to send, and one with a
\* lock has it for a channel that was put in its group.
RestInv ==
    /\ \A c \in Conns : reader[c] = "none" => sock[c] = "none" /\ writer[c] = "none"
    /\ \A c \in Conns : chan[c] # "none" => writer[c] # "none"
    /\ \A c \in Conns : writer[c] = "none" => out[c] = <<>>
    /\ \A c \in Conns : Ending(c) => Dead(c)
    /\ \A w \in Workers : worker[w] # "send" => outs[w] = <<>> /\ rlock[w] = Nobody
    /\ \A w \in Workers : rlock[w] # Nobody =>
          outs[w] # <<>> /\ writer[Head(outs[w]).to] # "none"

LEMMA RestInit == Init => RestInv
BY DEF Init, RestInv, Ending

\* A step that panics changes nothing else.
LEMMA PanicSteps ==
    /\ \A c \in Conns : UpdateStateNil(c) =>
          UNCHANGED <<sock, writer, cur, out, waiting, given>>
    /\ \A w \in Workers : SendNil(w) \/ SendClosed(w) =>
          UNCHANGED <<worker, job, outs, rlock, in, chan, out, lost, tasks>>
<1>1. ASSUME NEW c \in Conns, UpdateStateNil(c)
      PROVE UNCHANGED <<sock, writer, cur, out, waiting, given>>
  BY <1>1 DEF UpdateStateNil, hist
<1>2. ASSUME NEW w \in Workers, SendNil(w) \/ SendClosed(w)
      PROVE UNCHANGED <<worker, job, outs, rlock, in, chan, out, lost, tasks>>
  BY <1>2 DEF SendNil, SendClosed, work, line, registry, task
<1> QED BY <1>1, <1>2

\* A dead connection stays dead, and what was lost stays lost.
LEMMA DeadStays ==
    ASSUME TypeOK, RestInv, [Next]_vars
    PROVE lost \subseteq lost' /\ \A c \in Conns : Dead(c) => Dead(c)'
<1> USE DEF TypeOK
<1>1. ASSUME NEW d \in Conns, Peer(d)
      PROVE lost' = lost /\ \A c \in Conns : Dead(c) => Dead(c)'
  <2>1. CASE NewConnection(d)
    <3>1. reader[d] = "none" /\ sock' = [sock EXCEPT ![d] = "open"] /\ lost' = lost
      BY <1>1, <2>1 DEF Peer, NewConnection, Goto
    <3>2. ~Dead(d)
      BY <3>1 DEF RestInv, Dead
    <3> QED BY <3>1, <3>2 DEF Dead, ConnectionsOK
  <2>2. CASE PeerBreak(d)
    BY <1>1, <2>2 DEF Peer, PeerBreak, Dead, ConnectionsOK
  <2>3. CASE \E k \in Commands[d] : Processing(d, k)
    BY <1>1, <2>3 DEF Peer, Processing, Dead
  <2> QED BY <1>1, <2>1, <2>2, <2>3 DEF Peer
<1>2. ASSUME NEW d \in Conns, Reader(d) \/ Writer(d)
      PROVE lost' = lost /\ \A c \in Conns : Dead(c) => Dead(c)'
  <2>1. lost' = lost
    BY <1>2 DEF Reader, Writer
  <2>2. CASE Reader(d)
    BY <2>1, <2>2 DEF Reader, LookGroup, CreateGroup, AppendBackChannel, Put, ReadError,
                      LeaveServers, RemoveBackChannel, Delete, RemoveConnection, Close, Dead,
                      ConnectionsOK
  <2>3. CASE Writer(d)
    <3>1. UNCHANGED sock \/ sock' = [sock EXCEPT ![d] = "closed"]
      <4>1. CASE CloseSocket(d)
        BY <4>1 DEF CloseSocket
      <4>2. CASE Write(d) \/ WriteError(d) \/ EndWriter(d) \/ UpdateState(d)
        BY <4>2 DEF Write, WriteError, EndWriter, UpdateState
      <4> QED BY <2>3, <4>1, <4>2, PanicSteps DEF Writer
    <3> QED BY <2>1, <3>1 DEF Dead, ConnectionsOK
  <2> QED BY <1>2, <2>2, <2>3
<1>3. ASSUME NEW w \in Workers, Worker(w)
      PROVE lost \subseteq lost' /\ \A c \in Conns : Dead(c) => Dead(c)'
  <2>1. UNCHANGED sock
    BY <1>3 DEF Worker, conn
  <2>2. CASE SendMissed(w) \/ Send(w)
    BY <2>1, <2>2, SentOne DEF Dead
  <2>3. CASE SendNil(w) \/ SendClosed(w)
    BY <2>1, <2>3, PanicSteps DEF Dead
  <2>4. CASE ~(SendMissed(w) \/ Send(w) \/ SendNil(w) \/ SendClosed(w))
    <3>1. lost' = lost
      BY <1>3, <2>4 DEF Worker, Take, Answer, ProcAuth, RefuseRegistration, RegisterClient,
                        RegisterClientMethods, AppendMethods, ProcUpdateStatus, GetCidVariants,
                        NoServer, SkipBusy, ProcRouteRpc, ResultWithoutTask, ResultReturned,
                        NoHandler, ExitHandler, SendLookup
    <3> QED BY <2>1, <3>1 DEF Dead
  <2> QED BY <2>2, <2>3, <2>4
<1>4. CASE UNCHANGED vars
  BY <1>4 DEF vars, conn, Dead
<1> QED BY <1>1, <1>2, <1>3, <1>4 DEF Next

\* The first of what a worker has to send is for a connection.
LEMMA HeadTo ==
    ASSUME TypeOK
    PROVE \A w \in Workers : outs[w] # <<>> => Head(outs[w]).to \in Conns
<1> SUFFICES ASSUME NEW w \in Workers, outs[w] # <<>> PROVE Head(outs[w]).to \in Conns
  OBVIOUS
<1>1. outs[w] \in Seq(Instruction)
  BY DEF TypeOK, WorkersOK
<1>2. Head(outs[w]) \in Instruction
  BY <1>1, TailElements
<1> QED BY <1>2 DEF Instruction

LEMMA RestPeer ==
    ASSUME TypeOK, RestInv, NEW d \in Conns, Peer(d) PROVE RestInv'
<1> USE DEF TypeOK
<1>1. UNCHANGED <<worker, outs, out, writer, cur, chan, rlock>>
  BY DEF Peer, NewConnection, PeerBreak, Processing, work, line
<1>2. /\ \A c \in Conns : Dead(c) => Dead(c)'
      /\ \A c \in Conns : Ending(c)' => Ending(c)
      /\ \A c \in Conns : reader'[c] = "none" => reader[c] = "none" /\ sock'[c] = "none"
  <2>0. [Next]_vars
    BY DEF Next
  <2>1. CASE NewConnection(d)
    <3>1. /\ reader' = [reader EXCEPT ![d] = "read"] /\ sock' = [sock EXCEPT ![d] = "open"]
      BY <2>1 DEF NewConnection, Goto
    <3> QED BY <1>1, <2>0, <3>1, DeadStays DEF Ending, RestInv, ConnectionsOK
  <2>2. CASE PeerBreak(d)
    <3>1. UNCHANGED reader /\ sock[d] = "open" /\ sock' = [sock EXCEPT ![d] = "broken"]
      BY <2>2 DEF PeerBreak
    <3> QED BY <1>1, <2>0, <3>1, DeadStays DEF Ending, RestInv, ConnectionsOK
  <2>3. CASE \E k \in Commands[d] : Processing(d, k)
    <3>1. /\ \E place \in {"back", "read"} : reader' = [reader EXCEPT ![d] = place]
          /\ UNCHANGED sock
      BY <2>3 DEF Processing, Goto
    <3> QED BY <1>1, <2>0, <3>1, DeadStays DEF Ending, RestInv, ConnectionsOK
  <2> QED BY <2>1, <2>2, <2>3 DEF Peer
<1> QED BY <1>1, <1>2 DEF RestInv

LEMMA RestReader ==
    ASSUME RpcInv, RestInv, NEW d \in Conns, Reader(d) PROVE RestInv'
<1> USE DEF TypeOK, RpcInv
<1>1. UNCHANGED <<worker, outs, rlock, out>>
  BY DEF Reader, LookGroup, CreateGroup, AppendBackChannel, Put, ReadError, LeaveServers,
         RemoveBackChannel, Delete, RemoveConnection, Close, work, line
<1>2. \A c \in Conns : Dead(c) => Dead(c)'
  BY DeadStays DEF Next
<1>2a. ASSUME \A c \in Conns : writer'[c] = "none" => writer[c] = "none"
       PROVE (\A w \in Workers : rlock[w] # Nobody =>
                outs[w] # <<>> /\ writer[Head(outs[w]).to] # "none")'
  BY <1>1, <1>2a, HeadTo DEF RestInv
<1>3. CASE Put(d)
  <2>1. /\ chan' = [chan EXCEPT ![d] = "open"] /\ writer' = [writer EXCEPT ![d] = "recv"]
        /\ reader' = [reader EXCEPT ![d] = "read"] /\ UNCHANGED sock
    BY <1>3 DEF Put, Goto
  <2>2. /\ \A c \in Conns : c # d => /\ chan'[c] = chan[c] /\ writer'[c] = writer[c]
                                     /\ reader'[c] = reader[c]
        /\ chan'[d] = "open" /\ writer'[d] = "recv" /\ reader'[d] = "read"
    BY <2>1 DEF ConnectionsOK, WritersOK
  <2>3. \A c \in Conns : Ending(c)' => Ending(c)
    BY <2>2 DEF Ending
  <2>4. \A c \in Conns : writer'[c] = "none" => writer[c] = "none"
    BY <2>2
  <2> QED BY <1>1, <1>2a, <2>1, <2>2, <2>3, <2>4, <1>2 DEF RestInv
<1>4. CASE LookGroup(d) \/ CreateGroup(d) \/ AppendBackChannel(d)
  <2>1. /\ \E place \in {"create", "append", "put"} : reader' = [reader EXCEPT ![d] = place]
        /\ UNCHANGED <<sock, chan, writer>>
    BY <1>4 DEF LookGroup, CreateGroup, AppendBackChannel, Goto, line
  <2>2. \A c \in Conns : reader'[c] = reader[c] \/ reader'[c] \in {"create", "append", "put"}
    BY <2>1 DEF ConnectionsOK
  <2>3. \A c \in Conns : Ending(c)' => Ending(c)
    BY <2>1, <2>2 DEF Ending
  <2> QED BY <1>1, <1>2, <1>2a, <2>1, <2>2, <2>3 DEF RestInv
<1>5. CASE \/ ReadError(d) \/ LeaveServers(d) \/ RemoveBackChannel(d) \/ Delete(d)
           \/ RemoveConnection(d) \/ Close(d)
  <2>1. /\ \E place \in {"methods", "channel", "delete", "record", "close", "gone"} :
              reader' = [reader EXCEPT ![d] = place]
        /\ UNCHANGED sock \/ sock' = [sock EXCEPT ![d] = "closed"]
        /\ chan' = chan \/ (chan[d] = "open" /\ chan' = [chan EXCEPT ![d] = "removed"])
        /\ UNCHANGED writer
    BY <1>5 DEF ReadError, LeaveServers, RemoveBackChannel, Delete, RemoveConnection, Close, Goto,
                line, GroupInv
  <2>2. Dead(d)
    <3>1. CASE ReadError(d)
      BY <3>1 DEF ReadError, Dead
    <3>2. CASE \/ LeaveServers(d) \/ RemoveBackChannel(d) \/ Delete(d) \/ RemoveConnection(d)
               \/ Close(d)
      <4>1. Ending(d)
        BY <3>2 DEF LeaveServers, RemoveBackChannel, Delete, RemoveConnection, Close, Goto, Ending
      <4> QED BY <4>1 DEF RestInv
    <3> QED BY <1>5, <3>1, <3>2
  <2>3. /\ \A c \in Conns : c # d => /\ chan'[c] = chan[c] /\ reader'[c] = reader[c]
                                     /\ sock'[c] = sock[c]
        /\ chan'[d] # "none" => chan[d] # "none"
        /\ reader'[d] # "none"
    BY <2>1 DEF ConnectionsOK
  <2>4. \A c \in Conns : c # d => (Ending(c)' => Ending(c))
    BY <2>1, <2>3 DEF Ending
  <2> QED BY <1>1, <1>2, <1>2a, <2>1, <2>2, <2>3, <2>4 DEF RestInv
<1> QED BY <1>3, <1>4, <1>5 DEF Reader

LEMMA RestWriter ==
    ASSUME TypeOK, RestInv, NEW d \in Conns, Writer(d) PROVE RestInv'
<1> USE DEF TypeOK
<1>1. UNCHANGED <<reader, chan, worker, outs, rlock>>
  BY DEF Writer, work
<1>2. \A c \in Conns : Dead(c) => Dead(c)'
  BY DeadStays DEF Next
<1>3. /\ \A c \in Conns : c # d => /\ sock'[c] = sock[c] /\ writer'[c] = writer[c]
                                   /\ out'[c] = out[c]
      /\ writer[d] # "none" /\ writer'[d] # "none"
      /\ writer'[d] \in {"end", "ended"} => Dead(d)'
  <2>1. CASE Write(d)
    <3> DEFINE o == Head(out[d])
    <3>1. /\ writer[d] = "recv"
          /\ writer' = [writer EXCEPT ![d] = IF o.type = "exit" THEN "exit"
                                             ELSE IF o.change = NoChange THEN "recv" ELSE "update"]
          /\ out' = [out EXCEPT ![d] = Tail(@)] /\ UNCHANGED sock
      BY <2>1 DEF Write, WriterGoto
    <3>2. writer'[d] \in {"recv", "update", "exit"}
      BY <3>1 DEF WritersOK
    <3> QED BY <3>1, <3>2 DEF WritersOK
  <2>2. CASE WriteError(d)
    <3>1. /\ writer[d] = "recv"
          /\ \E place \in {"exit", "end"} : writer' = [writer EXCEPT ![d] = place]
          /\ out' = [out EXCEPT ![d] = Tail(@)] /\ UNCHANGED sock /\ Dead(d)
      BY <2>2 DEF WriteError, WriterGoto, Dead
    <3> QED BY <1>2, <3>1 DEF WritersOK
  <2>3. CASE CloseSocket(d)
    <3>1. /\ writer[d] = "exit" /\ writer' = [writer EXCEPT ![d] = "end"]
          /\ sock' = [sock EXCEPT ![d] = "closed"] /\ UNCHANGED out
      BY <2>3 DEF CloseSocket, WriterGoto
    <3> QED BY <3>1 DEF Dead, WritersOK, ConnectionsOK
  <2>3a. CASE EndWriter(d)
    <3>1. /\ writer[d] = "end" /\ writer' = [writer EXCEPT ![d] = "ended"]
          /\ UNCHANGED <<sock, out>>
      BY <2>3a DEF EndWriter, WriterGoto
    <3>2. Dead(d)'
      BY <1>2, <3>1 DEF RestInv, Ending
    <3> QED BY <3>1, <3>2 DEF WritersOK
  <2>4. CASE UpdateState(d)
    <3>1. /\ writer[d] = "update" /\ writer' = [writer EXCEPT ![d] = "recv"]
          /\ UNCHANGED <<sock, cur, out>>
      BY <2>4 DEF UpdateState, WriterGoto
    <3> QED BY <3>1 DEF WritersOK
  <2>5. CASE UpdateStateNil(d)
    <3>1. writer[d] = "update"
      BY <2>5 DEF UpdateStateNil
    <3> QED BY <2>5, <3>1, PanicSteps
  <2> QED BY <2>1, <2>2, <2>3, <2>3a, <2>4, <2>5 DEF Writer
<1>4. \A c \in Conns : Ending(c)' => Dead(c)'
  <2>1. ASSUME NEW c \in Conns, c # d PROVE Ending(c)' => Ending(c)
    BY <1>1, <1>3, <2>1 DEF Ending
  <2>2. Ending(d)' => Dead(d)'
    <3>1. \/ reader[d] \in {"methods", "channel", "delete", "record", "close", "gone"}
          \/ chan[d] = "removed"
          => Dead(d)
      BY DEF RestInv, Ending
    <3> QED BY <1>1, <1>2, <1>3, <3>1 DEF Ending
  <2> QED BY <1>2, <2>1, <2>2 DEF RestInv
<1>5. \A c \in Conns : reader[c] = "none" => c # d
  BY <1>3 DEF RestInv
<1>6. (\A w \in Workers : rlock[w] # Nobody =>
          outs[w] # <<>> /\ writer[Head(outs[w]).to] # "none")'
  BY <1>1, <1>3, HeadTo DEF RestInv
<1> QED BY <1>1, <1>3, <1>4, <1>5, <1>6 DEF RestInv

\* What a worker sends goes to a channel that has a writer.
LEMMA SendsOpen ==
    ASSUME TypeOK, RestInv, NEW w \in Workers, Worker(w), NEW c \in Conns, out'[c] # out[c]
    PROVE writer[c] # "none"
<1>1. Send(w)
  BY PanicSteps DEF Worker, Take, Answer, ProcAuth, RefuseRegistration, RegisterClient,
        RegisterClientMethods, AppendMethods, ProcUpdateStatus, GetCidVariants, NoServer,
        SkipBusy, ProcRouteRpc, ResultWithoutTask, ResultReturned, NoHandler, ExitHandler,
        SendLookup, SendMissed, line
<1> DEFINE o == Head(outs[w])
<1>2. /\ out' = [out EXCEPT ![o.to] = Append(@, o)] /\ o.to \in Conns
      /\ writer[o.to] # "none"
  BY <1>1, HeadTo DEF Send, RestInv
<1> HIDE DEF o
<1>3. c = o.to
  BY <1>2 DEF TypeOK, WritersOK
<1> QED BY <1>2, <1>3

\* Of what a worker has to send.
LEMMA OutsSending ==
    ASSUME TypeOK, RestInv, NEW w \in Workers, Worker(w)
    PROVE \A v \in Workers :
              /\ worker'[v] # "send" => outs'[v] = <<>> /\ rlock'[v] = Nobody
              /\ rlock'[v] # Nobody => outs'[v] # <<>> /\ writer[Head(outs'[v]).to] # "none"
<1> SUFFICES ASSUME NEW v \in Workers
             PROVE /\ worker'[v] # "send" => outs'[v] = <<>> /\ rlock'[v] = Nobody
                   /\ rlock'[v] # Nobody => outs'[v] # <<>> /\ writer[Head(outs'[v]).to] # "none"
  OBVIOUS
<1>0. CASE worker'[v] = worker[v] /\ outs'[v] = outs[v] /\ rlock'[v] = rlock[v]
  BY <1>0 DEF RestInv
<1>1. CASE \/ ProcAuth(w) \/ RefuseRegistration(w) \/ RegisterClient(w) \/ AppendMethods(w)
           \/ ProcUpdateStatus(w) \/ NoServer(w) \/ (\E s \in Conns : ProcRouteRpc(w, s))
           \/ ResultWithoutTask(w) \/ ResultReturned(w) \/ NoHandler(w) \/ ExitHandler(w)
  <2>1. PICK is \in Seq(Instruction) : Answer(w, is) /\ worker[w] # "send"
    BY <1>1, HandlerReplies
  <2>2. /\ outs' = [outs EXCEPT ![w] = is] /\ worker' = [worker EXCEPT ![w] = "send"]
        /\ UNCHANGED rlock
    BY <2>1 DEF Answer
  <2>3. CASE v = w
    BY <2>1, <2>2, <2>3 DEF RestInv, TypeOK, WorkersOK
  <2>4. CASE v # w
    BY <1>0, <2>2, <2>4 DEF TypeOK, WorkersOK
  <2> QED BY <2>3, <2>4
<1>2. CASE SendMissed(w) \/ Send(w)
  <2>1. /\ outs' = [outs EXCEPT ![w] = Tail(outs[w])]
        /\ worker' = [worker EXCEPT ![w] = IF Tail(outs[w]) = <<>> THEN "idle" ELSE "send"]
        /\ rlock' = rlock \/ rlock' = [rlock EXCEPT ![w] = Nobody]
    BY <1>2, SentOne DEF Rest
  <2>2. SendMissed(w) => rlock[w] = Nobody /\ rlock' = rlock
    BY DEF SendMissed
  <2>3. rlock'[w] = Nobody
    BY <1>2, <2>2 DEF Send, TypeOK, WorkersOK
  <2>4. CASE v = w
    BY <2>1, <2>3, <2>4 DEF TypeOK, WorkersOK
  <2>5. CASE v # w
    BY <1>0, <2>1, <2>5 DEF TypeOK, WorkersOK
  <2> QED BY <2>4, <2>5
<1>3. CASE Take(w) \/ RegisterClientMethods(w) \/ GetCidVariants(w)
  <2>1. /\ worker[w] # "send" /\ UNCHANGED <<outs, rlock>>
        /\ \E place : worker' = [worker EXCEPT ![w] = place]
    BY <1>3 DEF Take, RegisterClientMethods, GetCidVariants
  <2> QED BY <2>1 DEF RestInv, TypeOK, WorkersOK
<1>4. CASE SendNil(w) \/ SendClosed(w) \/ \E s \in Conns : SkipBusy(w, s)
  <2>1. (\E s \in Conns : SkipBusy(w, s)) => UNCHANGED <<worker, outs, rlock>>
    BY DEF SkipBusy
  <2> QED BY <1>0, <1>4, <2>1, PanicSteps
<1>5. CASE SendLookup(w)
  <2>1. /\ worker[w] = "send" /\ outs[w] # <<>> /\ chan[Head(outs[w]).to] = "open"
        /\ \E g : rlock' = [rlock EXCEPT ![w] = g]
        /\ UNCHANGED <<worker, outs>>
    BY <1>5 DEF SendLookup, Reachable
  <2>2. writer[Head(outs[w]).to] # "none"
    BY <2>1, HeadTo DEF RestInv
  <2>3. CASE v = w
    BY <2>1, <2>2, <2>3
  <2>4. CASE v # w
    BY <1>0, <2>1, <2>4 DEF TypeOK, WorkersOK
  <2> QED BY <2>3, <2>4
<1> QED BY <1>1, <1>2, <1>3, <1>4, <1>5 DEF Worker

LEMMA RestNext ==
    ASSUME RpcInv, RestInv, [Next]_vars PROVE RestInv'
<1>1. CASE UNCHANGED vars
  BY <1>1 DEF vars, conn, line, work, RestInv, Ending, Dead
<1>2. ASSUME NEW w \in Workers, Worker(w) PROVE RestInv'
  <2>1. UNCHANGED <<reader, sock, writer, cur>>
    BY <1>2 DEF Worker, conn
  <2>2. UNCHANGED chan
    BY <1>2, PanicSteps DEF Worker, Take, Answer, ProcAuth, RefuseRegistration, RegisterClient,
        RegisterClientMethods, AppendMethods, ProcUpdateStatus, GetCidVariants, NoServer,
        SkipBusy, ProcRouteRpc, ResultWithoutTask, ResultReturned, NoHandler, ExitHandler,
        SendLookup, SendMissed, Send, line
  <2>3. \A c \in Conns : out'[c] = out[c] \/ writer[c] # "none"
    BY <1>2, SendsOpen DEF RpcInv, RestInv
  <2>4. \A v \in Workers :
            /\ worker'[v] # "send" => outs'[v] = <<>> /\ rlock'[v] = Nobody
            /\ rlock'[v] # Nobody => outs'[v] # <<>> /\ writer[Head(outs'[v]).to] # "none"
    BY <1>2, OutsSending DEF RpcInv
  <2> QED BY <2>1, <2>2, <2>3, <2>4 DEF RestInv, Ending, Dead
<1> QED BY <1>1, <1>2, RestPeer, RestReader, RestWriter DEF Next, RpcInv

-----------------------------------------------------------------------------
\* Every task has a server: it got the task, or is about to, or it left before.

\* The command that gives the task t to the server s.
Call(t, s) == Out(s, "execute", NoChange, t)

Placed(t, s) ==
    \/ t \in given[s] \/ Routed(t, s) \/ Call(t, s) \in lost
    \/ Dead(s) /\ writer[s] \in {"end", "ended"} /\ cur[s] = Call(t, s)

TasksPlaced == \A t \in 1..tasks : \E s \in Conns : Placed(t, s)

PlaceInv == RpcInv /\ RepliesInv /\ RestInv

\* What remains of a queue after its first element is taken.
LEMMA TailKeeps ==
    ASSUME NEW S, NEW s \in Seq(S), s # <<>>, NEW n \in DOMAIN s, n # 1
    PROVE n - 1 \in DOMAIN Tail(s) /\ Tail(s)[n - 1] = s[n]
<1>1. Len(s) \in Nat /\ DOMAIN s = 1..Len(s)
  BY LenProperties
<1>2. /\ Tail(s) \in Seq(S) /\ Len(Tail(s)) = Len(s) - 1
      /\ \A i \in 1..(Len(s) - 1) : Tail(s)[i] = s[i + 1]
  BY HeadTailProperties
<1>3. DOMAIN Tail(s) = 1..(Len(s) - 1) /\ n - 1 \in 1..(Len(s) - 1) /\ (n - 1) + 1 = n
  BY <1>1, <1>2, LenProperties
<1> QED BY <1>2, <1>3

\* What a queue has after an element is added.
LEMMA AppendKeeps ==
    ASSUME NEW S, NEW s \in Seq(S), NEW e \in S
    PROVE /\ \A n \in DOMAIN s : n \in DOMAIN Append(s, e) /\ Append(s, e)[n] = s[n]
          /\ \E n \in DOMAIN Append(s, e) : Append(s, e)[n] = e
<1>1. /\ Append(s, e) \in Seq(S) /\ Len(Append(s, e)) = Len(s) + 1 /\ Len(s) \in Nat
      /\ \A i \in 1..Len(s) : Append(s, e)[i] = s[i]
      /\ Append(s, e)[Len(s) + 1] = e
  BY AppendProperties, LenProperties
<1>2. DOMAIN s = 1..Len(s) /\ DOMAIN Append(s, e) = 1..(Len(s) + 1)
  BY <1>1, LenProperties
<1>3. Len(s) + 1 \in DOMAIN Append(s, e)
  BY <1>1, <1>2
<1> QED BY <1>1, <1>2, <1>3

\* An instruction to send stays until it is the first and is sent.
LEMMA OutsKept ==
    ASSUME TypeOK, RestInv, NEW v \in Workers, Worker(v), NEW w \in Workers, NEW n \in DOMAIN outs[w]
    PROVE \/ \E k \in DOMAIN outs'[w] : outs'[w][k] = outs[w][n]
          \/ w = v /\ n = 1 /\ (SendMissed(v) \/ Send(v))
<1>0. outs'[w] = outs[w] => \E k \in DOMAIN outs'[w] : outs'[w][k] = outs[w][n]
  OBVIOUS
<1>1. worker[w] = "send"
  BY EmptySeq DEF RestInv
<1>2. CASE \/ ProcAuth(v) \/ RefuseRegistration(v) \/ RegisterClient(v) \/ AppendMethods(v)
           \/ ProcUpdateStatus(v) \/ NoServer(v) \/ (\E s \in Conns : ProcRouteRpc(v, s))
           \/ ResultWithoutTask(v) \/ ResultReturned(v) \/ NoHandler(v) \/ ExitHandler(v)
  <2>1. PICK is \in Seq(Instruction) : Answer(v, is) /\ worker[v] # "send"
    BY <1>2, HandlerReplies
  <2>2. outs' = [outs EXCEPT ![v] = is] /\ w # v
    BY <1>1, <2>1 DEF Answer
  <2>3. outs'[w] = outs[w]
    BY <2>2 DEF TypeOK, WorkersOK
  <2> QED BY <1>0, <2>3
<1>3. CASE SendMissed(v) \/ Send(v)
  <2>1. /\ outs' = [outs EXCEPT ![v] = Tail(outs[v])] /\ outs[v] # <<>>
        /\ outs[v] \in Seq(Instruction)
    BY <1>3, SentOne DEF Rest
  <2>2. CASE w # v
    <3>1. outs'[w] = outs[w]
      BY <2>1, <2>2 DEF TypeOK, WorkersOK
    <3> QED BY <1>0, <3>1
  <2>3. CASE w = v /\ n # 1
    <3>1. outs'[w] = Tail(outs[w])
      BY <2>1, <2>3 DEF TypeOK, WorkersOK
    <3>2. n - 1 \in DOMAIN Tail(outs[w]) /\ Tail(outs[w])[n - 1] = outs[w][n]
      BY <2>1, <2>3, TailKeeps
    <3> QED BY <3>1, <3>2
  <2> QED BY <1>3, <2>2, <2>3
<1>4. CASE \/ Take(v) \/ RegisterClientMethods(v) \/ GetCidVariants(v)
           \/ SendNil(v) \/ SendLookup(v) \/ SendClosed(v) \/ \E s \in Conns : SkipBusy(v, s)
  <2>1. UNCHANGED outs
    BY <1>4, PanicSteps DEF Take, RegisterClientMethods, GetCidVariants, SendLookup, SkipBusy
  <2> QED BY <1>0, <2>1
<1> QED BY <1>2, <1>3, <1>4 DEF Worker

\* An instruction in a back channel stays until its writer takes it.
LEMMA OutKept ==
    ASSUME TypeOK, [Next]_vars, NEW s \in Conns, NEW n \in DOMAIN out[s]
    PROVE \/ \E k \in DOMAIN out'[s] : out'[s][k] = out[s][n]
          \/ n = 1 /\ Writer(s) /\ (Write(s) \/ WriteError(s))
<1>0. out'[s] = out[s] => \E k \in DOMAIN out'[s] : out'[s][k] = out[s][n]
  OBVIOUS
<1>1. ASSUME NEW d \in Conns, Peer(d) \/ Reader(d) PROVE UNCHANGED out
  BY <1>1 DEF Peer, Reader, NewConnection, PeerBreak, Processing, LookGroup, CreateGroup,
              AppendBackChannel, Put, ReadError, LeaveServers, RemoveBackChannel, Delete,
              RemoveConnection, Close, line
<1>2. ASSUME NEW d \in Conns, Writer(d)
      PROVE \/ \E k \in DOMAIN out'[s] : out'[s][k] = out[s][n]
            \/ n = 1 /\ Writer(s) /\ (Write(s) \/ WriteError(s))
  <2>1. CASE Write(d) \/ WriteError(d)
    <3>1. out[d] # <<>> /\ out[d] \in Seq(Instruction) /\ out' = [out EXCEPT ![d] = Tail(@)]
      BY <2>1 DEF Write, WriteError, TypeOK, WritersOK
    <3>2. CASE d # s
      <4>1. out'[s] = out[s]
        BY <3>1, <3>2 DEF TypeOK, WritersOK
      <4> QED BY <1>0, <4>1
    <3>3. CASE d = s /\ n # 1
      <4>1. out'[s] = Tail(out[s])
        BY <3>1, <3>3 DEF TypeOK, WritersOK
      <4>2. n - 1 \in DOMAIN Tail(out[s]) /\ Tail(out[s])[n - 1] = out[s][n]
        BY <3>1, <3>3, TailKeeps
      <4> QED BY <4>1, <4>2
    <3> QED BY <1>2, <2>1, <3>2, <3>3
  <2>2. CASE CloseSocket(d) \/ EndWriter(d) \/ UpdateState(d) \/ UpdateStateNil(d)
    <3>1. UNCHANGED out
      BY <2>2, PanicSteps DEF CloseSocket, EndWriter, UpdateState
    <3> QED BY <1>0, <3>1
  <2> QED BY <1>2, <2>1, <2>2 DEF Writer
<1>3. ASSUME NEW w \in Workers, Worker(w), out' # out
      PROVE \E k \in DOMAIN out'[s] : out'[s][k] = out[s][n]
  <2>1. Send(w)
    BY <1>3, PanicSteps DEF Worker, Take, Answer, ProcAuth, RefuseRegistration, RegisterClient,
        RegisterClientMethods, AppendMethods, ProcUpdateStatus, GetCidVariants, NoServer,
        SkipBusy, ProcRouteRpc, ResultWithoutTask, ResultReturned, NoHandler, ExitHandler,
        SendLookup, SendMissed, line
  <2> DEFINE o == Head(outs[w])
  <2>2. outs[w] \in Seq(Instruction) /\ outs[w] # <<>> /\ out' = [out EXCEPT ![o.to] = Append(@, o)]
    BY <1>3, <2>1 DEF Send, TypeOK, WorkersOK
  <2>3. o \in Instruction /\ out[s] \in Seq(Instruction)
    BY <2>2, TailElements DEF TypeOK, WritersOK
  <2> HIDE DEF o
  <2>4. out'[s] = out[s] \/ out'[s] = Append(out[s], o)
    BY <2>2 DEF TypeOK, WritersOK
  <2>5. n \in DOMAIN Append(out[s], o) /\ Append(out[s], o)[n] = out[s][n]
    BY <2>3, AppendKeeps
  <2> QED BY <1>0, <2>4, <2>5
<1>4. UNCHANGED vars => UNCHANGED out
  BY DEF vars, line
<1> QED BY <1>0, <1>1, <1>2, <1>3, <1>4 DEF Next

\* An instruction that gives a task is a Call.
LEMMA ExecuteIsCall ==
    ASSUME NEW o \in Instruction, o.type = "execute", o.change = NoChange
    PROVE o = Call(o.task, o.to)
BY DEF Instruction, Call, Out

\* What servers got, and the end of a writer, stay.
LEMMA GivenStays ==
    ASSUME RpcInv, [Next]_vars, NEW s \in Conns
    PROVE /\ given[s] \subseteq given'[s]
          /\ writer[s] \in {"end", "ended"} => writer'[s] \in {"end", "ended"} /\ cur'[s] = cur[s]
<1> USE DEF RpcInv, TypeOK
<1>1. ASSUME NEW d \in Conns, Peer(d) PROVE UNCHANGED <<given, writer, cur>>
  BY <1>1 DEF Peer, NewConnection, PeerBreak, Processing, hist
<1>2. ASSUME NEW d \in Conns, Reader(d)
      PROVE UNCHANGED <<given, cur>> /\ (UNCHANGED writer \/ Put(d))
  BY <1>2 DEF Reader, LookGroup, CreateGroup, AppendBackChannel, ReadError, LeaveServers,
              RemoveBackChannel, Delete, RemoveConnection, Close, hist
<1>3. ASSUME NEW w \in Workers, Worker(w) PROVE UNCHANGED <<given, writer, cur>>
  BY <1>3 DEF Worker, hist
<1>4. UNCHANGED vars => UNCHANGED <<given, writer, cur>>
  BY DEF vars, hist
<1>5. ASSUME NEW d \in Conns, Put(d), Reader(d)
      PROVE writer[s] \in {"end", "ended"} => writer'[s] = writer[s]
  <2>1. writer' = [writer EXCEPT ![d] = "recv"] /\ reader[d] = "put"
    BY <1>5 DEF Put, Goto
  <2>2. writer[d] = "none"
    BY <2>1 DEF GroupInv, ServerInv
  <2> QED BY <2>1, <2>2 DEF WritersOK
<1>6. ASSUME NEW d \in Conns, Writer(d)
      PROVE /\ given[s] \subseteq given'[s]
            /\ writer[s] \in {"end", "ended"} =>
                  writer'[s] \in {"end", "ended"} /\ cur'[s] = cur[s]
  <2>1. CASE Write(d)
    <3> DEFINE o == Head(out[d])
    <3>1. /\ given' = IF o.type = "execute" THEN [given EXCEPT ![d] = @ \cup {o.task}] ELSE given
          /\ writer[d] = "recv" /\ cur' = [cur EXCEPT ![d] = o]
      BY <2>1 DEF Write, WriterGoto
    <3>2. s # d => writer'[s] = writer[s]
      BY <2>1 DEF Write, WriterGoto, WritersOK
    <3> HIDE DEF o
    <3> QED BY <3>1, <3>2 DEF WritersOK, HistoryOK
  <2>2. CASE WriteError(d)
    <3>1. /\ UNCHANGED given /\ writer[d] = "recv"
          /\ \E place \in {"exit", "end"} : writer' = [writer EXCEPT ![d] = place]
          /\ cur' = [cur EXCEPT ![d] = Head(out[d])]
      BY <2>2 DEF WriteError, WriterGoto, hist
    <3> QED BY <3>1 DEF WritersOK
  <2>3. CASE CloseSocket(d) \/ EndWriter(d)
    <3>1. /\ UNCHANGED <<given, cur>>
          /\ \E place \in {"end", "ended"} : writer' = [writer EXCEPT ![d] = place]
      BY <2>3 DEF CloseSocket, EndWriter, WriterGoto, hist
    <3> QED BY <3>1 DEF WritersOK
  <2>4. CASE UpdateState(d)
    <3>1. /\ UNCHANGED <<given, cur>> /\ writer[d] = "update"
          /\ writer' = [writer EXCEPT ![d] = "recv"]
      BY <2>4 DEF UpdateState, WriterGoto, hist
    <3> QED BY <3>1 DEF WritersOK
  <2>5. CASE UpdateStateNil(d)
    BY <2>5, PanicSteps
  <2> QED BY <1>6, <2>1, <2>2, <2>3, <2>4, <2>5 DEF Writer
<1> QED BY <1>1, <1>2, <1>3, <1>4, <1>5, <1>6 DEF Next

\* A task that has a server keeps it.
LEMMA PlacedStays ==
    ASSUME PlaceInv, [Next]_vars, NEW t, NEW s \in Conns, Placed(t, s) PROVE Placed(t, s)'
<1> USE DEF PlaceInv
<1>1. /\ given[s] \subseteq given'[s] /\ lost \subseteq lost' /\ (Dead(s) => Dead(s)')
      /\ writer[s] \in {"end", "ended"} => writer'[s] \in {"end", "ended"} /\ cur'[s] = cur[s]
  BY GivenStays, DeadStays DEF RpcInv
<1>2. CASE t \in given[s] \/ Call(t, s) \in lost
  BY <1>1, <1>2 DEF Placed, Call
<1>3. CASE Dead(s) /\ writer[s] \in {"end", "ended"} /\ cur[s] = Call(t, s)
  BY <1>1, <1>3 DEF Placed, Call
<1>4. ASSUME NEW w \in Workers, NEW n \in DOMAIN outs[w], outs[w][n].type = "execute",
             outs[w][n].task = t, outs[w][n].to = s
      PROVE Placed(t, s)'
  <2> DEFINE o == outs[w][n]
  <2>1. CASE \E k \in DOMAIN outs'[w] : outs'[w][k] = o
    BY <1>4, <2>1 DEF Placed, Routed
  <2>2. CASE n = 1 /\ Worker(w) /\ (SendMissed(w) \/ Send(w))
    <3>1. outs[w] \in Seq(Instruction) /\ outs[w] # <<>>
      BY <2>2, SentOne DEF RpcInv
    <3>2. o \in Instruction /\ o = Head(outs[w])
      BY <2>2, <3>1, TailElements
    <3>3. o = Call(t, s)
      BY <1>4, <3>2, ExecuteIsCall DEF RepliesInv, Push
    <3>4. CASE Send(w)
      <4>1. out' = [out EXCEPT ![s] = Append(@, o)]
        BY <1>4, <3>2, <3>4 DEF Send
      <4> HIDE DEF o
      <4>2. out'[s] = Append(out[s], o) /\ out[s] \in Seq(Instruction)
        BY <4>1 DEF RpcInv, TypeOK, WritersOK
      <4>3. \E k \in DOMAIN out'[s] : out'[s][k] = o
        BY <3>2, <4>2, AppendKeeps
      <4> QED BY <3>3, <4>3 DEF Placed, Routed, Call, Out
    <3>5. CASE SendMissed(w)
      <4>1. o \in lost'
        BY <3>2, <3>5 DEF SendMissed
      <4> QED BY <3>3, <4>1 DEF Placed, Call
    <3> QED BY <2>2, <3>4, <3>5
  <2>3. CASE UNCHANGED outs
    BY <1>4, <2>3 DEF Placed, Routed
  <2>4. UNCHANGED outs \/ \E v \in Workers : Worker(v)
    BY DEF Next, Peer, Reader, Writer, work, vars
  <2> QED BY <2>1, <2>2, <2>3, <2>4, OutsKept DEF RpcInv
<1>5. ASSUME NEW n \in DOMAIN out[s], out[s][n].type = "execute", out[s][n].task = t
      PROVE Placed(t, s)'
  <2> DEFINE o == out[s][n]
  <2>1. CASE \E k \in DOMAIN out'[s] : out'[s][k] = o
    BY <1>5, <2>1 DEF Placed, Routed
  <2>2. CASE n = 1 /\ (Write(s) \/ WriteError(s))
    <3>1. out[s] \in Seq(Instruction) /\ out[s] # <<>>
      BY <2>2 DEF Write, WriteError, RpcInv, TypeOK, WritersOK
    <3>2. o \in Instruction /\ o = Head(out[s]) /\ o.to = s
      BY <2>2, <3>1, TailElements DEF RpcInv, TypeOK, WritersOK
    <3>3. o = Call(t, s)
      BY <1>5, <3>2, ExecuteIsCall DEF RepliesInv, Push
    <3>4. CASE Write(s)
      <4>1. given' = [given EXCEPT ![s] = @ \cup {t}]
        BY <1>5, <3>2, <3>4 DEF Write
      <4>2. t \in given'[s]
        BY <4>1 DEF RpcInv, TypeOK, HistoryOK
      <4> QED BY <4>2 DEF Placed
    <3>5. CASE WriteError(s)
      <4>1. /\ Dead(s) /\ writer' = [writer EXCEPT ![s] = "end"]
            /\ cur' = [cur EXCEPT ![s] = o]
        BY <1>5, <3>2, <3>5 DEF WriteError, WriterGoto, Dead
      <4>2. writer'[s] = "end" /\ cur'[s] = o
        BY <4>1 DEF RpcInv, TypeOK, WritersOK
      <4> QED BY <1>1, <3>3, <4>1, <4>2 DEF Placed, Call
    <3> QED BY <2>2, <3>4, <3>5
  <2> QED BY <2>1, <2>2, OutKept DEF RpcInv
<1> QED BY <1>2, <1>3, <1>4, <1>5 DEF Placed, Routed

LEMMA TasksPlacedNext ==
    ASSUME PlaceInv, TasksPlaced, [Next]_vars PROVE TasksPlaced'
<1>1. tasks \in Nat
  BY RpcAssumption DEF PlaceInv, RpcInv, TypeOK, TasksOK
<1>2. \A t \in 1..tasks : \E s \in Conns : Placed(t, s)'
  BY PlacedStays DEF TasksPlaced
<1>3. UNCHANGED tasks \/ \E w \in Workers, s \in Conns : ProcRouteRpc(w, s)
  <2>1. ASSUME NEW w \in Workers, Worker(w)
        PROVE UNCHANGED tasks \/ \E s \in Conns : ProcRouteRpc(w, s)
    BY <2>1, PanicSteps DEF Worker, Take, ProcAuth, RefuseRegistration, RegisterClient,
        RegisterClientMethods, AppendMethods, ProcUpdateStatus, GetCidVariants, NoServer,
        SkipBusy, ResultWithoutTask, ResultReturned, NoHandler, ExitHandler, SendLookup,
        SendMissed, Send, task
  <2> QED BY <2>1 DEF Next, Peer, Reader, Writer, vars, task
<1>4. ASSUME NEW w \in Workers, NEW s \in Conns, ProcRouteRpc(w, s), NEW t, t = tasks + 1
      PROVE Placed(t, s)'
  <2> DEFINE is == <<Ok(w, NoChange, t), Call(t, s)>>
  <2>1. outs' = [outs EXCEPT ![w] = is]
    BY <1>4 DEF ProcRouteRpc, Answer, Call
  <2>2. 2 \in DOMAIN is /\ is[2] = Call(t, s)
    OBVIOUS
  <2> HIDE DEF is
  <2>3. outs'[w] = is
    BY <2>1 DEF PlaceInv, RpcInv, TypeOK, WorkersOK
  <2>4. Call(t, s).type = "execute" /\ Call(t, s).task = t /\ Call(t, s).to = s
    BY DEF Call, Out
  <2> QED BY <2>2, <2>3, <2>4 DEF Placed, Routed
<1>5. CASE UNCHANGED tasks
  BY <1>2, <1>5 DEF TasksPlaced
<1>6. CASE \E w \in Workers, s \in Conns : ProcRouteRpc(w, s)
  <2>1. tasks' = tasks + 1
    BY <1>6 DEF ProcRouteRpc
  <2>2. ASSUME NEW t \in 1..tasks' PROVE t \in 1..tasks \/ t = tasks + 1
    BY <1>1, <2>1
  <2>3. \A t \in 1..tasks' : \E s \in Conns : Placed(t, s)'
    BY <1>2, <1>4, <1>6, <2>2
  <2> QED BY <2>3 DEF TasksPlaced
<1> QED BY <1>3, <1>5, <1>6

-----------------------------------------------------------------------------
\* No command is left without an answer, unless its answer has nowhere to go.

\* The connection c is gone, or what was for it came before its back channel.
Deprived(c) == Dead(c) \/ \E o \in lost : o.to = c

\* No fewer commands are pending than the peer waits for.
Covered(c) == Deprived(c) \/ waiting[c] <= Cardinality(Pending(c))

FlowInv == PlaceInv /\ TasksPlaced /\ AnswerInv /\ \A c \in Conns : Covered(c)

\* The first of a queue is taken: those behind it are still there.
LEMMA CoveredTail ==
    ASSUME TypeOK, NEW c \in Conns, out[c] # <<>>, out'[c] = Tail(out[c]),
           UNCHANGED <<in, worker, job, outs>>
    PROVE Injects(IF Push(out[c][1]) THEN Pending(c) ELSE Pending(c) \ {<<"out", 1>>}, Pending(c)')
<1> DEFINE S == IF Push(out[c][1]) THEN Pending(c) ELSE Pending(c) \ {<<"out", 1>>}
           f == [p \in S |-> IF p[1] = "out" THEN <<"out", p[2] - 1>> ELSE p]
<1>1. out[c] \in Seq(Instruction) /\ DOMAIN out[c] \subseteq Nat \ {0}
  BY LenProperties DEF TypeOK, WritersOK
<1>2. ASSUME NEW p \in S
      PROVE /\ f[p] \in Pending(c)'
            /\ \/ p[1] # "out" /\ f[p] = p
               \/ \E n \in Nat \ {0} : p = <<"out", n>> /\ f[p] = <<"out", n - 1>>
  <2>1. \/ \E n \in DOMAIN in : in[n].cid = c /\ p = <<"in", n>>
        \/ \E w \in Workers : Owes(w, c) /\ p = <<"worker", w>>
        \/ \E n \in DOMAIN out[c] : ~Push(out[c][n]) /\ p = <<"out", n>>
    BY <1>2, PendingMember
  <2>2. CASE \E n \in DOMAIN in : in[n].cid = c /\ p = <<"in", n>>
    <3>1. p \in Pending(c)' /\ p[1] = "in"
      BY <2>2 DEF Pending
    <3> QED BY <1>2, <3>1
  <2>3. CASE \E w \in Workers : Owes(w, c) /\ p = <<"worker", w>>
    <3>1. p \in Pending(c)' /\ p[1] = "worker"
      BY <2>3 DEF Pending, Owes, Push
    <3> QED BY <1>2, <3>1
  <2>4. CASE \E n \in DOMAIN out[c] : ~Push(out[c][n]) /\ p = <<"out", n>>
    <3>1. PICK n \in DOMAIN out[c] : ~Push(out[c][n]) /\ p = <<"out", n>>
      BY <2>4
    <3>2. n # 1
      BY <1>2, <3>1
    <3>3. n - 1 \in DOMAIN out'[c] /\ out'[c][n - 1] = out[c][n]
      BY <1>1, <3>2, TailKeeps
    <3>4. <<"out", n - 1>> \in Pending(c)'
      BY <3>1, <3>3 DEF Pending, Push
    <3>5. f[p] = <<"out", n - 1>>
      BY <1>2, <3>1
    <3> QED BY <1>1, <3>1, <3>4, <3>5
  <2> QED BY <2>1, <2>2, <2>3, <2>4
<1>3. \A x, y \in S : f[x] = f[y] => x = y
  <2> SUFFICES ASSUME NEW x \in S, NEW y \in S, f[x] = f[y] PROVE x = y
    OBVIOUS
  <2>1. /\ \/ x[1] # "out" /\ f[x] = x
           \/ \E n \in Nat \ {0} : x = <<"out", n>> /\ f[x] = <<"out", n - 1>>
        /\ \/ y[1] # "out" /\ f[y] = y
           \/ \E n \in Nat \ {0} : y = <<"out", n>> /\ f[y] = <<"out", n - 1>>
    BY <1>2
  <2> HIDE DEF f, S
  <2> QED BY <2>1
<1>4. f \in [S -> Pending(c)']
  BY <1>2
<1> HIDE DEF f
<1> QED BY <1>3, <1>4 DEF Injects

\* A step of the writer answers the first, or leaves all pending.
LEMMA CoveredWriter ==
    ASSUME TypeOK, NEW d \in Conns, Writer(d), NEW c \in Conns
    PROVE \/ Dead(c)
          \/ Injects(Pending(c), Pending(c)') /\ waiting'[c] = waiting[c]
          \/ /\ <<"out", 1>> \in Pending(c) /\ waiting'[c] = waiting[c] - 1
             /\ Injects(Pending(c) \ {<<"out", 1>>}, Pending(c)')
<1>1. UNCHANGED <<in, worker, job, outs>>
  BY DEF Writer, work
<1>2. CASE out'[c] = out[c] /\ waiting'[c] = waiting[c]
  <2>1. Pending(c)' = Pending(c)
    BY <1>1, <1>2 DEF Pending, Owes, Push
  <2> QED BY <1>2, <2>1, InjectsSubset
<1>3. CASE Write(d)
  <2>1. /\ out[d] # <<>> /\ out' = [out EXCEPT ![d] = Tail(@)]
        /\ waiting' = IF Push(Head(out[d])) THEN waiting ELSE [waiting EXCEPT ![d] = @ - 1]
    BY <1>3 DEF Write, Push
  <2>2. CASE c # d
    <3>1. waiting'[c] = waiting[c] /\ out'[c] = out[c]
      BY <2>1, <2>2 DEF TypeOK, ConnectionsOK, WritersOK
    <3> QED BY <1>2, <3>1
  <2>3. CASE c = d
    <3>1. out[c] \in Seq(Instruction) /\ out'[c] = Tail(out[c])
      BY <2>1, <2>3 DEF TypeOK, WritersOK
    <3>2. Head(out[c]) = out[c][1] /\ 1 \in DOMAIN out[c]
      BY <2>1, <2>3, <3>1, TailElements
    <3>3. Injects(IF Push(out[c][1]) THEN Pending(c) ELSE Pending(c) \ {<<"out", 1>>}, Pending(c)')
      BY <1>1, <2>1, <2>3, <3>1, CoveredTail
    <3>4. CASE Push(out[c][1])
      BY <2>1, <2>3, <3>2, <3>3, <3>4
    <3>5. CASE ~Push(out[c][1])
      <4>1. <<"out", 1>> \in Pending(c)
        BY <3>2, <3>5, PendingMember
      <4>2. waiting'[c] = waiting[c] - 1
        BY <2>1, <2>3, <3>2, <3>5 DEF TypeOK, ConnectionsOK
      <4> QED BY <3>3, <3>5, <4>1, <4>2
    <3> QED BY <3>4, <3>5
  <2> QED BY <2>2, <2>3
<1>4. CASE WriteError(d)
  <2>1. Dead(d) /\ UNCHANGED waiting /\ out' = [out EXCEPT ![d] = Tail(@)]
    BY <1>4 DEF WriteError, Dead
  <2>2. c # d => out'[c] = out[c] /\ waiting'[c] = waiting[c]
    BY <2>1 DEF TypeOK, WritersOK
  <2> QED BY <1>2, <2>1, <2>2
<1>5. CASE CloseSocket(d) \/ EndWriter(d) \/ UpdateState(d)
  BY <1>2, <1>5 DEF CloseSocket, EndWriter, UpdateState
<1>6. CASE UpdateStateNil(d)
  BY <1>2, <1>6, PanicSteps
<1> QED BY <1>3, <1>4, <1>5, <1>6 DEF Writer

\* The first of the queue goes to the worker, those behind it are still there.
LEMMA CoveredTake ==
    ASSUME TypeOK, NEW w \in Workers, Take(w), NEW c \in Conns
    PROVE Injects(Pending(c), Pending(c)')
<1> DEFINE f == [p \in Pending(c) |-> IF p = <<"in", 1>> THEN <<"worker", w>>
                                      ELSE IF p[1] = "in" THEN <<"in", p[2] - 1>> ELSE p]
<1>1. in \in Seq(Job) /\ in # <<>> /\ in' = Tail(in) /\ worker[w] = "idle" /\ UNCHANGED <<out, outs>>
  BY DEF Take, TypeOK, WorkersOK, line
<1>2. DOMAIN in \subseteq Nat \ {0} /\ 1 \in DOMAIN in /\ Head(in) = in[1] /\ in[1] \in Job
  BY <1>1, TailElements, LenProperties
<1>3. /\ worker'[w] = in[1].type /\ job'[w] = in[1] /\ in[1].type \notin {"idle", "send"}
      /\ \A v \in Workers : v # w => worker'[v] = worker[v] /\ job'[v] = job[v]
  <2>1. in[1].type \notin {"idle", "send"}
    BY <1>2 DEF Job, CommandTypes
  <2>2. /\ job' = [job EXCEPT ![w] = in[1]] /\ worker' = [worker EXCEPT ![w] = in[1].type]
    BY <1>2 DEF Take
  <2> QED BY <2>1, <2>2 DEF TypeOK, WorkersOK
<1>4. ASSUME NEW p \in Pending(c)
      PROVE /\ f[p] \in Pending(c)'
            /\ \/ p[1] # "in" /\ p # <<"worker", w>> /\ f[p] = p
               \/ p = <<"in", 1>> /\ f[p] = <<"worker", w>>
               \/ \E n \in Nat \ {0} : p = <<"in", n>> /\ f[p] = <<"in", n - 1>>
  <2>1. \/ \E n \in DOMAIN in : in[n].cid = c /\ p = <<"in", n>>
        \/ \E v \in Workers : Owes(v, c) /\ p = <<"worker", v>>
        \/ \E n \in DOMAIN out[c] : ~Push(out[c][n]) /\ p = <<"out", n>>
    BY <1>4, PendingMember
  <2>2. CASE \E n \in DOMAIN in : in[n].cid = c /\ p = <<"in", n>>
    <3>1. PICK n \in DOMAIN in : in[n].cid = c /\ p = <<"in", n>>
      BY <2>2
    <3>2. CASE n = 1
      <4>1. Owes(w, c)'
        BY <1>3, <3>1, <3>2 DEF Owes
      <4>2. <<"worker", w>> \in Pending(c)'
        BY <4>1 DEF Pending
      <4> QED BY <1>4, <3>1, <3>2, <4>2
    <3>3. CASE n # 1
      <4>1. n - 1 \in DOMAIN in' /\ in'[n - 1] = in[n]
        BY <1>1, <3>3, TailKeeps
      <4>2. <<"in", n - 1>> \in Pending(c)'
        BY <3>1, <4>1 DEF Pending
      <4>3. f[p] = <<"in", n - 1>>
        BY <1>4, <3>1, <3>3
      <4> QED BY <1>2, <3>1, <4>2, <4>3
    <3> QED BY <3>2, <3>3
  <2>3. CASE \E v \in Workers : Owes(v, c) /\ p = <<"worker", v>>
    <3>1. PICK v \in Workers : Owes(v, c) /\ p = <<"worker", v>>
      BY <2>3
    <3>2. v # w
      BY <1>1, <3>1 DEF Owes
    <3>3. Owes(v, c)'
      BY <1>1, <1>3, <3>1, <3>2 DEF Owes, Push
    <3>4. p \in Pending(c)' /\ p # <<"worker", w>> /\ p[1] # "in"
      BY <3>1, <3>2, <3>3 DEF Pending
    <3> QED BY <1>4, <3>4
  <2>4. CASE \E n \in DOMAIN out[c] : ~Push(out[c][n]) /\ p = <<"out", n>>
    <3>1. p \in Pending(c)' /\ p # <<"worker", w>> /\ p[1] # "in"
      BY <1>1, <2>4 DEF Pending, Push
    <3> QED BY <1>4, <3>1
  <2> QED BY <2>1, <2>2, <2>3, <2>4
<1>5. \A x, y \in Pending(c) : f[x] = f[y] => x = y
  <2> SUFFICES ASSUME NEW x \in Pending(c), NEW y \in Pending(c), f[x] = f[y] PROVE x = y
    OBVIOUS
  <2>1. /\ \/ x[1] # "in" /\ x # <<"worker", w>> /\ f[x] = x
           \/ x = <<"in", 1>> /\ f[x] = <<"worker", w>>
           \/ \E n \in Nat \ {0} : x = <<"in", n>> /\ f[x] = <<"in", n - 1>>
        /\ \/ y[1] # "in" /\ y # <<"worker", w>> /\ f[y] = y
           \/ y = <<"in", 1>> /\ f[y] = <<"worker", w>>
           \/ \E n \in Nat \ {0} : y = <<"in", n>> /\ f[y] = <<"in", n - 1>>
    BY <1>4
  <2> HIDE DEF f
  <2> QED BY <2>1
<1>6. f \in [Pending(c) -> Pending(c)']
  BY <1>4
<1> HIDE DEF f
<1> QED BY <1>5, <1>6 DEF Injects

LEMMA CoveredAnswer ==
    ASSUME TypeOK, NEW w \in Workers, worker[w] \notin {"idle", "send"},
           NEW is \in Seq(Instruction), Answer(w, is), is # <<>>, is[1].to = job[w].cid,
           ~Push(is[1]), NEW c \in Conns
    PROVE Pending(c) \subseteq Pending(c)'
<1>1. /\ outs'[w] = is /\ worker'[w] = "send"
      /\ \A v \in Workers : v # w => outs'[v] = outs[v] /\ worker'[v] = worker[v]
      /\ UNCHANGED <<job, in, out>>
  BY DEF Answer, line, TypeOK, WorkersOK
<1>2. \A v \in Workers : Owes(v, c) => Owes(v, c)'
  BY <1>1 DEF Owes, Push
<1> QED BY <1>1, <1>2 DEF Pending, Push

\* An answer that is sent is in the back channel, or it is lost.
LEMMA CoveredSend ==
    ASSUME TypeOK, NEW w \in Workers, SendMissed(w) \/ Send(w), NEW c \in Conns
    PROVE (\E o \in lost' : o.to = c) \/ Injects(Pending(c), Pending(c)')
<1> DEFINE o == outs[w][1]
           f == [p \in Pending(c) |->
                    IF p = <<"worker", w>> THEN <<"out", Len(out[c]) + 1>> ELSE p]
<1>1. outs[w] \in Seq(Instruction) /\ outs[w] # <<>> /\ worker[w] = "send"
  BY SentOne
<1>2. o \in Instruction /\ o = Head(outs[w])
  BY <1>1, TailElements
<1>3. /\ \A v \in Workers : v # w => outs'[v] = outs[v] /\ worker'[v] = worker[v]
      /\ UNCHANGED <<job, in>>
      /\ \/ UNCHANGED out /\ o \in lost'
         \/ out' = [out EXCEPT ![o.to] = Append(@, o)]
  <2>1. /\ outs' = [outs EXCEPT ![w] = Rest(w)]
        /\ worker' = [worker EXCEPT ![w] = IF Rest(w) = <<>> THEN "idle" ELSE "send"]
        /\ UNCHANGED <<job, in>>
    BY SentOne
  <2>2. \/ UNCHANGED out /\ o \in lost'
        \/ out' = [out EXCEPT ![o.to] = Append(@, o)]
    BY <1>2, SentOne
  <2> QED BY <2>1, <2>2 DEF TypeOK, WorkersOK
<1>4. /\ out[c] \in Seq(Instruction) /\ Len(out[c]) \in Nat /\ DOMAIN out[c] = 1..Len(out[c])
      /\ \A n \in DOMAIN out[c] : n \in DOMAIN out'[c] /\ out'[c][n] = out[c][n]
  <2>1. out[c] \in Seq(Instruction)
    BY DEF TypeOK, WritersOK
  <2> HIDE DEF o
  <2>2. out'[c] = out[c] \/ out'[c] = Append(out[c], o)
    BY <1>3 DEF TypeOK, WritersOK
  <2> QED BY <1>2, <2>1, <2>2, AppendKeeps, LenProperties
<1>5. \A v \in Workers : v # w => (Owes(v, c) => Owes(v, c)')
  BY <1>3 DEF Owes, Push
<1>6. ASSUME NEW p \in Pending(c), p # <<"worker", w>> PROVE p \in Pending(c)'
  <2>1. \/ \E n \in DOMAIN in : in[n].cid = c /\ p = <<"in", n>>
        \/ \E v \in Workers : Owes(v, c) /\ p = <<"worker", v>>
        \/ \E n \in DOMAIN out[c] : ~Push(out[c][n]) /\ p = <<"out", n>>
    BY <1>6, PendingMember
  <2>2. CASE \E n \in DOMAIN in : in[n].cid = c /\ p = <<"in", n>>
    BY <1>3, <2>2 DEF Pending
  <2>3. CASE \E v \in Workers : Owes(v, c) /\ p = <<"worker", v>>
    <3>1. \E v \in Workers : Owes(v, c)' /\ p = <<"worker", v>>
      BY <1>5, <1>6, <2>3
    <3> QED BY <3>1 DEF Pending
  <2>4. CASE \E n \in DOMAIN out[c] : ~Push(out[c][n]) /\ p = <<"out", n>>
    <3>1. \E n \in DOMAIN out'[c] : ~Push(out'[c][n]) /\ p = <<"out", n>>
      BY <1>4, <2>4
    <3> QED BY <3>1 DEF Pending, Push
  <2> QED BY <2>1, <2>2, <2>3, <2>4
<1>7. CASE <<"worker", w>> \notin Pending(c)
  <2>1. Pending(c) \subseteq Pending(c)'
    BY <1>6, <1>7
  <2> QED BY <2>1, InjectsSubset
<1>8. CASE <<"worker", w>> \in Pending(c) /\ out' = [out EXCEPT ![o.to] = Append(@, o)]
  <2>1. o.to = c /\ ~Push(o)
    BY <1>1, <1>8, PendingMember DEF Owes
  <2>2. out'[c] = Append(out[c], o)
    BY <1>8, <2>1 DEF TypeOK, WritersOK
  <2>3. Len(out[c]) + 1 \in DOMAIN out'[c] /\ out'[c][Len(out[c]) + 1] = o
    BY <1>2, <1>4, <2>2, AppendProperties, LenProperties
  <2>4. <<"out", Len(out[c]) + 1>> \in Pending(c)'
    BY <2>1, <2>3 DEF Pending, Push
  <2>5. <<"out", Len(out[c]) + 1>> \notin Pending(c)
    <3>1. Len(out[c]) + 1 \notin DOMAIN out[c]
      BY <1>4
    <3> QED BY <3>1, PendingMember
  <2>6. ASSUME NEW p \in Pending(c)
        PROVE /\ f[p] \in Pending(c)'
              /\ \/ p # <<"worker", w>> /\ p # <<"out", Len(out[c]) + 1>> /\ f[p] = p
                 \/ p = <<"worker", w>> /\ f[p] = <<"out", Len(out[c]) + 1>>
    BY <1>6, <2>4, <2>5
  <2>7. \A x, y \in Pending(c) : f[x] = f[y] => x = y
    <3> HIDE DEF f
    <3> QED BY <2>6
  <2>8. f \in [Pending(c) -> Pending(c)']
    BY <2>6
  <2> HIDE DEF f
  <2> QED BY <2>7, <2>8 DEF Injects
<1>9. CASE <<"worker", w>> \in Pending(c) /\ o \in lost'
  <2>1. o.to = c
    BY <1>1, <1>9, PendingMember DEF Owes
  <2> QED BY <1>9, <2>1
<1> QED BY <1>3, <1>7, <1>8, <1>9

LEMMA CoveredWorker ==
    ASSUME TypeOK, NEW w \in Workers, Worker(w), NEW c \in Conns
    PROVE (\E o \in lost' : o.to = c) \/ Injects(Pending(c), Pending(c)')
<1>1. CASE Take(w)
  BY <1>1, CoveredTake
<1>2. CASE \/ ProcAuth(w) \/ RefuseRegistration(w) \/ RegisterClient(w) \/ AppendMethods(w)
           \/ ProcUpdateStatus(w) \/ NoServer(w) \/ (\E s \in Conns : ProcRouteRpc(w, s))
           \/ ResultWithoutTask(w) \/ ResultReturned(w) \/ NoHandler(w) \/ ExitHandler(w)
  BY <1>2, HandlerReplies, CoveredAnswer, InjectsSubset
<1>3. CASE RegisterClientMethods(w) \/ GetCidVariants(w)
  <2>1. /\ UNCHANGED <<in, out, outs, job>> /\ worker[w] \in {"reg", "external"}
        /\ \E place \in {"append", "pick"} : worker' = [worker EXCEPT ![w] = place]
    BY <1>3 DEF RegisterClientMethods, GetCidVariants, line
  <2>2. \A v \in Workers :
            \/ worker'[v] = worker[v]
            \/ worker[v] \notin {"idle", "send"} /\ worker'[v] \notin {"idle", "send"}
    BY <2>1 DEF TypeOK, WorkersOK
  <2>3. Pending(c) \subseteq Pending(c)'
    BY <2>1, <2>2 DEF Pending, Owes, Push
  <2> QED BY <2>3, InjectsSubset
<1>4. CASE SendNil(w) \/ SendLookup(w) \/ SendClosed(w) \/ \E s \in Conns : SkipBusy(w, s)
  <2>1. UNCHANGED <<in, out, outs, job, worker>>
    BY <1>4, PanicSteps DEF SendLookup, SkipBusy, line
  <2>2. Pending(c) \subseteq Pending(c)'
    BY <2>1 DEF Pending, Owes, Push
  <2> QED BY <2>2, InjectsSubset
<1>5. CASE SendMissed(w) \/ Send(w)
  BY <1>5, CoveredSend
<1> QED BY <1>1, <1>2, <1>3, <1>4, <1>5 DEF Worker

\* Who is deprived of an answer stays so.
LEMMA DeprivedStays ==
    ASSUME TypeOK, RestInv, [Next]_vars, NEW c \in Conns, Deprived(c) PROVE Deprived(c)'
BY DeadStays DEF Deprived

\* What a step does to the commands of a connection that wait: one more is pending, one
\* is answered, or each of them keeps a place.
LEMMA CoveredStep ==
    ASSUME TypeOK, RestInv, [Next]_vars, NEW c \in Conns
    PROVE \/ Deprived(c)'
          \/ Injects(Pending(c), Pending(c)') /\ waiting'[c] = waiting[c]
          \/ /\ Pending(c)' = Pending(c) \cup {<<"in", Len(in) + 1>>}
             /\ <<"in", Len(in) + 1>> \notin Pending(c)
             /\ waiting'[c] = waiting[c] + 1
          \/ /\ <<"out", 1>> \in Pending(c) /\ waiting'[c] = waiting[c] - 1
             /\ Injects(Pending(c) \ {<<"out", 1>>}, Pending(c)')
<1>1. CASE UNCHANGED vars
  <2>1. UNCHANGED <<in, worker, job, outs, out, waiting>>
    BY <1>1 DEF vars, work, line
  <2>2. Pending(c) \subseteq Pending(c)'
    BY <2>1 DEF Pending, Owes, Push
  <2> QED BY <2>1, <2>2, InjectsSubset
<1>2. ASSUME NEW d \in Conns, Peer(d) \/ Reader(d)
      PROVE \/ Injects(Pending(c), Pending(c)') /\ waiting'[c] = waiting[c]
            \/ /\ Pending(c)' = Pending(c) \cup {<<"in", Len(in) + 1>>}
               /\ <<"in", Len(in) + 1>> \notin Pending(c)
               /\ waiting'[c] = waiting[c] + 1
  BY <1>2, PendingPeer, PendingReader, InjectsSubset
<1>3. CASE \E d \in Conns : Writer(d)
  <2>1. CASE Dead(c)
    BY <2>1, DeprivedStays DEF Deprived
  <2> QED BY <1>3, <2>1, CoveredWriter
<1>4. ASSUME NEW w \in Workers, Worker(w)
      PROVE Deprived(c)' \/ (Injects(Pending(c), Pending(c)') /\ waiting'[c] = waiting[c])
  <2>1. waiting'[c] = waiting[c]
    BY <1>4 DEF Worker
  <2> QED BY <1>4, <2>1, CoveredWorker DEF Deprived
<1> QED BY <1>1, <1>2, <1>3, <1>4 DEF Next

LEMMA CoveredNext ==
    ASSUME TypeOK, RestInv, [Next]_vars, NEW c \in Conns, Enough(c), Enough(c)', Covered(c)
    PROVE Covered(c)'
<1> DEFINE S == Pending(c)  T == Pending(c)'
<1>1. /\ waiting[c] \in Int /\ IsFiniteSet(S) /\ IsFiniteSet(T)
      /\ Cardinality(S) \in Nat /\ Cardinality(T) \in Nat
  BY FS_CardinalityType DEF TypeOK, ConnectionsOK, Enough
<1>2. Deprived(c) => Deprived(c)'
  BY DeprivedStays
<1> SUFFICES ASSUME ~Deprived(c)', waiting[c] <= Cardinality(S) PROVE waiting'[c] <= Cardinality(T)
  BY <1>2 DEF Covered
<1>3. \/ Injects(S, T) /\ waiting'[c] = waiting[c]
      \/ \E x : T = S \cup {x} /\ x \notin S /\ waiting'[c] = waiting[c] + 1
      \/ \E x : x \in S /\ waiting'[c] = waiting[c] - 1 /\ Injects(S \ {x}, T)
  BY CoveredStep
<1> HIDE DEF S, T
<1>4. CASE Injects(S, T) /\ waiting'[c] = waiting[c]
  <2>1. Cardinality(S) <= Cardinality(T)
    BY <1>1, <1>4, InjectsSmaller
  <2> QED BY <1>1, <1>4, <2>1
<1>5. ASSUME NEW x, T = S \cup {x}, x \notin S, waiting'[c] = waiting[c] + 1
      PROVE waiting'[c] <= Cardinality(T)
  <2>1. Cardinality(T) = Cardinality(S) + 1
    BY <1>1, <1>5, FS_AddElement
  <2> QED BY <1>1, <1>5, <2>1
<1>6. ASSUME NEW x, x \in S, waiting'[c] = waiting[c] - 1, Injects(S \ {x}, T)
      PROVE waiting'[c] <= Cardinality(T)
  <2>1. Cardinality(S \ {x}) = Cardinality(S) - 1
    BY <1>1, <1>6, FS_RemoveElement
  <2>2. Cardinality(S \ {x}) <= Cardinality(T)
    BY <1>1, <1>6, InjectsSmaller
  <2> QED BY <1>1, <1>6, <2>1, <2>2
<1> QED BY <1>3, <1>4, <1>5, <1>6

LEMMA FlowInvariant == Spec => []FlowInv
<1>1. Init => PlaceInv /\ TasksPlaced /\ \A c \in Conns : Covered(c)
  <2> SUFFICES ASSUME Init PROVE PlaceInv /\ TasksPlaced /\ \A c \in Conns : Covered(c)
    OBVIOUS
  <2>1. /\ tasks = 0 /\ in = <<>> /\ \A w \in Workers : worker[w] = "idle" /\ outs[w] = <<>>
        /\ \A c \in Conns : out[c] = <<>> /\ waiting[c] = 0
    BY DEF Init
  <2>2. PlaceInv
    BY <2>1, TypeInit, ServerInit, RestInit DEF PlaceInv, RpcInv, RepliesInv
  <2>3. TasksPlaced
    BY <2>1 DEF TasksPlaced
  <2>4. ASSUME NEW c \in Conns PROVE Covered(c)
    <3>1. Pending(c) = {}
      BY <2>1 DEF Pending, Owes
    <3> QED BY <2>1, <3>1, FS_EmptySet DEF Covered
  <2> QED BY <2>2, <2>3, <2>4
<1>2. FlowInv /\ AnswerInv' /\ [Next]_vars => FlowInv'
  <2> SUFFICES ASSUME FlowInv, AnswerInv', [Next]_vars PROVE FlowInv'
    OBVIOUS
  <2>1. RpcInv' /\ RepliesInv' /\ RestInv'
    BY RpcNext, RepliesNext, RestNext DEF FlowInv, PlaceInv, RpcInv
  <2>2. TasksPlaced'
    BY TasksPlacedNext DEF FlowInv
  <2>3. \A c \in Conns : Covered(c)'
    BY CoveredNext DEF FlowInv, PlaceInv, RpcInv, AnswerInv
  <2> QED BY <2>1, <2>2, <2>3 DEF FlowInv, PlaceInv
<1>3. PlaceInv /\ TasksPlaced /\ AnswerInv /\ (\A c \in Conns : Covered(c)) <=> FlowInv
  BY DEF FlowInv
<1> QED BY <1>1, <1>2, <1>3, AnswerInvariant, PTL DEF Spec

\* When nobody can go on, no worker has a lock unless a channel that is full keeps it, and
\* so no reader waits for one and no worker has anything left to send.
LEMMA AtRest ==
    ASSUME TypeOK, GroupInv, RestInv, ~Jammed, \A w \in Workers : ~WorkerFree(w),
           \A c \in Conns : ~ReaderFree(c) /\ ~WriterFree(c)
    PROVE \A w \in Workers : worker[w] = "idle" /\ outs[w] = <<>>
<1>1. \A w \in Workers : rlock[w] = Nobody
  <2> SUFFICES ASSUME NEW w \in Workers, rlock[w] # Nobody PROVE FALSE
    OBVIOUS
  <2> DEFINE c == Head(outs[w]).to
  <2>1. worker[w] = "send" /\ outs[w] # <<>> /\ c \in Conns /\ writer[c] # "none"
    BY HeadTo DEF RestInv
  <2>2. ~HasRoom(c)
    BY <2>1 DEF WorkerFree
  <2> HIDE DEF c
  <2>3. writer[c] = "recv"
    <3>1. writer[c] \in {"none", "recv", "update", "exit", "end", "ended"}
      BY <2>1 DEF TypeOK, WritersOK
    <3> QED BY <2>1, <2>2, <3>1 DEF HasRoom, WriterFree
  <2>4. out[c] # <<>>
    <3>1. Len(<<>>) = 0
      OBVIOUS
    <3> QED BY <2>2, <2>3, <3>1, RpcAssumption DEF HasRoom, Room
  <2>5. Unread(c)
    BY <2>1, <2>3, <2>4 DEF WriterFree
  <2> QED BY <2>1, <2>2, <2>5 DEF Jammed, JammedAt, c
<1>2. \A c \in Conns : reader[c] \notin {"put", "delete"}
  <2> SUFFICES ASSUME NEW c \in Conns, reader[c] \in {"put", "delete"} PROVE FALSE
    OBVIOUS
  <2>1. home[c] # Nobody
    BY DEF GroupInv
  <2>2. Unlock(home[c])
    BY <1>1, <2>1 DEF Unlock
  <2> QED BY <2>2 DEF ReaderFree
<1>3. \A o : ~Locked(o)
  BY <1>2 DEF Locked
<1>4. \A w \in Workers : worker[w] = "idle"
  BY <1>1, <1>3 DEF WorkerFree
<1> QED BY <1>4 DEF RestInv

\* When there is nothing to do, and no connection that does not read keeps a worker, no call
\* and no command is forgotten: neither by a worker that could not send the instruction
\* before it, nor by a reader, a writer or a handler that took an early way out.
THEOREM NothingForgotten == Spec => []NoneForgotten
<1>1. FlowInv => NoneForgotten
  <2> SUFFICES ASSUME FlowInv, \A c \in Conns : ~ReaderFree(c) /\ ~WriterFree(c),
                      Workers # {}, \A w \in Workers : ~WorkerFree(w), ~Jammed
               PROVE /\ \A t \in 1..tasks : \E s \in Conns :
                           t \in given[s] \/ CutOff(t, s) \/ (Unread(s) /\ Routed(t, s))
                     /\ \A c \in Conns :
                           \/ waiting[c] = 0 \/ sock[c] # "open" \/ Unread(c)
                           \/ \E o \in lost : o.to = c
    BY DEF NoneForgotten
  <2> USE DEF FlowInv, PlaceInv, RpcInv
  <2>1. ASSUME NEW c \in Conns, sock[c] = "open", out[c] # <<>> PROVE Unread(c)
    <3>1. writer[c] \notin {"none", "ended"}
      BY <2>1 DEF RestInv, Ending, Dead
    <3>2. writer[c] \in {"none", "recv", "update", "exit", "end", "ended"}
      BY DEF TypeOK, WritersOK
    <3> QED BY <2>1, <3>1, <3>2 DEF WriterFree
  <2>2. \A w \in Workers : worker[w] = "idle" /\ outs[w] = <<>>
    BY AtRest
  <2>3. ASSUME NEW t \in 1..tasks
        PROVE \E s \in Conns : t \in given[s] \/ CutOff(t, s) \/ (Unread(s) /\ Routed(t, s))
    <3>1. PICK s \in Conns : Placed(t, s)
      BY DEF TasksPlaced
    <3>2. CASE t \in given[s]
      BY <3>2
    <3>3. CASE Routed(t, s)
      <4>1. \E n \in DOMAIN out[s] : TRUE
        BY <2>2, <3>3, EmptySeq DEF Routed
      <4>2. out[s] # <<>>
        BY <4>1, EmptySeq
      <4> QED BY <2>1, <3>3, <4>2 DEF CutOff
    <3>4. CASE Call(t, s) \in lost
      <4>1. Call(t, s).type = "execute" /\ Call(t, s).to = s
        BY DEF Call, Out
      <4>2. chan[s] = "removed" \/ Replaced(s)
        BY <3>4, <4>1 DEF LostOnlyGone
      <4>3. Dead(s) \/ Replaced(s)
        BY <4>2 DEF RestInv, Ending
      <4> QED BY <3>4, <4>3 DEF CutOff, Dead, Call
    <3>5. CASE Dead(s) /\ cur[s] = Call(t, s)
      BY <3>5 DEF CutOff, Dead, Call
    <3> QED BY <3>1, <3>2, <3>3, <3>4, <3>5 DEF Placed
  <2>4. ASSUME NEW c \in Conns, sock[c] = "open", ~Unread(c), ~ \E o \in lost : o.to = c
        PROVE waiting[c] = 0
    <3>1. in = <<>> /\ out[c] = <<>>
      BY <2>1, <2>2, <2>4 DEF WorkerFree
    <3>2. Pending(c) = {}
      BY <2>2, <3>1, EmptySeq DEF Pending, Owes
    <3>3. waiting[c] \in Int /\ waiting[c] <= 0 /\ 0 <= waiting[c]
      BY <2>4, <3>2, FS_EmptySet DEF Covered, Deprived, Dead, AnswerInv, Enough, TypeOK,
                                     ConnectionsOK
    <3> QED BY <3>3
  <2> QED BY <2>3, <2>4
<1> QED BY <1>1, FlowInvariant, PTL
=============================================================================
