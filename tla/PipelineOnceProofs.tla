--------------------------- MODULE PipelineOnceProofs ---------------------------
(***************************************************************************)
(* Proofs that the pipeline handles every command once, for all constants: *)
(* AtMostOnce, and that Pipeline implements Delivery.                      *)
(***************************************************************************)
EXTENDS PipelineProofs

Ids == Nat \ {0}

\* The command is still with its client, or with the reader before Processing.
Fresh(c, n) == n > cmd[c].id \/ (n = cmd[c].id /\ reader[c] = "process")

\* A command is in exactly one of the places it goes through.
OnePlace(c, n) ==
    /\ \/ Fresh(c, n) \/ InQueue(c, n) \/ InWorker(c, n) \/ InBack(c, n) \/ AtWriter(c, n)
       \/ Answered(c, n) \/ <<c, n>> \in dropped \/ <<c, n>> \in unwritten
    /\ InQueue(c, n) => ~Fresh(c, n)
    /\ InWorker(c, n) => ~Fresh(c, n) /\ ~InQueue(c, n)
    /\ InBack(c, n) => ~Fresh(c, n) /\ ~InQueue(c, n) /\ ~InWorker(c, n)
    /\ AtWriter(c, n) => ~Fresh(c, n) /\ ~InQueue(c, n) /\ ~InWorker(c, n) /\ ~InBack(c, n)
    /\ Answered(c, n) \/ <<c, n>> \in dropped \/ <<c, n>> \in unwritten =>
          /\ ~Fresh(c, n) /\ ~InQueue(c, n) /\ ~InWorker(c, n)
          /\ ~InBack(c, n) /\ ~AtWriter(c, n)
    /\ Answered(c, n) => <<c, n>> \notin dropped /\ <<c, n>> \notin unwritten
    /\ <<c, n>> \in dropped => <<c, n>> \notin unwritten

\* ... and no place has two copies of it.
QueueOnce ==
    \A i, j \in 1..Len(in) : in[i].cid = in[j].cid /\ in[i].id = in[j].id => i = j
WorkersOnce ==
    \A v, w \in Workers :
        /\ worker[v] \in {"route", "send"} /\ worker[w] \in {"route", "send"}
        /\ job[v].cid = job[w].cid /\ job[v].id = job[w].id
        => v = w
BackOnce ==
    \A c \in Conns : \A i, j \in 1..Len(back[c]) :
        back[c][i].id = back[c][j].id /\ back[c][i].id \in Ids => i = j
WrittenOnce ==
    \A c \in Conns : \A i, j \in 1..Len(written[c]) : written[c][i] = written[c][j] => i = j

WithinBound == \A c \in Conns : cmd[c].id <= MaxCmds[c]

OnceInv ==
    /\ WithinBound /\ QueueOnce /\ WorkersOnce /\ BackOnce /\ WrittenOnce
    /\ \A c \in Conns, n \in Ids : OnePlace(c, n)

-----------------------------------------------------------------------------
\* What a step leaves where it was.

FreshSame == \A c \in Conns, n \in Ids : Fresh(c, n)' <=> Fresh(c, n)
QueueSame == \A c \in Conns, n \in Ids : InQueue(c, n)' <=> InQueue(c, n)
WorkersSame == \A c \in Conns, n \in Ids : InWorker(c, n)' <=> InWorker(c, n)
BackSame == \A c \in Conns, n \in Ids : InBack(c, n)' <=> InBack(c, n)
WriterSame == \A c \in Conns, n \in Ids : AtWriter(c, n)' <=> AtWriter(c, n)
WrittenSame == \A c \in Conns, n \in Ids : Answered(c, n)' <=> Answered(c, n)
LossSame == UNCHANGED <<dropped, unwritten>>

LEMMA FreshFrame == ASSUME UNCHANGED <<cmd, reader>> PROVE FreshSame
  BY DEF FreshSame, Fresh
LEMMA QueueFrame == ASSUME UNCHANGED in PROVE QueueSame /\ (QueueOnce => QueueOnce')
  BY DEF QueueSame, InQueue, QueueOnce
LEMMA WorkersFrame ==
    ASSUME UNCHANGED <<worker, job>> PROVE WorkersSame /\ (WorkersOnce => WorkersOnce')
  BY DEF WorkersSame, InWorker, WorkersOnce
LEMMA BackFrame == ASSUME UNCHANGED back PROVE BackSame /\ (BackOnce => BackOnce')
  BY DEF BackSame, InBack, BackOnce
LEMMA WriterFrameSame == ASSUME UNCHANGED <<writer, cur>> PROVE WriterSame
  BY DEF WriterSame, AtWriter
LEMMA WrittenFrame ==
    ASSUME UNCHANGED written PROVE WrittenSame /\ (WrittenOnce => WrittenOnce')
  BY DEF WrittenSame, Answered, WrittenOnce

\* Every command stays in its place.
AllSame ==
    /\ FreshSame /\ QueueSame /\ WorkersSame /\ BackSame /\ WriterSame /\ WrittenSame /\ LossSame
    /\ (WithinBound => WithinBound') /\ (QueueOnce => QueueOnce') /\ (WorkersOnce => WorkersOnce')
    /\ (BackOnce => BackOnce') /\ (WrittenOnce => WrittenOnce')

\* Only the command m moves, out of P into Q.
LEMMA ProcessingMoves ==
    ASSUME TypeOK, CommandInv, OnceInv, NEW c \in Conns, Processing(c), ReaderFrame
    PROVE  /\ cmd[c].id \in Ids /\ Fresh(c, cmd[c].id)
           /\ \A d \in Conns, n \in Ids :
                /\ Fresh(d, n)' <=> Fresh(d, n) /\ <<d, n>> # <<c, cmd[c].id>>
                /\ InQueue(d, n)' <=> InQueue(d, n) \/ <<d, n>> = <<c, cmd[c].id>>
           /\ WorkersSame /\ BackSame /\ WriterSame /\ WrittenSame /\ LossSame
           /\ WithinBound' /\ QueueOnce' /\ WorkersOnce' /\ BackOnce' /\ WrittenOnce'
<1> DEFINE n0 == cmd[c].id
<1>1. cmd[c] \in Instructions /\ cmd[c].cid = c /\ n0 \in Ids /\ in \in Seq(Instructions)
  BY DEF TypeOK, ReadersOK, QueuesOK, Processing, ReaderGoto, Instructions, Ids, CommandInv
<1>2. reader[c] = "process" /\ reader'[c] # "process" /\ cmd' = cmd
      /\ (\A d \in Conns : d # c => reader'[d] = reader[d])
  BY DEF TypeOK, ReadersOK, Processing, ReaderGoto
<1>3. Fresh(c, n0)
  BY <1>2 DEF Fresh
<1>4. \A d \in Conns, n \in Ids : Fresh(d, n)' <=> Fresh(d, n) /\ <<d, n>> # <<c, n0>>
  <2> SUFFICES ASSUME NEW d \in Conns, NEW n \in Ids
               PROVE  Fresh(d, n)' <=> Fresh(d, n) /\ <<d, n>> # <<c, n0>>
    OBVIOUS
  <2>1. CASE d = c
    BY <1>1, <1>2, <2>1 DEF Fresh, Ids
  <2>2. CASE d # c
    BY <1>2, <2>2 DEF Fresh
  <2> QED BY <2>1, <2>2
<1>5. /\ Len(in') = Len(in) + 1 /\ Len(in) \in Nat
      /\ \A i \in 1..Len(in) : in'[i] = in[i]
      /\ in'[Len(in) + 1] = cmd[c]
  BY <1>1, AppendProperties, LenProperties DEF Processing, Enqueue
<1>6. \A d \in Conns, n \in Ids : InQueue(d, n)' <=> InQueue(d, n) \/ <<d, n>> = <<c, n0>>
  <2> SUFFICES ASSUME NEW d \in Conns, NEW n \in Ids
               PROVE  InQueue(d, n)' <=> InQueue(d, n) \/ <<d, n>> = <<c, n0>>
    OBVIOUS
  <2>1. ASSUME InQueue(d, n)' PROVE InQueue(d, n) \/ <<d, n>> = <<c, n0>>
    BY <1>1, <1>5, <2>1 DEF InQueue
  <2>2. ASSUME InQueue(d, n) PROVE InQueue(d, n)'
    BY <1>5, <2>2 DEF InQueue
  <2>3. ASSUME <<d, n>> = <<c, n0>> PROVE InQueue(d, n)'
    <3>1. Len(in) + 1 \in 1..Len(in')
      BY <1>5
    <3> QED BY <1>1, <1>5, <2>3, <3>1 DEF InQueue
  <2> QED BY <2>1, <2>2, <2>3
<1>7. QueueOnce'
  <2>1. ~InQueue(c, n0)
    BY <1>1, <1>3 DEF OnceInv, OnePlace
  <2> QED BY <1>1, <1>5, <2>1 DEF OnceInv, QueueOnce, InQueue
<1>8. WithinBound'
  BY <1>2 DEF OnceInv, WithinBound
<1> QED BY <1>1, <1>3, <1>4, <1>6, <1>7, <1>8, WorkersFrame, BackFrame, WriterFrameSame, WrittenFrame
        DEF Processing, ReaderFrame, hist, OnceInv, LossSame, WriterSame, AtWriter

LEMMA WorkerTakeMoves ==
    ASSUME TypeOK, OnceInv, NEW w \in Workers, WorkerTake(w), WorkerFrame
    PROVE  LET h == Head(in) IN
           /\ h.cid \in Conns /\ h.id \in Ids /\ InQueue(h.cid, h.id)
           /\ \A d \in Conns, n \in Ids :
                /\ InQueue(d, n)' <=> InQueue(d, n) /\ <<d, n>> # <<h.cid, h.id>>
                /\ InWorker(d, n)' <=> InWorker(d, n) \/ <<d, n>> = <<h.cid, h.id>>
           /\ FreshSame /\ BackSame /\ WriterSame /\ WrittenSame /\ LossSame
           /\ WithinBound' /\ QueueOnce' /\ WorkersOnce' /\ BackOnce' /\ WrittenOnce'
<1> DEFINE h == Head(in)
<1>1. in \in Seq(Instructions) /\ in # <<>> /\ in' = Tail(in)
  BY DEF TypeOK, QueuesOK, WorkerTake
<1>2. /\ Len(in) \in Nat \ {0} /\ in[1] = h /\ h \in Instructions
      /\ Len(in') = Len(in) - 1
      /\ \A i \in 1..Len(in') : in'[i] = in[i + 1]
  BY <1>1, HeadTailProperties, LenProperties, EmptySeq
<1>3. h.cid \in Conns /\ h.id \in Ids
  BY <1>2 DEF Instructions, Ids
<1>4. InQueue(h.cid, h.id)
  BY <1>2 DEF InQueue
<1>5. \A d \in Conns, n \in Ids : InQueue(d, n)' <=> InQueue(d, n) /\ <<d, n>> # <<h.cid, h.id>>
  <2> SUFFICES ASSUME NEW d \in Conns, NEW n \in Ids
               PROVE  InQueue(d, n)' <=> InQueue(d, n) /\ <<d, n>> # <<h.cid, h.id>>
    OBVIOUS
  <2>1. ASSUME InQueue(d, n)' PROVE InQueue(d, n) /\ <<d, n>> # <<h.cid, h.id>>
    <3>1. PICK i \in 1..Len(in') : in'[i].cid = d /\ in'[i].id = n
      BY <2>1 DEF InQueue
    <3>2. i + 1 \in 1..Len(in) /\ i + 1 # 1 /\ in[i + 1].cid = d /\ in[i + 1].id = n /\ 1 \in 1..Len(in)
      BY <1>2, <3>1
    <3> QED BY <1>2, <3>2 DEF InQueue, OnceInv, QueueOnce
  <2>2. ASSUME InQueue(d, n), <<d, n>> # <<h.cid, h.id>> PROVE InQueue(d, n)'
    <3>1. PICK i \in 1..Len(in) : in[i].cid = d /\ in[i].id = n
      BY <2>2 DEF InQueue
    <3>2. i # 1
      BY <1>2, <2>2, <3>1
    <3>3. i - 1 \in 1..Len(in') /\ in'[i - 1] = in[i]
      <4>1. i - 1 \in 1..Len(in')
        BY <1>2, <3>2
      <4>2. in'[i - 1] = in[(i - 1) + 1] /\ (i - 1) + 1 = i
        BY <1>2, <4>1
      <4> QED BY <4>1, <4>2
    <3> QED BY <3>1, <3>3 DEF InQueue
  <2> QED BY <2>1, <2>2
<1>6. /\ worker[w] = "idle" /\ worker'[w] = "route" /\ job'[w] = h
      /\ \A v \in Workers : v # w => worker'[v] = worker[v] /\ job'[v] = job[v]
  BY DEF TypeOK, WorkersOK, WorkerTake, WorkerGoto
<1>7. \A d \in Conns, n \in Ids : InWorker(d, n)' <=> InWorker(d, n) \/ <<d, n>> = <<h.cid, h.id>>
  <2> SUFFICES ASSUME NEW d \in Conns, NEW n \in Ids
               PROVE  InWorker(d, n)' <=> InWorker(d, n) \/ <<d, n>> = <<h.cid, h.id>>
    OBVIOUS
  <2> QED BY <1>6 DEF InWorker
<1>8. QueueOnce'
  <2> SUFFICES ASSUME NEW i \in 1..Len(in'), NEW j \in 1..Len(in'),
                      in'[i].cid = in'[j].cid, in'[i].id = in'[j].id
               PROVE  i = j
    BY DEF QueueOnce
  <2>1. /\ i + 1 \in 1..Len(in) /\ j + 1 \in 1..Len(in)
        /\ in[i + 1].cid = in[j + 1].cid /\ in[i + 1].id = in[j + 1].id
    BY <1>2
  <2>2. i + 1 = j + 1
    BY <2>1 DEF OnceInv, QueueOnce
  <2> QED BY <1>2, <2>2
<1>9. WorkersOnce'
  <2>1. ~InWorker(h.cid, h.id)
    BY <1>3, <1>4 DEF OnceInv, OnePlace
  <2> QED BY <1>6, <2>1 DEF OnceInv, WorkersOnce, InWorker
<1>10. WithinBound' /\ FreshSame
  BY DEF WorkerFrame, OnceInv, WithinBound, FreshSame, Fresh
<1> QED BY <1>3, <1>4, <1>5, <1>7, <1>8, <1>9, <1>10, BackFrame, WriterFrameSame, WrittenFrame
        DEF WorkerTake, WorkerFrame, OnceInv, LossSame

\* A worker that is done with its command was the only one to have it.
WorkerLeaves(w) ==
    /\ \A d \in Conns, n \in Ids :
          InWorker(d, n)' <=> InWorker(d, n) /\ <<d, n>> # <<job[w].cid, job[w].id>>
    /\ WorkersOnce'

LEMMA WorkerLeavesOne ==
    ASSUME WorkersOnce, NEW w \in Workers, worker[w] \in {"route", "send"}, worker'[w] = "idle",
           UNCHANGED job, \A v \in Workers : v # w => worker'[v] = worker[v]
    PROVE  WorkerLeaves(w)
<1>1. WorkersOnce'
  BY DEF WorkersOnce
<1>2. ASSUME NEW d \in Conns, NEW n \in Ids
      PROVE  InWorker(d, n)' <=> InWorker(d, n) /\ <<d, n>> # <<job[w].cid, job[w].id>>
  BY DEF InWorker, WorkersOnce
<1> QED BY <1>1, <1>2 DEF WorkerLeaves

\* A back channel gets one more instruction, the only one of its command.
BackGets(c, e) ==
    /\ \A d \in Conns, n \in Ids : InBack(d, n)' <=> InBack(d, n) \/ <<d, n>> = <<c, e.id>>
    /\ BackOnce'

LEMMA BackAppend ==
    ASSUME TypeOK, BackOnce, NEW c \in Conns, NEW e \in Outputs,
           back' = [back EXCEPT ![c] = Append(@, e)], e.id \in Ids => ~InBack(c, e.id)
    PROVE  BackGets(c, e)
<1> DEFINE s == back[c]
           t == Append(s, e)
<1>1. /\ s \in Seq(Outputs) /\ back'[c] = t
      /\ \A d \in Conns : d # c => back'[d] = back[d]
  BY DEF TypeOK, QueuesOK
<1>2. /\ Len(t) = Len(s) + 1 /\ Len(s) \in Nat
      /\ \A i \in 1..Len(s) : t[i] = s[i]
      /\ t[Len(s) + 1] = e
  BY <1>1, AppendProperties, LenProperties
<1> HIDE DEF s, t
<1>3. \A d \in Conns, n \in Ids : InBack(d, n)' <=> InBack(d, n) \/ <<d, n>> = <<c, e.id>>
  <2> SUFFICES ASSUME NEW d \in Conns, NEW n \in Ids
               PROVE  InBack(d, n)' <=> InBack(d, n) \/ <<d, n>> = <<c, e.id>>
    OBVIOUS
  <2>1. CASE d # c
    BY <1>1, <2>1 DEF InBack
  <2>2. CASE d = c
    <3>1. InBack(d, n)' <=> \E i \in 1..Len(t) : t[i].id = n
      BY <1>1, <2>2 DEF InBack
    <3>2. InBack(d, n) <=> \E i \in 1..Len(s) : s[i].id = n
      BY <2>2 DEF InBack, s
    <3>3. (\E i \in 1..Len(t) : t[i].id = n) => (\E i \in 1..Len(s) : s[i].id = n) \/ n = e.id
      BY <1>2
    <3>4. (\E i \in 1..Len(s) : s[i].id = n) => \E i \in 1..Len(t) : t[i].id = n
      BY <1>2
    <3>5. n = e.id => \E i \in 1..Len(t) : t[i].id = n
      <4>1. Len(s) + 1 \in 1..Len(t)
        BY <1>2
      <4> QED BY <1>2, <4>1
    <3> QED BY <2>2, <3>1, <3>2, <3>3, <3>4, <3>5
  <2> QED BY <2>1, <2>2
<1>4. BackOnce'
  <2> SUFFICES ASSUME NEW d \in Conns, NEW i \in 1..Len(back'[d]), NEW k \in 1..Len(back'[d]),
                      back'[d][i].id = back'[d][k].id, back'[d][i].id \in Ids
               PROVE  i = k
    BY DEF BackOnce
  <2>1. CASE d # c
    BY <1>1, <2>1 DEF BackOnce
  <2>2. CASE d = c
    <3>1. i \in 1..Len(t) /\ k \in 1..Len(t) /\ t[i].id = t[k].id /\ t[i].id \in Ids
      BY <1>1, <2>2
    <3>2. e.id \in Ids => \A m \in 1..Len(s) : s[m].id # e.id
      BY DEF InBack, s
    <3>3. \A m, l \in 1..Len(s) : s[m].id = s[l].id /\ s[m].id \in Ids => m = l
      BY DEF BackOnce, s
    <3> QED BY <1>2, <3>1, <3>2, <3>3
  <2> QED BY <2>1, <2>2
<1> QED BY <1>3, <1>4 DEF BackGets

\* Send takes the answer from the worker to the back channel of its connection.
LEMMA SendMoves ==
    ASSUME TypeOK, OnceInv, NEW w \in Workers, Send(w), WorkerFrame
    PROVE  /\ job[w].cid \in Conns /\ job[w].id \in Ids /\ InWorker(job[w].cid, job[w].id)
           /\ \A d \in Conns, n \in Ids :
                /\ InWorker(d, n)' <=> InWorker(d, n) /\ <<d, n>> # <<job[w].cid, job[w].id>>
                /\ InBack(d, n)' <=> InBack(d, n) \/ <<d, n>> = <<job[w].cid, job[w].id>>
           /\ FreshSame /\ QueueSame /\ WriterSame /\ WrittenSame /\ LossSame
           /\ WithinBound' /\ QueueOnce' /\ WorkersOnce' /\ BackOnce' /\ WrittenOnce'
<1> DEFINE j == job[w]
           c == job[w].cid
<1>1. /\ worker[w] = "send" /\ worker'[w] = "idle" /\ job' = job
      /\ \A v \in Workers : v # w => worker'[v] = worker[v]
  BY DEF TypeOK, WorkersOK, Send, WorkerGoto
<1>2. j \in Instructions /\ j \in Outputs /\ c \in Conns /\ j.id \in Ids
  BY <1>1 DEF TypeOK, WorkersOK, Instructions, Outputs, Ids
<1>3. InWorker(c, j.id)
  BY <1>1 DEF InWorker
<1>4. WorkerLeaves(w)
  BY <1>1, <1>2, WorkerLeavesOne DEF OnceInv
<1>5. back' = [back EXCEPT ![c] = Append(@, j)]
  BY DEF Send
<1>6. ~InBack(c, j.id)
  BY <1>2, <1>3 DEF OnceInv, OnePlace
<1>7. BackGets(c, j)
  BY <1>2, <1>5, <1>6, BackAppend DEF OnceInv
<1>9. WithinBound' /\ FreshSame
  BY DEF WorkerFrame, OnceInv, WithinBound, FreshSame, Fresh
<1> QED BY <1>2, <1>3, <1>4, <1>7, <1>9, QueueFrame, WriterFrameSame, WrittenFrame
        DEF Send, WorkerFrame, OnceInv, LossSame, WorkerLeaves, BackGets

LEMMA DropMoves ==
    ASSUME TypeOK, OnceInv, NEW w \in Workers, SendLookup(w), WorkerFrame,
           job[w].cid \notin chans[Slot(job[w].cid)]
    PROVE  /\ job[w].cid \in Conns /\ job[w].id \in Ids /\ InWorker(job[w].cid, job[w].id)
           /\ \A d \in Conns, n \in Ids :
                InWorker(d, n)' <=> InWorker(d, n) /\ <<d, n>> # <<job[w].cid, job[w].id>>
           /\ dropped' = dropped \cup {<<job[w].cid, job[w].id>>}
           /\ FreshSame /\ QueueSame /\ BackSame /\ WriterSame /\ WrittenSame
           /\ UNCHANGED unwritten
           /\ WithinBound' /\ QueueOnce' /\ WorkersOnce' /\ BackOnce' /\ WrittenOnce'
<1>1. /\ worker[w] = "route" /\ worker'[w] = "idle" /\ job' = job
      /\ \A v \in Workers : v # w => worker'[v] = worker[v]
      /\ dropped' = dropped \cup {<<job[w].cid, job[w].id>>}
  BY DEF TypeOK, WorkersOK, SendLookup, WorkerGoto
<1>2. job[w].cid \in Conns /\ job[w].id \in Ids
  BY <1>1 DEF TypeOK, WorkersOK, Instructions, Ids
<1>3. InWorker(job[w].cid, job[w].id)
  BY <1>1 DEF InWorker
<1>4. WorkerLeaves(w)
  BY <1>1, <1>2, WorkerLeavesOne DEF OnceInv
<1>5. WithinBound' /\ FreshSame
  BY DEF WorkerFrame, OnceInv, WithinBound, FreshSame, Fresh
<1> QED BY <1>1, <1>2, <1>3, <1>4, <1>5, QueueFrame, BackFrame, WriterFrameSame, WrittenFrame
        DEF SendLookup, WorkerFrame, OnceInv, WorkerLeaves

\* The writer takes an instruction, maybe an exit, from its back channel.
LEMMA ReceiveMoves ==
    ASSUME TypeOK, OnceInv, NEW c \in Conns, Receive(c), WriterFrame
    PROVE  LET h == Head(back[c]) IN
           /\ h.id \in Ids => InBack(c, h.id)
           /\ \A d \in Conns, n \in Ids :
                /\ InBack(d, n)' <=> InBack(d, n) /\ <<d, n>> # <<c, h.id>>
                /\ AtWriter(d, n)' <=> AtWriter(d, n) \/ <<d, n>> = <<c, h.id>>
           /\ FreshSame /\ QueueSame /\ WorkersSame /\ WrittenSame /\ LossSame
           /\ WithinBound' /\ QueueOnce' /\ WorkersOnce' /\ BackOnce' /\ WrittenOnce'
<1> DEFINE s == back[c]
           t == Tail(s)
           h == Head(s)
<1>1. /\ s \in Seq(Outputs) /\ s # <<>> /\ back'[c] = t
      /\ \A d \in Conns : d # c => back'[d] = back[d]
  BY DEF TypeOK, QueuesOK, Receive
<1>2. /\ Len(s) \in Nat \ {0} /\ s[1] = h
      /\ Len(t) = Len(s) - 1
      /\ \A i \in 1..Len(t) : t[i] = s[i + 1]
  BY <1>1, HeadTailProperties, LenProperties, EmptySeq
<1>3. /\ writer[c] = "recv" /\ writer'[c] = "write" /\ cur'[c] = h
      /\ \A d \in Conns : d # c => writer'[d] = writer[d] /\ cur'[d] = cur[d]
  BY DEF TypeOK, WritersOK, Receive, WriterGoto
<1>4. \A m, l \in 1..Len(s) : s[m].id = s[l].id /\ s[m].id \in Ids => m = l
  BY DEF OnceInv, BackOnce
<1> HIDE DEF s, t, h
<1>5. h.id \in Ids => InBack(c, h.id)
  BY <1>2 DEF InBack, s
<1>6. \A d \in Conns, n \in Ids : InBack(d, n)' <=> InBack(d, n) /\ <<d, n>> # <<c, h.id>>
  <2> SUFFICES ASSUME NEW d \in Conns, NEW n \in Ids
               PROVE  InBack(d, n)' <=> InBack(d, n) /\ <<d, n>> # <<c, h.id>>
    OBVIOUS
  <2>1. CASE d # c
    BY <1>1, <2>1 DEF InBack
  <2>2. CASE d = c
    <3>1. InBack(d, n)' <=> \E i \in 1..Len(t) : t[i].id = n
      BY <1>1, <2>2 DEF InBack
    <3>2. InBack(d, n) <=> \E i \in 1..Len(s) : s[i].id = n
      BY <2>2 DEF InBack, s
    <3>3. ASSUME NEW i \in 1..Len(t), t[i].id = n
          PROVE  (\E k \in 1..Len(s) : s[k].id = n) /\ n # h.id
      <4>1. i + 1 \in 1..Len(s) /\ 1 \in 1..Len(s) /\ i + 1 # 1 /\ s[i + 1].id = n
        BY <1>2, <3>3
      <4> QED BY <1>2, <1>4, <4>1
    <3>4. ASSUME NEW i \in 1..Len(s), s[i].id = n, n # h.id
          PROVE  \E k \in 1..Len(t) : t[k].id = n
      <4>1. i # 1
        BY <1>2, <3>4
      <4>2. i - 1 \in 1..Len(t) /\ (i - 1) + 1 = i
        BY <1>2, <4>1
      <4>3. t[i - 1] = s[(i - 1) + 1]
        BY <1>2, <4>2
      <4> QED BY <3>4, <4>2, <4>3
    <3> QED BY <2>2, <3>1, <3>2, <3>3, <3>4
  <2> QED BY <2>1, <2>2
<1>7. \A d \in Conns, n \in Ids : AtWriter(d, n)' <=> AtWriter(d, n) \/ <<d, n>> = <<c, h.id>>
  BY <1>3 DEF AtWriter
<1>8. BackOnce'
  <2> SUFFICES ASSUME NEW d \in Conns, NEW i \in 1..Len(back'[d]), NEW k \in 1..Len(back'[d]),
                      back'[d][i].id = back'[d][k].id, back'[d][i].id \in Ids
               PROVE  i = k
    BY DEF BackOnce
  <2>1. CASE d # c
    BY <1>1, <2>1 DEF OnceInv, BackOnce
  <2>2. CASE d = c
    <3>1. i \in 1..Len(t) /\ k \in 1..Len(t) /\ t[i].id = t[k].id /\ t[i].id \in Ids
      BY <1>1, <2>2
    <3>2. /\ i + 1 \in 1..Len(s) /\ k + 1 \in 1..Len(s)
          /\ s[i + 1].id = s[k + 1].id /\ s[i + 1].id \in Ids
      BY <1>2, <3>1
    <3>3. i + 1 = k + 1
      BY <1>4, <3>2
    <3> QED BY <3>1, <3>3
  <2> QED BY <2>1, <2>2
<1>9. WithinBound' /\ FreshSame
  BY DEF WriterFrame, OnceInv, WithinBound, FreshSame, Fresh
<1> QED BY <1>5, <1>6, <1>7, <1>8, <1>9, QueueFrame, WorkersFrame, WrittenFrame
        DEF Receive, WriterFrame, OnceInv, LossSame, s, h

LEMMA WriteMoves ==
    ASSUME TypeOK, OnceInv, NEW c \in Conns, Write(c), HasAnswer(cur[c]), WriterFrame
    PROVE  /\ cur[c].id \in Ids /\ AtWriter(c, cur[c].id)
           /\ \A d \in Conns, n \in Ids :
                /\ AtWriter(d, n)' <=> AtWriter(d, n) /\ <<d, n>> # <<c, cur[c].id>>
                /\ Answered(d, n)' <=> Answered(d, n) \/ <<d, n>> = <<c, cur[c].id>>
           /\ FreshSame /\ QueueSame /\ WorkersSame /\ BackSame /\ LossSame
           /\ WithinBound' /\ QueueOnce' /\ WorkersOnce' /\ BackOnce' /\ WrittenOnce'
<1> DEFINE s == written[c]
           n0 == cur[c].id
           t == Append(s, n0)
<1>1. n0 \in Ids
  BY DEF TypeOK, WritersOK, Outputs, Instructions, ExitInstruction, NoInstruction, HasAnswer, Ids
<1>2. /\ writer[c] = "write" /\ writer'[c] # "write" /\ cur' = cur
      /\ \A d \in Conns : d # c => writer'[d] = writer[d]
  BY DEF TypeOK, WritersOK, Write, WriterGoto
<1>3. AtWriter(c, n0)
  BY <1>2 DEF AtWriter
<1>4. \A d \in Conns, n \in Ids : AtWriter(d, n)' <=> AtWriter(d, n) /\ <<d, n>> # <<c, n0>>
  BY <1>2 DEF AtWriter
<1>5. /\ s \in Seq(Ids) /\ written'[c] = t
      /\ \A d \in Conns : d # c => written'[d] = written[d]
  BY DEF TypeOK, HistoryOK, Write, Ids
<1>6. /\ Len(t) = Len(s) + 1 /\ Len(s) \in Nat
      /\ \A i \in 1..Len(s) : t[i] = s[i]
      /\ t[Len(s) + 1] = n0
  BY <1>1, <1>5, AppendProperties, LenProperties DEF Ids
<1>7. \A i \in 1..Len(s) : s[i] # n0
  BY <1>1, <1>3 DEF OnceInv, OnePlace, Answered
<1>8. \A i, k \in 1..Len(s) : s[i] = s[k] => i = k
  BY DEF OnceInv, WrittenOnce
<1> HIDE DEF s, t
<1>9. \A d \in Conns, n \in Ids : Answered(d, n)' <=> Answered(d, n) \/ <<d, n>> = <<c, n0>>
  <2> SUFFICES ASSUME NEW d \in Conns, NEW n \in Ids
               PROVE  Answered(d, n)' <=> Answered(d, n) \/ <<d, n>> = <<c, n0>>
    OBVIOUS
  <2>1. CASE d # c
    BY <1>5, <2>1 DEF Answered
  <2>2. CASE d = c
    <3>1. Answered(d, n)' <=> \E i \in 1..Len(t) : t[i] = n
      BY <1>5, <2>2 DEF Answered
    <3>2. Answered(d, n) <=> \E i \in 1..Len(s) : s[i] = n
      BY <2>2 DEF Answered, s
    <3>3. Len(s) + 1 \in 1..Len(t)
      BY <1>6
    <3> QED BY <1>6, <2>2, <3>1, <3>2, <3>3
  <2> QED BY <2>1, <2>2
<1>10. WrittenOnce'
  <2> SUFFICES ASSUME NEW d \in Conns, NEW i \in 1..Len(written'[d]), NEW k \in 1..Len(written'[d]),
                      written'[d][i] = written'[d][k]
               PROVE  i = k
    BY DEF WrittenOnce
  <2>1. CASE d # c
    BY <1>5, <2>1 DEF OnceInv, WrittenOnce
  <2>2. CASE d = c
    <3>1. i \in 1..Len(t) /\ k \in 1..Len(t) /\ t[i] = t[k]
      BY <1>5, <2>2
    <3> QED BY <1>6, <1>7, <1>8, <3>1
  <2> QED BY <2>1, <2>2
<1>11. WithinBound' /\ FreshSame
  BY DEF WriterFrame, OnceInv, WithinBound, FreshSame, Fresh
<1> QED BY <1>1, <1>3, <1>4, <1>9, <1>10, <1>11, QueueFrame, WorkersFrame, BackFrame
        DEF Write, WriterFrame, OnceInv, LossSame

LEMMA WriteErrorMoves ==
    ASSUME TypeOK, OnceInv, NEW c \in Conns, WriteError(c), WriterFrame
    PROVE  /\ cur[c].id \in Ids /\ AtWriter(c, cur[c].id)
           /\ \A d \in Conns, n \in Ids :
                AtWriter(d, n)' <=> AtWriter(d, n) /\ <<d, n>> # <<c, cur[c].id>>
           /\ unwritten' = unwritten \cup {<<c, cur[c].id>>}
           /\ FreshSame /\ QueueSame /\ WorkersSame /\ BackSame /\ WrittenSame
           /\ UNCHANGED dropped
           /\ WithinBound' /\ QueueOnce' /\ WorkersOnce' /\ BackOnce' /\ WrittenOnce'
<1>1. cur[c].id \in Ids
  BY DEF TypeOK, WritersOK, Outputs, Instructions, ExitInstruction, NoInstruction, HasAnswer, Ids,
         WriteError
<1>2. /\ writer[c] = "write" /\ writer'[c] # "write" /\ cur' = cur
      /\ \A d \in Conns : d # c => writer'[d] = writer[d]
  BY DEF TypeOK, WritersOK, WriteError, WriterGoto
<1>3. /\ AtWriter(c, cur[c].id)
      /\ \A d \in Conns, n \in Ids :
            AtWriter(d, n)' <=> AtWriter(d, n) /\ <<d, n>> # <<c, cur[c].id>>
  BY <1>2 DEF AtWriter
<1>4. WithinBound' /\ FreshSame
  BY DEF WriterFrame, OnceInv, WithinBound, FreshSame, Fresh
<1> QED BY <1>1, <1>3, <1>4, QueueFrame, WorkersFrame, BackFrame, WrittenFrame
        DEF WriteError, WriterFrame, OnceInv

-----------------------------------------------------------------------------
\* The steps that move no command.

LEMMA ListenerSame == ASSUME TypeOK, Listener PROVE AllSame
<1>1. FreshSame
  BY DEF FreshSame, Fresh, Listener, ListenerCheck, ListenerAccept, PeerBreak, TypeOK, ReadersOK
<1>2. WithinBound => WithinBound'
  BY DEF WithinBound, Listener, ListenerCheck, ListenerAccept, PeerBreak, TypeOK, ReadersOK
<1> QED BY <1>1, <1>2, QueueFrame, WorkersFrame, BackFrame, WriterFrameSame, WrittenFrame
        DEF AllSame, Listener, hist, LossSame

LEMMA ReadSame == ASSUME TypeOK, NEW c \in Conns, Read(c) PROVE AllSame
<1>1. PICK k \in Kinds[c] : cmd' = [cmd EXCEPT ![c] = [cid |-> c, id |-> cmd[c].id + 1, kind |-> k]]
  BY DEF Read, ReadCommand
<1>2. /\ reader[c] = "read" /\ reader'[c] = "process" /\ cmd[c].id < MaxCmds[c]
      /\ \A d \in Conns : d # c => reader'[d] = reader[d] /\ cmd'[d] = cmd[d]
      /\ cmd'[c].id = cmd[c].id + 1 /\ cmd'[c].cid = c /\ cmd[c].id \in Nat
  BY <1>1, CommandId DEF Read, ReadCommand, ReaderGoto, TypeOK, ReadersOK
<1>3. FreshSame
  <2> SUFFICES ASSUME NEW d \in Conns, NEW n \in Ids PROVE Fresh(d, n)' <=> Fresh(d, n)
    BY DEF FreshSame
  <2>1. CASE d = c
    BY <1>2, <2>1 DEF Fresh, Ids
  <2>2. CASE d # c
    BY <1>2, <2>2 DEF Fresh
  <2> QED BY <2>1, <2>2
<1>4. WithinBound => WithinBound'
  <2> SUFFICES ASSUME WithinBound, NEW d \in Conns PROVE cmd'[d].id <= MaxCmds[d]
    BY DEF WithinBound
  <2>1. MaxCmds[c] \in Nat
    BY PipelineAssumption
  <2> QED BY <1>2, <2>1 DEF WithinBound
<1> QED BY <1>3, <1>4, QueueFrame, WorkersFrame, BackFrame, WriterFrameSame, WrittenFrame
        DEF AllSame, Read, ReadCommand, ReaderFrame, hist, LossSame

LEMMA ReaderSame ==
    ASSUME TypeOK, CommandInv, NEW c \in Conns, Reader(c), ~Processing(c) PROVE AllSame
<1>1. /\ cmd' = cmd /\ in' = in
      /\ \A d \in Conns : reader'[d] = "process" <=> reader[d] = "process"
      /\ \A d \in Conns : writer'[d] = "write" <=> writer[d] = "write"
  <2>1. CASE StartWriter(c)
    <3>1. writer[c] = "none"
      BY <2>1 DEF CommandInv, StartWriter, ReaderGoto
    <3> QED BY <2>1, <3>1 DEF StartWriter, ReaderGoto, TypeOK, ReadersOK, WritersOK
  <2>2. CASE ~StartWriter(c)
    BY <2>2 DEF Reader, ReaderStep, ReaderGoto, TypeOK, ReadersOK, WritersOK, ProcessingClosed,
       CreateGroup, AppendBackChannel, Put, ChangeChannels, ReadError, RemoveBackChannel, Delete,
       RemoveConnection, ReaderClose
  <2> QED BY <2>1, <2>2
<1>2. FreshSame /\ (WithinBound => WithinBound')
  BY <1>1 DEF FreshSame, Fresh, WithinBound
<1>3. WriterSame
  BY <1>1 DEF WriterSame, AtWriter, Reader, ReaderFrame
<1> QED BY <1>1, <1>2, <1>3, QueueFrame, WorkersFrame, BackFrame, WrittenFrame
        DEF AllSame, Reader, ReaderFrame, hist, LossSame

LEMMA WorkerSame ==
    ASSUME TypeOK, NEW w \in Workers, Worker(w), ~WorkerTake(w), ~Send(w),
           SendLookup(w) => job[w].cid \in chans[Slot(job[w].cid)]
    PROVE  AllSame
<1>1. /\ job' = job
      /\ \A v \in Workers : worker'[v] \in {"route", "send"} <=> worker[v] \in {"route", "send"}
  <2>1. CASE SendLookup(w)
    BY <2>1 DEF SendLookup, WorkerGoto, TypeOK, WorkersOK
  <2>2. CASE ~SendLookup(w)
    BY <2>2 DEF Worker, WorkerStep, WorkerStop, WorkerTakeClosed, SendNil, SendClosed, WorkerGoto,
                TypeOK, WorkersOK
  <2> QED BY <2>1, <2>2
<1>2. WorkersSame /\ (WorkersOnce => WorkersOnce')
  BY <1>1 DEF WorkersSame, InWorker, WorkersOnce
<1>3. in' = in /\ back' = back /\ dropped' = dropped
  BY DEF Worker, WorkerStep, WorkerStop, WorkerTakeClosed, SendNil, SendLookup, SendClosed
<1>4. FreshSame /\ (WithinBound => WithinBound')
  BY DEF FreshSame, Fresh, WithinBound, Worker, WorkerFrame
<1> QED BY <1>2, <1>3, <1>4, QueueFrame, BackFrame, WriterFrameSame, WrittenFrame
        DEF AllSame, Worker, WorkerFrame, LossSame

LEMMA WriterStepSame ==
    ASSUME TypeOK, NEW c \in Conns, Writer(c), ~Receive(c), ~WriteError(c),
           Write(c) => ~HasAnswer(cur[c])
    PROVE  AllSame
<1>1. cur' = cur /\ back' = back /\ written' = written /\ LossSame
  BY DEF Writer, WriterStep, WriterFrame, Write, UpdateState, UpdateStateNil, CloseSocket, CloseBack, LossSame
<1>2. WriterSame
  <2>1. CASE Write(c)
    <3>1. cur[c].id \notin Ids
      BY <2>1 DEF HasAnswer, Ids
    <3>2. \A d \in Conns : d # c => writer'[d] = writer[d]
      BY <2>1 DEF Write, WriterGoto
    <3> QED BY <1>1, <3>1, <3>2 DEF WriterSame, AtWriter
  <2>2. CASE ~Write(c)
    <3>1. \A d \in Conns : writer'[d] = "write" <=> writer[d] = "write"
      BY <2>2 DEF Writer, WriterStep, UpdateState, UpdateStateNil, CloseSocket, CloseBack, WriterGoto,
                  TypeOK, WritersOK
    <3> QED BY <1>1, <3>1 DEF WriterSame, AtWriter
  <2> QED BY <2>1, <2>2
<1>3. FreshSame /\ (WithinBound => WithinBound')
  BY DEF FreshSame, Fresh, WithinBound, Writer, WriterFrame
<1> QED BY <1>1, <1>2, <1>3, QueueFrame, WorkersFrame, BackFrame, WrittenFrame
        DEF AllSame, Writer, WriterFrame

LEMMA MainSame == ASSUME TypeOK, BackOnce, MainNext \/ (Signal /\ MainFrame) PROVE AllSame
<1>1. BackSame /\ BackOnce'
  <2>1. ASSUME NEW c \in Conns, SendExit(c) PROVE BackSame /\ BackOnce'
    <3>1. ExitInstruction \in Outputs /\ ExitInstruction.id \notin Ids
      BY DEF Outputs, ExitInstruction, Ids
    <3>2. BackGets(c, ExitInstruction)
      BY <2>1, <3>1, BackAppend DEF SendExit
    <3> QED BY <3>1, <3>2 DEF BackGets, BackSame
  <2>2. ASSUME ~\E c \in Conns : SendExit(c) PROVE BackSame /\ BackOnce'
    <3>1. back' = back
      BY <2>2 DEF MainNext, MainStep, Signal, StopSignals, StopTwice, CloseChannels, SkipNil,
         SendExitLock, SendExitStart, SendExitClosed, SendExitUnlock, OutSignal, Exit
    <3> QED BY <3>1, BackFrame
  <2> QED BY <2>1, <2>2
<1>2. FreshSame /\ (WithinBound => WithinBound')
  BY DEF FreshSame, Fresh, WithinBound, MainNext, MainFrame
<1> QED BY <1>1, <1>2, QueueFrame, WorkersFrame, WriterFrameSame, WrittenFrame
        DEF AllSame, MainNext, MainFrame, hist, LossSame

LEMMA StutterSame == ASSUME UNCHANGED vars PROVE AllSame
  BY QueueFrame, WorkersFrame, BackFrame, WriterFrameSame, WrittenFrame, FreshFrame
     DEF AllSame, WithinBound, LossSame, vars, hist

-----------------------------------------------------------------------------
\* Every step keeps the invariant, and moves one command or none.

\* One command goes from phase p to phase q.
PhaseMoves(p, q) ==
    \E c \in Conns : \E n \in 1..MaxCmds[c] :
        /\ PhaseOf(c, n) = p /\ PhaseOf(c, n)' = q
        /\ \A d \in Conns, k \in Ids : <<d, k>> # <<c, n>> => PhaseOf(d, k)' = PhaseOf(d, k)

PhasesSame == \A c \in Conns, n \in Ids : PhaseOf(c, n)' = PhaseOf(c, n)

LEMMA SameStep == ASSUME OnceInv, AllSame PROVE OnceInv' /\ PhasesSame
<1>1. ASSUME NEW c \in Conns, NEW n \in Ids PROVE OnePlace(c, n)'
  BY DEF OnceInv, AllSame, OnePlace, FreshSame, QueueSame, WorkersSame, BackSame, WriterSame, WrittenSame, LossSame
<1>2. PhasesSame
  BY DEF AllSame, PhasesSame, PhaseOf, FreshSame, QueueSame, WorkersSame, BackSame, WriterSame, WrittenSame, LossSame
<1> QED BY <1>1, <1>2 DEF OnceInv, AllSame

LEMMA InBound ==
    ASSUME TypeOK, OnceInv, NEW c \in Conns, NEW n \in Ids, n <= cmd[c].id \/ ~Fresh(c, n)
    PROVE  n \in 1..MaxCmds[c]
<1>1. cmd[c].id \in Nat /\ MaxCmds[c] \in Nat /\ cmd[c].id <= MaxCmds[c]
  BY CommandId, PipelineAssumption DEF OnceInv, WithinBound
<1> QED BY <1>1 DEF Fresh, Ids

LEMMA ProcessingStep ==
    ASSUME TypeOK, CommandInv, OnceInv, NEW r \in Conns, Processing(r), ReaderFrame
    PROVE  OnceInv' /\ PhaseMoves("new", "queued")
<1>1. PICK c \in Conns, n \in Ids : c = r /\ n = cmd[r].id
  BY ProcessingMoves
<1>2. ASSUME NEW d \in Conns, NEW k \in Ids PROVE OnePlace(d, k)'
  BY <1>1, ProcessingMoves DEF OnceInv, OnePlace, FreshSame, QueueSame, WorkersSame, BackSame, WriterSame, WrittenSame, LossSame
<1>3. n \in 1..MaxCmds[c]
  <2>1. n <= cmd[c].id
    BY <1>1 DEF Ids
  <2> QED BY <2>1, InBound
<1>4. PhaseOf(c, n) = "new" /\ PhaseOf(c, n)' = "queued"
  BY <1>1, <1>2, ProcessingMoves
     DEF OnceInv, OnePlace, PhaseOf, FreshSame, QueueSame, WorkersSame, BackSame, WriterSame, WrittenSame, LossSame
<1>5. ASSUME NEW d \in Conns, NEW k \in Ids, <<d, k>> # <<c, n>>
      PROVE  PhaseOf(d, k)' = PhaseOf(d, k)
  BY <1>1, <1>5, ProcessingMoves DEF PhaseOf, FreshSame, QueueSame, WorkersSame, BackSame, WriterSame, WrittenSame, LossSame
<1> QED BY <1>2, <1>3, <1>4, <1>5, ProcessingMoves DEF OnceInv, PhaseMoves

LEMMA WorkerTakeStep ==
    ASSUME TypeOK, CommandInv, OnceInv, NEW w \in Workers, WorkerTake(w), WorkerFrame
    PROVE  OnceInv' /\ PhaseMoves("queued", "working")
<1>1. PICK c \in Conns, n \in Ids : c = Head(in).cid /\ n = Head(in).id
  BY WorkerTakeMoves
<1>2. ASSUME NEW d \in Conns, NEW k \in Ids PROVE OnePlace(d, k)'
  BY <1>1, WorkerTakeMoves DEF OnceInv, OnePlace, FreshSame, QueueSame, WorkersSame, BackSame, WriterSame, WrittenSame, LossSame
<1>3. n \in 1..MaxCmds[c]
  <2>1. ~Fresh(c, n)
    BY <1>1, WorkerTakeMoves DEF OnceInv, OnePlace
  <2> QED BY <2>1, InBound
<1>4. PhaseOf(c, n) = "queued" /\ PhaseOf(c, n)' = "working"
  BY <1>1, <1>2, WorkerTakeMoves
     DEF OnceInv, OnePlace, PhaseOf, FreshSame, QueueSame, WorkersSame, BackSame, WriterSame, WrittenSame, LossSame
<1>5. ASSUME NEW d \in Conns, NEW k \in Ids, <<d, k>> # <<c, n>>
      PROVE  PhaseOf(d, k)' = PhaseOf(d, k)
  BY <1>1, <1>5, WorkerTakeMoves DEF PhaseOf, FreshSame, QueueSame, WorkersSame, BackSame, WriterSame, WrittenSame, LossSame
<1> QED BY <1>2, <1>3, <1>4, <1>5, WorkerTakeMoves DEF OnceInv, PhaseMoves

LEMMA SendStep ==
    ASSUME TypeOK, CommandInv, OnceInv, NEW w \in Workers, Send(w), WorkerFrame
    PROVE  OnceInv' /\ PhaseMoves("working", "outgoing")
<1>1. PICK c \in Conns, n \in Ids : c = job[w].cid /\ n = job[w].id
  BY SendMoves
<1>2. ASSUME NEW d \in Conns, NEW k \in Ids PROVE OnePlace(d, k)'
  BY <1>1, SendMoves DEF OnceInv, OnePlace, FreshSame, QueueSame, WorkersSame, BackSame, WriterSame, WrittenSame, LossSame
<1>3. n \in 1..MaxCmds[c]
  <2>1. ~Fresh(c, n)
    BY <1>1, SendMoves DEF OnceInv, OnePlace
  <2> QED BY <2>1, InBound
<1>4. PhaseOf(c, n) = "working" /\ PhaseOf(c, n)' = "outgoing"
  BY <1>1, <1>2, SendMoves
     DEF OnceInv, OnePlace, PhaseOf, FreshSame, QueueSame, WorkersSame, BackSame, WriterSame, WrittenSame, LossSame
<1>5. ASSUME NEW d \in Conns, NEW k \in Ids, <<d, k>> # <<c, n>>
      PROVE  PhaseOf(d, k)' = PhaseOf(d, k)
  BY <1>1, <1>5, SendMoves DEF PhaseOf, FreshSame, QueueSame, WorkersSame, BackSame, WriterSame, WrittenSame, LossSame
<1> QED BY <1>2, <1>3, <1>4, <1>5, SendMoves DEF OnceInv, PhaseMoves

LEMMA DropStep ==
    ASSUME TypeOK, CommandInv, OnceInv, NEW w \in Workers, SendLookup(w), WorkerFrame,
           job[w].cid \notin chans[Slot(job[w].cid)]
    PROVE  OnceInv' /\ PhaseMoves("working", "lost")
<1>1. PICK c \in Conns, n \in Ids : c = job[w].cid /\ n = job[w].id
  BY DropMoves
<1>2. ASSUME NEW d \in Conns, NEW k \in Ids PROVE OnePlace(d, k)'
  BY <1>1, DropMoves DEF OnceInv, OnePlace, FreshSame, QueueSame, WorkersSame, BackSame, WriterSame, WrittenSame, LossSame
<1>3. n \in 1..MaxCmds[c]
  <2>1. ~Fresh(c, n)
    BY <1>1, DropMoves DEF OnceInv, OnePlace
  <2> QED BY <2>1, InBound
<1>4. PhaseOf(c, n) = "working" /\ PhaseOf(c, n)' = "lost"
  BY <1>1, <1>2, DropMoves
     DEF OnceInv, OnePlace, PhaseOf, FreshSame, QueueSame, WorkersSame, BackSame, WriterSame, WrittenSame, LossSame
<1>5. ASSUME NEW d \in Conns, NEW k \in Ids, <<d, k>> # <<c, n>>
      PROVE  PhaseOf(d, k)' = PhaseOf(d, k)
  BY <1>1, <1>5, DropMoves DEF PhaseOf, FreshSame, QueueSame, WorkersSame, BackSame, WriterSame, WrittenSame, LossSame
<1> QED BY <1>2, <1>3, <1>4, <1>5, DropMoves DEF OnceInv, PhaseMoves

LEMMA WriteStep ==
    ASSUME TypeOK, CommandInv, OnceInv, NEW r \in Conns, Write(r), HasAnswer(cur[r]), WriterFrame
    PROVE  OnceInv' /\ PhaseMoves("outgoing", "answered")
<1>1. PICK c \in Conns, n \in Ids : c = r /\ n = cur[r].id
  BY WriteMoves
<1>2. ASSUME NEW d \in Conns, NEW k \in Ids PROVE OnePlace(d, k)'
  BY <1>1, WriteMoves DEF OnceInv, OnePlace, FreshSame, QueueSame, WorkersSame, BackSame, WriterSame, WrittenSame, LossSame
<1>3. n \in 1..MaxCmds[c]
  <2>1. ~Fresh(c, n)
    BY <1>1, WriteMoves DEF OnceInv, OnePlace
  <2> QED BY <2>1, InBound
<1>4. PhaseOf(c, n) = "outgoing" /\ PhaseOf(c, n)' = "answered"
  BY <1>1, <1>2, WriteMoves
     DEF OnceInv, OnePlace, PhaseOf, FreshSame, QueueSame, WorkersSame, BackSame, WriterSame, WrittenSame, LossSame
<1>5. ASSUME NEW d \in Conns, NEW k \in Ids, <<d, k>> # <<c, n>>
      PROVE  PhaseOf(d, k)' = PhaseOf(d, k)
  BY <1>1, <1>5, WriteMoves DEF PhaseOf, FreshSame, QueueSame, WorkersSame, BackSame, WriterSame, WrittenSame, LossSame
<1> QED BY <1>2, <1>3, <1>4, <1>5, WriteMoves DEF OnceInv, PhaseMoves

LEMMA WriteErrorStep ==
    ASSUME TypeOK, CommandInv, OnceInv, NEW r \in Conns, WriteError(r), WriterFrame
    PROVE  OnceInv' /\ PhaseMoves("outgoing", "lost")
<1>1. PICK c \in Conns, n \in Ids : c = r /\ n = cur[r].id
  BY WriteErrorMoves
<1>2. ASSUME NEW d \in Conns, NEW k \in Ids PROVE OnePlace(d, k)'
  BY <1>1, WriteErrorMoves DEF OnceInv, OnePlace, FreshSame, QueueSame, WorkersSame, BackSame, WriterSame, WrittenSame, LossSame
<1>3. n \in 1..MaxCmds[c]
  <2>1. ~Fresh(c, n)
    BY <1>1, WriteErrorMoves DEF OnceInv, OnePlace
  <2> QED BY <2>1, InBound
<1>4. PhaseOf(c, n) = "outgoing" /\ PhaseOf(c, n)' = "lost"
  BY <1>1, <1>2, WriteErrorMoves
     DEF OnceInv, OnePlace, PhaseOf, FreshSame, QueueSame, WorkersSame, BackSame, WriterSame, WrittenSame, LossSame
<1>5. ASSUME NEW d \in Conns, NEW k \in Ids, <<d, k>> # <<c, n>>
      PROVE  PhaseOf(d, k)' = PhaseOf(d, k)
  BY <1>1, <1>5, WriteErrorMoves DEF PhaseOf, FreshSame, QueueSame, WorkersSame, BackSame, WriterSame, WrittenSame, LossSame
<1> QED BY <1>2, <1>3, <1>4, <1>5, WriteErrorMoves DEF OnceInv, PhaseMoves
\* A command that the writer takes stays outgoing, and an exit has no phase.
LEMMA ReceiveStep ==
    ASSUME TypeOK, CommandInv, OnceInv, NEW r \in Conns, Receive(r), WriterFrame
    PROVE  OnceInv' /\ PhasesSame
<1> DEFINE h == Head(back[r])
<1>1. PICK n : n = h.id
  OBVIOUS
<1>2. /\ n \in Ids => InBack(r, n)
      /\ \A d \in Conns, k \in Ids :
            /\ InBack(d, k)' <=> InBack(d, k) /\ <<d, k>> # <<r, n>>
            /\ AtWriter(d, k)' <=> AtWriter(d, k) \/ <<d, k>> = <<r, n>>
      /\ FreshSame /\ QueueSame /\ WorkersSame /\ WrittenSame /\ LossSame
  BY <1>1, ReceiveMoves
<1>3. ASSUME NEW d \in Conns, NEW k \in Ids
      PROVE  OnePlace(d, k)' /\ PhaseOf(d, k)' = PhaseOf(d, k)
  <2>1. CASE <<d, k>> = <<r, n>>
    BY <1>2, <2>1 DEF OnceInv, OnePlace, PhaseOf, FreshSame, QueueSame, WorkersSame, WrittenSame, LossSame
  <2>2. CASE <<d, k>> # <<r, n>>
    BY <1>2, <2>2 DEF OnceInv, OnePlace, PhaseOf, FreshSame, QueueSame, WorkersSame, WrittenSame, LossSame
  <2> QED BY <2>1, <2>2
<1> QED BY <1>3, ReceiveMoves DEF OnceInv, PhasesSame

\* The moves Delivery allows.
Moved ==
    \/ PhaseMoves("new", "queued") \/ PhaseMoves("queued", "working")
    \/ PhaseMoves("working", "outgoing") \/ PhaseMoves("working", "lost")
    \/ PhaseMoves("outgoing", "answered") \/ PhaseMoves("outgoing", "lost")

LEMMA OnceStays ==
    ASSUME TypeOK, CommandInv, OnceInv, [Next]_vars PROVE OnceInv' /\ (PhasesSame \/ Moved)
<1>1. CASE Listener
  BY <1>1, ListenerSame, SameStep
<1>2. ASSUME NEW c \in Conns, Read(c) \/ Reader(c) PROVE OnceInv' /\ (PhasesSame \/ Moved)
  BY <1>2, ReadSame, ReaderSame, SameStep, ProcessingStep DEF Reader, Moved
<1>3. ASSUME NEW w \in Workers, Worker(w) PROVE OnceInv' /\ (PhasesSame \/ Moved)
  BY <1>3, WorkerSame, SameStep, WorkerTakeStep, SendStep, DropStep DEF Worker, Moved
<1>4. ASSUME NEW c \in Conns, Writer(c) PROVE OnceInv' /\ (PhasesSame \/ Moved)
  BY <1>4, WriterStepSame, SameStep, ReceiveStep, WriteStep, WriteErrorStep DEF Writer, Moved
<1>5. CASE MainNext \/ (Signal /\ MainFrame)
  BY <1>5, MainSame, SameStep DEF OnceInv
<1>6. CASE UNCHANGED vars
  BY <1>6, StutterSame, SameStep
<1> QED BY <1>1, <1>2, <1>3, <1>4, <1>5, <1>6 DEF Next

LEMMA InitOnce == Init => OnceInv /\ (\A c \in Conns, n \in Ids : PhaseOf(c, n) = "new")
<1> SUFFICES ASSUME Init PROVE OnceInv /\ (\A c \in Conns, n \in Ids : PhaseOf(c, n) = "new")
  OBVIOUS
<1>1. Len(<<>>) = 0 /\ in = <<>> /\ (\A c \in Conns : back[c] = <<>> /\ written[c] = <<>>)
  BY DEF Init
<1>2. ASSUME NEW c \in Conns, NEW n \in Ids
      PROVE  /\ ~InQueue(c, n) /\ ~InBack(c, n) /\ ~Answered(c, n)
             /\ ~InWorker(c, n) /\ ~AtWriter(c, n) /\ Fresh(c, n)
             /\ <<c, n>> \notin dropped /\ <<c, n>> \notin unwritten
  <2>1. ~InQueue(c, n) /\ ~InBack(c, n) /\ ~Answered(c, n)
    BY <1>1 DEF InQueue, InBack, Answered
  <2>2. ~InWorker(c, n) /\ ~AtWriter(c, n) /\ Fresh(c, n)
    BY DEF Init, InWorker, AtWriter, Fresh, NoInstruction, Ids
  <2> QED BY <2>1, <2>2 DEF Init
<1>3. WithinBound
  BY PipelineAssumption DEF Init, WithinBound, NoInstruction
<1>4. QueueOnce /\ WorkersOnce /\ BackOnce /\ WrittenOnce
  BY <1>1 DEF Init, QueueOnce, WorkersOnce, BackOnce, WrittenOnce
<1> QED BY <1>2, <1>3, <1>4 DEF OnceInv, OnePlace, PhaseOf

-----------------------------------------------------------------------------
\* Every command is in exactly one place, once.
LEMMA EachOnce == Spec => []OnceInv
<1>1. TypeOK /\ PipelineInv /\ OnceInv /\ [Next]_vars => OnceInv'
  BY OnceStays DEF PipelineInv
<1> QED BY InitOnce, TypeCorrect, PipelineInvariant, <1>1, PTL DEF Spec

\* No command is answered twice, or answered after its answer was dropped or its
\* write failed, for any numbers of connections and workers and any buffers.
THEOREM AnsweredOnce == Spec => []AtMostOnce
<1>1. TypeOK /\ OnceInv => AtMostOnce
  <2> SUFFICES ASSUME TypeOK, OnceInv, NEW c \in Conns
               PROVE  /\ \A i, j \in 1..Len(written[c]) : written[c][i] = written[c][j] => i = j
                      /\ \A i \in 1..Len(written[c]) :
                            <<c, written[c][i]>> \notin dropped \cup unwritten
                      /\ \A d \in dropped : d \notin unwritten
    BY DEF AtMostOnce
  <2>1. \A i, j \in 1..Len(written[c]) : written[c][i] = written[c][j] => i = j
    BY DEF OnceInv, WrittenOnce
  <2>2. ASSUME NEW i \in 1..Len(written[c])
        PROVE  <<c, written[c][i]>> \notin dropped \cup unwritten
    <3>1. written[c][i] \in Ids
      BY DEF TypeOK, HistoryOK, Ids
    <3>2. Answered(c, written[c][i])
      BY DEF Answered
    <3> QED BY <3>1, <3>2 DEF OnceInv, OnePlace
  <2>3. ASSUME NEW d \in dropped PROVE d \notin unwritten
    <3>1. PICK b \in Conns, n \in Ids : d = <<b, n>>
      BY DEF TypeOK, HistoryOK, Ids
    <3> QED BY <3>1 DEF OnceInv, OnePlace
  <2> QED BY <2>1, <2>2, <2>3
<1> QED BY TypeCorrect, EachOnce, <1>1, PTL

LEMMA CommandsAre == \A m : m \in Commands <=> \E c \in Conns : \E n \in 1..MaxCmds[c] : m = <<c, n>>
  BY DEF Commands

LEMMA BoundsAreIds == \A c \in Conns : 1..MaxCmds[c] \subseteq Ids
  BY PipelineAssumption DEF Ids

LEMMA SameCommands == D!Commands = Commands
  BY DEF D!Commands, Commands

LEMMA PhaseSame == ASSUME PhasesSame PROVE Phase' = Phase
<1>1. \A m \in Commands : PhaseOf(m[1], m[2])' = PhaseOf(m[1], m[2])
  BY CommandsAre, BoundsAreIds DEF PhasesSame
<1>2. Commands' = Commands
  BY DEF Commands
<1> QED BY <1>1, <1>2 DEF Phase

LEMMA MoveIsStep ==
    ASSUME TypeOK', OnceInv', NEW p, NEW q, PhaseMoves(p, q), <<p, q>> \in D!Moves
    PROVE  D!Next
<1>0. PICK c \in Conns : \E n \in 1..MaxCmds[c] :
          /\ PhaseOf(c, n) = p /\ PhaseOf(c, n)' = q
          /\ \A d \in Conns, k \in Ids : <<d, k>> # <<c, n>> => PhaseOf(d, k)' = PhaseOf(d, k)
  BY DEF PhaseMoves
<1>1. PICK n \in 1..MaxCmds[c] :
          /\ PhaseOf(c, n) = p /\ PhaseOf(c, n)' = q
          /\ \A d \in Conns, k \in Ids : <<d, k>> # <<c, n>> => PhaseOf(d, k)' = PhaseOf(d, k)
  BY <1>0
<1> DEFINE m == <<c, n>>
<1>2. m \in Commands /\ n \in Ids
  BY CommandsAre, BoundsAreIds
<1>3. Phase[m] = p /\ Phase'[m] = q
  BY <1>1, <1>2 DEF Phase, Commands
<1>4. Phase' = [Phase EXCEPT ![m] = Phase'[m]]
  <2>1. Phase' = [l \in Commands |-> PhaseOf(l[1], l[2])']
    BY DEF Phase, Commands
  <2>2. ASSUME NEW l \in Commands, l # m PROVE PhaseOf(l[1], l[2])' = PhaseOf(l[1], l[2])
    <3>0. PICK d \in Conns : \E k \in 1..MaxCmds[d] : l = <<d, k>>
      BY CommandsAre
    <3>1. PICK k \in 1..MaxCmds[d] : l = <<d, k>>
      BY <3>0
    <3>2. k \in Ids /\ <<d, k>> # <<c, n>>
      BY <2>2, <3>1, BoundsAreIds
    <3> QED BY <1>1, <3>1, <3>2
  <2> QED BY <1>2, <1>3, <2>1, <2>2 DEF Phase
<1>5. ASSUME p = "new", NEW k \in 1..(n - 1) PROVE Phase[<<c, k>>] # "new"
  <2>1. k \in Ids /\ n \in Nat /\ k < n /\ k \in 1..MaxCmds[c] /\ <<c, k>> # <<c, n>>
    BY <1>2, PipelineAssumption DEF Ids
  <2>2. q # "new"
    BY <1>5 DEF D!Moves
  <2>3. ~Fresh(c, n)'
    BY <1>1, <1>2, <2>2 DEF OnceInv, OnePlace, PhaseOf
  <2>4. ~Fresh(c, k)'
    <3>1. cmd'[c].id \in Nat
      BY DEF TypeOK, ReadersOK, Instructions, NoInstruction
    <3> QED BY <2>1, <2>3, <3>1 DEF Fresh
  <2>5. PhaseOf(c, k)' # "new"
    BY <2>1, <2>4 DEF OnceInv, OnePlace, PhaseOf
  <2>6. PhaseOf(c, k) # "new" /\ <<c, k>> \in Commands
    BY <1>1, <2>1, <2>5, CommandsAre
  <2> QED BY <2>6 DEF Phase
<1> QED BY <1>2, <1>3, <1>4, <1>5, SameCommands DEF D!Next

\* Goroutines, channels and locks implement Delivery, for all constants.
THEOREM PipelineImplementsDelivery == Spec => ImplementsDelivery
<1>1. Init => D!Init
  <2> SUFFICES ASSUME Init PROVE D!Init
    OBVIOUS
  <2>1. \A m \in Commands : PhaseOf(m[1], m[2]) = "new"
    BY InitOnce, CommandsAre, BoundsAreIds
  <2> QED BY <2>1, SameCommands DEF D!Init, Phase
<1>2. /\ TypeOK /\ TypeOK' /\ PipelineInv /\ OnceInv /\ OnceInv' /\ [Next]_vars
      => [D!Next]_Phase
  <2> SUFFICES ASSUME TypeOK, TypeOK', PipelineInv, OnceInv, OnceInv', [Next]_vars
               PROVE  [D!Next]_Phase
    OBVIOUS
  <2>1. CASE PhasesSame
    BY <2>1, PhaseSame
  <2>2. CASE Moved
    BY <2>2, MoveIsStep DEF Moved, D!Moves
  <2> QED BY <2>1, <2>2, OnceStays DEF PipelineInv
<1> QED BY <1>1, <1>2, TypeCorrect, PipelineInvariant, EachOnce, PTL
        DEF Spec, ImplementsDelivery, D!Spec
-----------------------------------------------------------------------------
\* Nobody waits in a circle.

\* The workers end only after Stop began, which main does not wait for a signal after.
StopOrder ==
    \/ main \in {"wait", "stop"} /\ ~closed /\ stops = 0 /\ \A w \in Workers : worker[w] # "done"
    \/ main = "close"
    \/ main # "wait" /\ closed

\* Who is in a critical section of a group has its lock.
LockHeld ==
    /\ \A c \in Conns : reader[c] \in {"put", "delete"} => \E o \in Conns : wlock[o] = c
    /\ main \in {"lock", "send"} => \E o \in Conns : wlock[o] = Main

\* A back channel that others can reach has a writer.
ChannelStarted == \A o \in Conns : \A c \in chans[o] : writer[c] # "none"

\* A reader or a writer gives up only on a socket that is not open any more.
SocketInv ==
    \A c \in Conns : sock[c] = "open" =>
        /\ reader[c] \notin {"remove", "delete"} /\ ~Removed(c)
        /\ writer[c] \notin {"end", "ended"}
        /\ \A n \in Ids : <<c, n>> \notin unwritten

RestInv == StopOrder /\ LockHeld /\ ChannelStarted /\ SocketInv

LEMMA StopOrderStays == ASSUME TypeOK, StopOrder, [Next]_vars PROVE StopOrder'
<1>1. ASSUME NEW w \in Workers, Worker(w) PROVE StopOrder'
  <2>0. UNCHANGED <<main, closed>>
    BY <1>1 DEF Worker, WorkerFrame, stop
  <2>1. CASE WorkerStop(w)
    BY <2>0, <2>1 DEF WorkerStop, StopOrder
  <2>2. CASE ~WorkerStop(w)
    <3>1. UNCHANGED stops /\ \A v \in Workers : worker'[v] = "done" => worker[v] = "done"
      BY <1>1, <2>2 DEF TypeOK, WorkersOK, Worker, WorkerStep, WorkerTake, WorkerTakeClosed, SendNil,
                  SendLookup, Send, SendClosed, WorkerGoto
    <3> QED BY <2>0, <3>1 DEF StopOrder
  <2> QED BY <2>1, <2>2
<1>2. CASE MainNext \/ (Signal /\ MainFrame)
  BY <1>2 DEF StopOrder, MainNext, MainStep, MainFrame, Signal, StopSignals, StopTwice, CloseChannels,
       SkipNil, SendExitLock, SendExitStart, SendExit, SendExitClosed, SendExitUnlock, OutSignal, Exit
<1>3. CASE UNCHANGED <<main, closed, stops, worker>>
  BY <1>3 DEF StopOrder
<1> QED BY <1>1, <1>2, <1>3
        DEF Next, Listener, Read, ReadCommand, Reader, ReaderFrame, Writer, WriterFrame, vars, stop

LEMMA ReaderHolds ==
    ASSUME TypeOK, LockInv, SlotInv, LockHeld, NEW c \in Conns, Read(c) \/ Reader(c)
    PROVE  LockHeld'
<1>0. UNCHANGED main /\ c # Main /\ c # Nobody /\ Main # Nobody
  BY PipelineAssumption DEF Read, Reader, ReaderFrame, stop
<1>1. ASSUME NEW p, reader' = [reader EXCEPT ![c] = p],
             p \in {"put", "delete"} => \E q \in Conns : wlock'[q] = c,
             \A q \in Conns : wlock[q] \in (Conns \ {c}) \cup {Main} => wlock'[q] = wlock[q]
      PROVE  LockHeld'
  <2>1. ASSUME NEW d \in Conns, d # c, reader'[d] \in {"put", "delete"}
        PROVE  \E q \in Conns : wlock'[q] = d
    BY <1>1, <2>1 DEF LockHeld, TypeOK, ReadersOK
  <2>2. reader'[c] = p
    BY <1>1 DEF TypeOK, ReadersOK
  <2>3. main' \in {"lock", "send"} => \E q \in Conns : wlock'[q] = Main
    BY <1>0, <1>1 DEF LockHeld
  <2> QED BY <1>1, <2>1, <2>2, <2>3 DEF LockHeld
<1>2. ASSUME NEW p, reader' = [reader EXCEPT ![c] = p], Slot(c) # Nobody, wlock[Slot(c)] = Nobody,
             wlock' = [wlock EXCEPT ![Slot(c)] = c]
      PROVE  LockHeld'
  <2>1. Slot(c) \in Conns
    BY <1>2, SlotType
  <2>2. wlock'[Slot(c)] = c /\ \A q \in Conns : q # Slot(c) => wlock'[q] = wlock[q]
    BY <1>2, <2>1 DEF TypeOK, GroupsOK
  <2> QED BY <1>1, <1>2, <2>1, <2>2, PipelineAssumption
<1>3. ASSUME NEW p \in {"read", "forget"}, reader' = [reader EXCEPT ![c] = p],
             NEW o \in Conns, NEW s, ChangeChannels(c, o, s)
      PROVE  LockHeld'
  <2>1. wlock[o] = c /\ \A q \in Conns : q # o => wlock'[q] = wlock[q]
    BY <1>3 DEF ChangeChannels, TypeOK, GroupsOK
  <2> QED BY <1>0, <1>1, <1>3, <2>1
<1>4. CASE AppendBackChannel(c)
  <2>1. Slot(c) # Nobody
    BY <1>4 DEF SlotInv, AppendBackChannel, ReaderGoto
  <2> QED BY <1>2, <1>4, <2>1 DEF AppendBackChannel, ReaderGoto
<1>5. CASE RemoveBackChannel(c) /\ Slot(c) # Nobody /\ c \in chans[Slot(c)]
  BY <1>2, <1>5 DEF RemoveBackChannel, ReaderGoto
<1>6. CASE Put(c) \/ Delete(c)
  BY <1>3, <1>6 DEF Put, Delete, ReaderGoto
<1>7. ASSUME ~AppendBackChannel(c), ~Put(c), ~Delete(c),
             ~(RemoveBackChannel(c) /\ Slot(c) # Nobody /\ c \in chans[Slot(c)])
      PROVE  LockHeld'
  <2>1. UNCHANGED wlock /\ \A d \in Conns : reader'[d] \in {"put", "delete"} => reader'[d] = reader[d]
    BY <1>7 DEF TypeOK, ReadersOK, Read, Reader, ReaderStep, ReaderGoto, ReadCommand, Processing,
       ProcessingClosed, StartWriter, CreateGroup, ReadError, RemoveBackChannel,
       RemoveConnection, ReaderClose, group
  <2> QED BY <1>0, <2>1 DEF LockHeld
<1> QED BY <1>4, <1>5, <1>6, <1>7

LEMMA LockHeldStays ==
    ASSUME TypeOK, SlotInv, LockInv, LockHeld, [Next]_vars PROVE LockHeld'
<1>1. CASE Listener
  <2>1. UNCHANGED <<wlock, main>> /\ \A d \in Conns : reader'[d] \in {"put", "delete"} => reader'[d] = reader[d]
    BY <1>1 DEF TypeOK, ReadersOK, Listener, ListenerCheck, ListenerAccept, PeerBreak, group, stop
  <2> QED BY <2>1 DEF LockHeld
<1>2. CASE MainNext \/ (Signal /\ MainFrame)
  <2>0. UNCHANGED reader
    BY <1>2 DEF MainNext, MainFrame
  <2>1. CASE \E g \in Groups : SendExitLock(g)
    <3>1. PICK g \in Groups : SendExitLock(g)
      BY <2>1
    <3>2. slot[g] \in Conns
      BY <3>1 DEF SendExitLock, TypeOK, GroupsOK
    <3>3. /\ wlock'[slot[g]] = Main /\ wlock[slot[g]] = Nobody
          /\ \A o \in Conns : o # slot[g] => wlock'[o] = wlock[o]
      BY <3>1, <3>2 DEF SendExitLock, TypeOK, GroupsOK
    <3> QED BY <2>0, <3>2, <3>3, PipelineAssumption DEF LockHeld
  <2>2. CASE SendExitUnlock
    <3>1. main' = "groups" /\ wlock' = [o \in Conns |-> IF wlock[o] = Main THEN Nobody ELSE wlock[o]]
      BY <2>2 DEF SendExitUnlock
    <3> QED BY <2>0, <3>1, PipelineAssumption DEF LockHeld
  <2>3. ASSUME ~SendExitUnlock, ~\E g \in Groups : SendExitLock(g) PROVE LockHeld'
    <3>1. UNCHANGED wlock /\ (main' \in {"lock", "send"} => main \in {"lock", "send"})
      BY <1>2, <2>3 DEF MainNext, MainStep, Signal, StopSignals, StopTwice, CloseChannels, SkipNil,
         SendExitStart, SendExit, SendExitClosed, OutSignal, Exit
    <3> QED BY <2>0, <3>1 DEF LockHeld
  <2> QED BY <2>1, <2>2, <2>3
<1>3. CASE UNCHANGED <<reader, wlock, main>>
  BY <1>3 DEF LockHeld
<1> QED BY <1>1, <1>2, <1>3, ReaderHolds
        DEF Next, Worker, WorkerFrame, Writer, WriterFrame, vars, group, stop

LEMMA ChannelStartedStays ==
    ASSUME TypeOK, CommandInv, ChannelStarted, [Next]_vars PROVE ChannelStarted'
<1>1. \A c \in Conns : writer[c] # "none" => writer'[c] # "none"
  <2>1. ASSUME NEW c \in Conns, Writer(c) PROVE \A d \in Conns : writer[d] # "none" => writer'[d] # "none"
    BY <2>1, WriterStarted
  <2>2. ASSUME NEW c \in Conns, Reader(c) \/ Read(c)
        PROVE  \A d \in Conns : writer[d] # "none" => writer'[d] # "none"
    BY <2>2 DEF TypeOK, WritersOK, Read, ReadCommand, Reader, ReaderStep, Processing,
       ProcessingClosed, StartWriter, CreateGroup, AppendBackChannel, Put, ChangeChannels, ReadError,
       RemoveBackChannel, Delete, RemoveConnection, ReaderClose
  <2>3. CASE UNCHANGED writer
    BY <2>3
  <2> QED BY <2>1, <2>2, <2>3 DEF Next, Listener, Worker, WorkerFrame, MainNext, MainFrame, vars
<1>2. ASSUME NEW o \in Conns, NEW c \in chans'[o], c \notin chans[o] PROVE c \in Conns /\ writer[c] # "none"
  <2>1. PICK d \in Conns : Put(d) \/ Delete(d)
    BY <1>2 DEF Next, Listener, Read, ReadCommand, Reader, ReaderStep, Processing,
       ProcessingClosed, StartWriter, CreateGroup, AppendBackChannel, ReadError,
       RemoveBackChannel, RemoveConnection, ReaderClose, Writer, WriterFrame, Worker, WorkerFrame,
       MainNext, MainFrame, vars, group
  <2>2. PICK q \in Conns : \E s \in {chans[q] \cup {d}, chans[q] \ {d}} :
            ChangeChannels(d, q, s) /\ (s # chans[q] \ {d} => Put(d))
    BY <2>1 DEF Put, Delete
  <2>3. Put(d) /\ c = d
    BY <1>2, <2>2 DEF ChangeChannels, TypeOK, GroupsOK
  <2> QED BY <2>3 DEF Put, ReaderGoto, CommandInv
<1>3. \A o \in Conns : \A c \in chans[o] : c \in Conns
  BY DEF TypeOK, GroupsOK
<1> QED BY <1>1, <1>2, <1>3 DEF ChannelStarted

LEMMA SocketInvStays ==
    ASSUME TypeOK, CommandInv, OnceInv, SocketInv, [Next]_vars PROVE SocketInv'
<1> DEFINE Good(c) ==
      /\ reader[c] \notin {"remove", "delete"} /\ ~Removed(c)
      /\ writer[c] \notin {"end", "ended"}
      /\ \A n \in Ids : <<c, n>> \notin unwritten
<1>0. SocketInv <=> \A c \in Conns : sock[c] = "open" => Good(c)
  BY DEF SocketInv
<1>1. CASE Listener
  <2> SUFFICES ASSUME NEW c \in Conns, sock'[c] = "open" PROVE Good(c)'
    BY DEF SocketInv
  <2>0. UNCHANGED <<writer, cur, unwritten>>
    BY <1>1 DEF Listener, hist
  <2>1. CASE sock[c] = "open"
    <3>1. Good(c)
      BY <1>0, <2>1
    <3>2. reader'[c] = reader[c] \/ reader'[c] = "read"
      BY <1>1 DEF TypeOK, ReadersOK, Listener, ListenerCheck, ListenerAccept, PeerBreak
    <3> QED BY <2>0, <3>1, <3>2 DEF Removed
  <2>2. CASE sock[c] # "open"
    <3>1. ListenerAccept(c)
      BY <1>1, <2>2 DEF TypeOK, NetworkOK, Listener, ListenerCheck, ListenerAccept, PeerBreak
    <3>2. reader[c] = "none" /\ reader'[c] = "read" /\ writer[c] = "none" /\ cmd[c].id = 0
      BY <3>1 DEF ListenerAccept, CommandInv, TypeOK, ReadersOK
    <3>3. \A n \in Ids : Fresh(c, n)
      BY <3>2 DEF Fresh, Ids
    <3>4. \A n \in Ids : <<c, n>> \notin unwritten
      BY <3>3 DEF OnceInv, OnePlace
    <3> QED BY <2>0, <3>2, <3>4 DEF Removed
  <2> QED BY <2>1, <2>2
<1>2. ASSUME NEW d \in Conns, Read(d) \/ Reader(d) PROVE SocketInv'
  <2> SUFFICES ASSUME NEW c \in Conns, sock'[c] = "open" PROVE Good(c)'
    BY DEF SocketInv
  <2>1. sock[c] = "open" /\ UNCHANGED <<cur, unwritten>>
    BY <1>2 DEF TypeOK, NetworkOK, Read, Reader, ReaderStep, ReaderFrame, ReadCommand, Processing,
       ProcessingClosed, StartWriter, CreateGroup, AppendBackChannel, Put, ChangeChannels, ReadError,
       RemoveBackChannel, Delete, RemoveConnection, ReaderClose, conn, hist
  <2>2. Good(c)
    BY <1>0, <2>1
  <2>3. writer'[c] = writer[c] \/ writer'[c] = "recv"
    BY <1>2 DEF TypeOK, WritersOK, Read, Reader, ReaderStep, ReadCommand, Processing,
       ProcessingClosed, StartWriter, CreateGroup, AppendBackChannel, Put, ChangeChannels, ReadError,
       RemoveBackChannel, Delete, RemoveConnection, ReaderClose
  <2>4. reader'[c] \notin {"remove", "delete", "forget", "close", "gone"}
    BY <1>2, <2>1, <2>2 DEF TypeOK, ReadersOK, Read, Reader, ReaderStep, ReaderGoto, ReadCommand,
       Processing, ProcessingClosed, StartWriter, CreateGroup, AppendBackChannel, Put, ChangeChannels,
       ReadError, RemoveBackChannel, Delete, RemoveConnection, ReaderClose, Removed
  <2> QED BY <2>1, <2>2, <2>3, <2>4 DEF Removed
<1>3. ASSUME NEW d \in Conns, Writer(d) PROVE SocketInv'
  <2> SUFFICES ASSUME NEW c \in Conns, sock'[c] = "open" PROVE Good(c)'
    BY DEF SocketInv
  <2>1. sock[c] = "open" /\ UNCHANGED reader
    BY <1>3 DEF TypeOK, NetworkOK, Writer, WriterStep, WriterFrame, Receive, Write, WriteError,
       UpdateState, UpdateStateNil, CloseSocket, CloseBack
  <2>2. Good(c)
    BY <1>0, <2>1
  <2>3. \A n \in Ids : <<c, n>> \notin unwritten'
    <3>1. /\ unwritten' \subseteq unwritten \cup {<<d, cur[d].id>>}
          /\ c = d => UNCHANGED unwritten
      BY <1>3, <2>1 DEF Writer, WriterStep, Receive, Write, WriteError,
         UpdateState, UpdateStateNil, CloseSocket, CloseBack, TypeOK, NetworkOK
    <3> QED BY <2>2, <3>1
  <2>4. writer'[c] \notin {"end", "ended"}
    <3>1. CASE c # d
      BY <1>3, <2>2, <3>1 DEF TypeOK, WritersOK, Writer, WriterStep, Receive, Write, WriteError,
         UpdateState, UpdateStateNil, CloseSocket, CloseBack, WriterGoto
    <3>2. CASE c = d /\ (CloseSocket(c) \/ CloseBack(c))
      BY <1>3, <2>1, <2>2, <3>2 DEF CloseSocket, CloseBack, WriterGoto, TypeOK, NetworkOK
    <3>3. CASE c = d /\ Write(c)
      BY <2>2, <3>3 DEF TypeOK, WritersOK, Write, WriterGoto
    <3>4. CASE c = d /\ ~CloseSocket(c) /\ ~CloseBack(c) /\ ~Write(c)
      BY <1>3, <2>1, <2>2, <3>4 DEF TypeOK, WritersOK, Writer, WriterStep, Receive, WriteError,
         UpdateState, UpdateStateNil, WriterGoto
    <3> QED BY <3>1, <3>2, <3>3, <3>4
  <2> QED BY <2>1, <2>2, <2>3, <2>4 DEF Removed
<1>4. CASE UNCHANGED <<sock, reader, writer, cur, unwritten>>
  BY <1>4 DEF SocketInv, Removed
<1> QED BY <1>1, <1>2, <1>3, <1>4
        DEF Next, Worker, WorkerFrame, MainNext, MainFrame, vars, conn, hist

\* With nobody free, and no client that does not read, no lock is held and every send has
\* room.
LEMMA NobodyHolds ==
    ASSUME TypeOK, PipelineInv, RestInv, ~CanGo, ~Jammed
    PROVE  /\ \A o \in Conns : wlock[o] = Nobody /\ rlock[o] = {}
           /\ main \notin {"lock", "send"}
<1>1. ASSUME NEW o \in Conns, NEW c \in chans[o],
             \/ \E w \in Workers : worker[w] = "send" /\ job[w].cid = c
             \/ main = "send" /\ c \in pend
      PROVE  HasRoom(c)
  <2>1. c \in Conns /\ writer[c] # "none"
    BY DEF TypeOK, GroupsOK, RestInv, ChannelStarted
  <2>2. Settled(c) \/ HasRoom(c)
    BY <1>1, <2>1 DEF CanGo, Jammed, JammedAt
  <2>3. Len(<<>>) = 0 /\ 0 < BufferSize
    BY PipelineAssumption
  <2> QED BY <2>1, <2>2, <2>3 DEF Settled, HasRoom, BackClosed
<1>2. \A o \in Conns : rlock[o] = {}
  <2> SUFFICES ASSUME NEW o \in Conns, NEW w \in rlock[o] PROVE FALSE
    OBVIOUS
  <2>1. w \in Workers /\ worker[w] = "send" /\ job[w].cid \in chans[o]
    BY DEF TypeOK, GroupsOK, PipelineInv, LockInv
  <2>2. WorkerFree(w)
    BY <1>1, <2>1 DEF WorkerFree
  <2> QED BY <2>1, <2>2 DEF CanGo
<1>3. main \notin {"lock", "send"}
  <2>1. CASE main = "lock"
    BY <1>2, <2>1 DEF RestInv, LockHeld, CanGo, MainFree
  <2>2. CASE main = "send"
    <3>1. PICK o \in Conns : wlock[o] = Main
      BY <2>2 DEF PipelineInv, LockInv
    <3>2. pend \subseteq chans[o]
      BY <2>2, <3>1 DEF PipelineInv, LockInv
    <3>3. MainFree
      BY <1>1, <2>2, <3>2 DEF MainFree
    <3> QED BY <3>3 DEF CanGo
  <2> QED BY <2>1, <2>2
<1>4. \A o \in Conns : wlock[o] = Nobody
  <2> SUFFICES ASSUME NEW o \in Conns, wlock[o] # Nobody PROVE FALSE
    OBVIOUS
  <2>1. wlock[o] \in Conns \cup {Main}
    BY DEF TypeOK, GroupsOK
  <2>2. wlock[o] # Main
    BY <1>3 DEF PipelineInv, LockInv
  <2>3. PICK c \in Conns : wlock[o] = c /\ reader[c] \in {"put", "delete"}
    BY <2>1, <2>2 DEF PipelineInv, LockInv
  <2>4. ReaderFree(c)
    BY <1>2, <2>3 DEF ReaderFree
  <2> QED BY <2>4 DEF CanGo
<1> QED BY <1>2, <1>3, <1>4

LEMMA MainWaits ==
    ASSUME TypeOK, PipelineInv, RestInv, Workers # {}, ~CanGo, ~Jammed
    PROVE  main = "wait" /\ ~closed /\ in = <<>> /\ \A w \in Workers : worker[w] = "idle"
<1>1. main # "groups"
  <2> SUFFICES ASSUME main = "groups" PROVE FALSE
    OBVIOUS
  <2>1. \A g \in todo : slot[g] # Nobody => wlock[slot[g]] = Nobody
    BY NobodyHolds DEF TypeOK, MainOK, GroupsOK
  <2> QED BY <2>1 DEF MainFree, CanGo
<1>2. main = "wait"
  BY <1>1, NobodyHolds DEF MainFree, CanGo
<1>3. ~closed /\ stops = 0 /\ \A w \in Workers : worker[w] # "done"
  BY <1>2 DEF RestInv, StopOrder
<1>4. \A w \in Workers : worker[w] = "idle"
  <2> SUFFICES ASSUME NEW w \in Workers, worker[w] # "idle" PROVE FALSE
    OBVIOUS
  <2>1. worker[w] \in {"route", "send"} /\ job[w].cid \in Conns
    BY <1>3 DEF TypeOK, WorkersOK, WorkerStates, Instructions
  <2>2. CASE worker[w] = "route"
    <3>1. Slot(job[w].cid) # Nobody => wlock[Slot(job[w].cid)] = Nobody
      BY <2>1, SlotType, NobodyHolds
    <3> QED BY <2>2, <3>1 DEF WorkerFree, CanGo
  <2>3. CASE worker[w] = "send"
    BY <2>3, NobodyHolds DEF PipelineInv, LockInv
  <2> QED BY <2>1, <2>2, <2>3
<1>5. Workers # {} => in = <<>>
  BY <1>4 DEF WorkerFree, CanGo
<1> QED BY <1>2, <1>3, <1>4, <1>5

LEMMA ReadersWait ==
    ASSUME TypeOK, PipelineInv, RestInv, Workers # {}, ~CanGo, ~Jammed, NEW c \in Conns
    PROVE  reader[c] \in {"none", "gone"} \/ (reader[c] = "read" /\ sock[c] = "open")
<1>0. ~ReaderFree(c) /\ reader[c] \in ReaderStates
  BY DEF CanGo, TypeOK, ReadersOK
<1>1. reader[c] # "process"
  <2>1. Len(in) = 0 /\ 0 < BufferSize
    BY MainWaits, PipelineAssumption
  <2> QED BY <1>0, <2>1 DEF ReaderFree
<1>2. reader[c] \notin {"put", "delete"}
  BY <1>0, NobodyHolds, PipelineAssumption DEF ReaderFree, RestInv, LockHeld
<1>3. reader[c] \notin {"append", "remove"}
  <2>1. Slot(c) # Nobody => wlock[Slot(c)] = Nobody
    BY SlotType, NobodyHolds
  <2>2. reader[c] = "append" => Slot(c) # Nobody
    BY DEF PipelineInv, SlotInv
  <2> QED BY <1>0, <2>1, <2>2 DEF ReaderFree
<1>4. reader[c] = "read" => sock[c] = "open"
  BY <1>0 DEF ReaderFree
<1> QED BY <1>0, <1>1, <1>2, <1>3, <1>4 DEF ReaderFree, ReaderStates

\* With nobody free, a command that was read is in no queue and with no worker, and with
\* its writer only if the client does not read.
LEMMA NobodyWaits ==
    ASSUME TypeOK, PipelineInv, OnlyFirstDropped, OnceInv, RestInv, Workers # {}, ~CanGo,
           ~Jammed, NEW c \in Conns, NEW n \in 1..cmd[c].id
    PROVE  \/ PhaseOf(c, n) = "answered" \/ sock[c] # "open" \/ GroupLost
           \/ n = 1 /\ <<c, n>> \in dropped
           \/ Unread(c) /\ PhaseOf(c, n) = "outgoing"
<1> SUFFICES ASSUME sock[c] = "open", ~GroupLost, PhaseOf(c, n) # "answered"
             PROVE  \/ n = 1 /\ <<c, n>> \in dropped
                    \/ Unread(c) /\ PhaseOf(c, n) = "outgoing"
  OBVIOUS
<1>0. ~Answered(c, n)
  BY DEF PhaseOf
<1>1. n \in Ids /\ cmd[c].id \in Nat /\ n <= cmd[c].id
  BY CommandId DEF Ids
<1>2. reader[c] # "process"
  BY ReadersWait
<1>3. ~Fresh(c, n)
  BY <1>1, <1>2 DEF Fresh
<1>4. ~InQueue(c, n) /\ ~InWorker(c, n)
  BY MainWaits DEF InQueue, InWorker
<1>5. (writer[c] = "recv" /\ back[c] = <<>>) \/ Unread(c)
  <2>1. writer[c] \notin {"none", "ended"}
    BY <1>1, <1>2, ReadersWait DEF PipelineInv, CommandInv, RestInv, SocketInv
  <2> QED BY <2>1 DEF CanGo, Settled
<1>6. InBack(c, n) \/ AtWriter(c, n) => Unread(c)
  BY <1>5 DEF InBack, AtWriter
<1>7. <<c, n>> \notin unwritten
  BY <1>1 DEF RestInv, SocketInv
<1>8. <<c, n>> \in dropped => n = 1
  <2>1. ~Removed(c)
    BY DEF RestInv, SocketInv
  <2>2. <<c, n>> \in dropped => ~(n > 1)
    BY <2>1 DEF OnlyFirstDropped
  <2> QED BY <1>1, <2>2 DEF Ids
<1>9. <<c, n>> \in dropped \/ InBack(c, n) \/ AtWriter(c, n)
  BY <1>0, <1>1, <1>3, <1>4, <1>7 DEF OnceInv, OnePlace
<1> QED BY <1>0, <1>6, <1>7, <1>8, <1>9 DEF PhaseOf

\* No deadlock, and nobody forgotten, for any numbers of connections, groups and
\* workers (one at least) and any size of the channels: when no goroutine can go on,
\* every lock is free, every queue is empty and every command has its answer, or waits for
\* its own client to read; or else a client that does not read holds up a Send.
THEOREM NoCircularWait == Spec => []RestsOnlyDone
<1>1. Init => RestInv
  BY DEF Init, RestInv, StopOrder, LockHeld, ChannelStarted, SocketInv, Removed
<1>2. TypeOK /\ PipelineInv /\ OnceInv /\ RestInv /\ [Next]_vars => RestInv'
  BY StopOrderStays, LockHeldStays, ChannelStartedStays, SocketInvStays DEF RestInv, PipelineInv
<1>3. TypeOK /\ PipelineInv /\ OnlyFirstDropped /\ OnceInv /\ RestInv => RestsOnlyDone
  <2> SUFFICES ASSUME TypeOK, PipelineInv, OnlyFirstDropped, OnceInv, RestInv, Workers # {}, ~CanGo,
                      ~Jammed
               PROVE  AtRest
    BY DEF RestsOnlyDone
  <2> QED BY NobodyHolds, MainWaits, ReadersWait, NobodyWaits DEF AtRest
<1> QED BY <1>1, <1>2, <1>3, TypeCorrect, PipelineInvariant, LaterNotDropped, EachOnce, PTL DEF Spec
=============================================================================
