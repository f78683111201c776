--------------------------- MODULE PipelineProofs ---------------------------
(***************************************************************************)
(* Types of Pipeline, then its inductive invariant, and with it            *)
(* OnlyFirstDropped, RemovedUnreachable and StopNotifies, for any numbers  *)
(* of connections, workers and groups, any buffer size and any bound on    *)
(* commands and signals.                                                   *)
(***************************************************************************)
EXTENDS PipelineProperties, SequenceTheorems, FiniteSetTheorems, TLAPS

-----------------------------------------------------------------------------
\* Why OnlyFirstDropped and RemovedUnreachable hold: the parts of an inductive
\* invariant.

\* The reader is past AppendBackChannel.
Appended(c) ==
    writer[c] # "none" /\ reader[c] \notin {"none", "back", "create", "append", "put"}

\* The reader is past AppendBackChannel and has not removed the channel yet.
Registered(c) == Appended(c) /\ ~Removed(c)

\* A reader goes on to its second command only after AppendBackChannel.
CommandInv ==
    /\ \A c \in Conns :
          /\ reader[c] \in {"none", "back"} => writer[c] = "none"
          /\ reader[c] = "process" => cmd[c].cid = c
          /\ writer[c] = "none" =>
                \/ cmd[c].id = 0 /\ reader[c] \notin {"create", "append", "put"}
                \/ cmd[c].id = 1 /\ reader[c] \in {"process", "back"}
          /\ cmd[c].id > 1 => Appended(c)
    /\ \A i \in 1..Len(in) : in[i].id > 1 => Appended(in[i].cid)
    /\ \A w \in Workers : job[w].id > 1 => Appended(job[w].cid)

\* A group is made once, by a reader of its index, and an index never goes back
\* to nil.
SlotInv ==
    /\ \A o \in made : writer[o] # "none" /\ reader[o] # "create"
    /\ \A g \in Groups : slot[g] # Nobody => slot[g] \in made /\ GroupOf[slot[g]] = g
    /\ \A c \in Conns :
          reader[c] \in {"append", "put"} \/ Registered(c) => Slot(c) # Nobody

\* Who waits for or holds the write lock of a group, and what the read lock and
\* the write lock of SendExit protect.
LockInv ==
    /\ \A o \in Conns :
          /\ wlock[o] \in Conns => /\ o \in made /\ GroupOf[o] = GroupOf[wlock[o]]
                                   /\ reader[wlock[o]] \in {"put", "delete"}
          /\ wlock[o] = Main => main \in {"lock", "send"}
          /\ \A p \in Conns : wlock[o] = wlock[p] /\ wlock[o] # Nobody => o = p
          /\ \A c \in chans[o] : o \in made /\ GroupOf[o] = GroupOf[c]
          /\ \A w \in rlock[o] : worker[w] = "send" /\ job[w].cid \in chans[o]
          /\ main = "send" /\ wlock[o] = Main => pend \subseteq chans[o]
    /\ \A w \in Workers : worker[w] = "send" => \E o \in Conns : w \in rlock[o]
    /\ main = "send" => \E o \in Conns : wlock[o] = Main
    /\ main # "send" => pend = {}

\* As long as no group was lost, the map of its index has a connection exactly
\* while its reader is between AppendBackChannel and RemoveBackChannel.
RegistryInv ==
    GroupLost \/ \A c \in Conns :
        /\ Registered(c) => c \in chans[Slot(c)]
        /\ Removed(c) => \A o \in Conns : c \notin chans[o]

PipelineInv == CommandInv /\ SlotInv /\ LockInv /\ RegistryInv

-----------------------------------------------------------------------------
\* Types

LEMMA InitTypeOK == Init => TypeOK
<1> SUFFICES ASSUME Init PROVE TypeOK
  OBVIOUS
<1>1. NetworkOK /\ ReadersOK /\ WritersOK /\ WorkersOK
  BY DEF Init, NetworkOK, ReadersOK, WritersOK, WorkersOK, ReaderStates, WriterStates, WorkerStates
<1>2. QueuesOK /\ GroupsOK /\ MainOK /\ HistoryOK
  <2>1. QueuesOK
    <3>1. <<>> \in Seq(Instructions) /\ <<>> \in Seq(Outputs)
      OBVIOUS
    <3> QED BY <3>1 DEF Init, QueuesOK
  <2>2. GroupsOK
    BY DEF Init, GroupsOK
  <2>3. MainOK /\ HistoryOK
    BY DEF Init, MainOK, HistoryOK, MainStates, Causes
  <2> QED BY <2>1, <2>2, <2>3
<1>3. stops \in 0..Cardinality(Workers)
  BY PipelineAssumption, FS_CardinalityType DEF Init
<1> QED BY <1>1, <1>2, <1>3 DEF TypeOK

LEMMA ListenerTypeOK == ASSUME TypeOK, Listener PROVE TypeOK'
<1>1. NetworkOK' /\ ReadersOK'
  BY DEF TypeOK, NetworkOK, ReadersOK, Listener, ListenerCheck, ListenerAccept, PeerBreak,
         ReaderStates
<1>2. WritersOK' /\ WorkersOK' /\ QueuesOK'
  BY DEF TypeOK, Listener, WritersOK, WorkersOK, QueuesOK
<1>3. GroupsOK' /\ MainOK' /\ HistoryOK'
  BY DEF TypeOK, Listener, GroupsOK, MainOK, HistoryOK, group, stop, hist
<1> QED BY <1>1, <1>2, <1>3 DEF TypeOK, Listener

\* A connection whose reader is at Processing, or that read nothing, has a number
\* to count its commands by.
LEMMA CommandId == ASSUME TypeOK, NEW c \in Conns PROVE cmd[c].id \in Nat
  BY DEF TypeOK, ReadersOK, Instructions, NoInstruction

LEMMA NextCommand ==
    ASSUME TypeOK, NEW c \in Conns, NEW k \in Kinds[c]
    PROVE  [cid |-> c, id |-> cmd[c].id + 1, kind |-> k] \in Instructions
<1>1. cmd[c].id + 1 \in Nat \ {0}
  BY CommandId
<1>2. k \in AllKinds
  BY PipelineAssumption
<1> QED BY <1>1, <1>2 DEF Instructions

LEMMA ReaderTypeOK == ASSUME NEW c \in Conns, TypeOK, Read(c) \/ Reader(c) PROVE TypeOK'
<1>1. NetworkOK'
  BY DEF TypeOK, Read, Reader, ReaderStep, ReaderFrame, NetworkOK, conn, ReadCommand, Processing,
     ProcessingClosed, StartWriter, CreateGroup, AppendBackChannel, Put, ChangeChannels, ReadError,
     RemoveBackChannel, Delete, RemoveConnection, ReaderClose
<1>2. ReadersOK'
  <2>1. CASE Read(c)
    <3>1. PICK k \in Kinds[c] : cmd' = [cmd EXCEPT ![c] = [cid |-> c, id |-> cmd[c].id + 1, kind |-> k]]
      BY <2>1 DEF Read, ReadCommand
    <3> QED BY <2>1, <3>1, NextCommand
            DEF TypeOK, Read, ReadCommand, ReadersOK, ReaderStates, ReaderGoto
  <2>2. CASE Reader(c)
    BY <2>2 DEF TypeOK, Reader, ReaderStep, ReadersOK, ReaderStates, ReaderGoto, Processing,
       ProcessingClosed, StartWriter, CreateGroup, AppendBackChannel, Put, ChangeChannels,
       ReadError, RemoveBackChannel, Delete, RemoveConnection, ReaderClose
  <2> QED BY <2>1, <2>2
<1>3. WritersOK' /\ WorkersOK'
  BY DEF TypeOK, Read, Reader, ReaderStep, ReaderFrame, WritersOK, WorkersOK, WriterStates,
     ReadCommand, Processing, ProcessingClosed, StartWriter, CreateGroup, AppendBackChannel, Put,
     ChangeChannels, ReadError, RemoveBackChannel, Delete, RemoveConnection, ReaderClose
<1>4. QueuesOK'
  <2>1. CASE Processing(c) /\ ReaderFrame
    <3>1. cmd[c] \in Instructions
      BY <2>1 DEF TypeOK, ReadersOK, Processing, ReaderGoto
    <3> QED BY <2>1, <3>1 DEF TypeOK, QueuesOK, Processing, Enqueue, ReaderFrame
  <2>2. CASE UNCHANGED <<in, back, closed>>
    BY <2>2 DEF TypeOK, QueuesOK
  <2> QED BY <2>1, <2>2
      DEF Read, Reader, ReaderStep, ReaderFrame, ReadCommand, ProcessingClosed, StartWriter,
          CreateGroup, AppendBackChannel, Put, ChangeChannels, ReadError, RemoveBackChannel,
          Delete, RemoveConnection, ReaderClose
<1>5. GroupsOK'
  <2>1. Slot(c) \in Conns \cup {Nobody}
    BY PipelineAssumption DEF TypeOK, GroupsOK, Slot
  <2>2. CASE CreateGroup(c) /\ ReaderFrame
    BY <2>2 DEF TypeOK, GroupsOK, CreateGroup, ReaderFrame
  <2>3. CASE AppendBackChannel(c) /\ ReaderFrame
    BY <2>1, <2>3 DEF TypeOK, GroupsOK, AppendBackChannel, ReaderFrame
  <2>4. CASE RemoveBackChannel(c) /\ ReaderFrame
    BY <2>1, <2>4 DEF TypeOK, GroupsOK, RemoveBackChannel, ReaderFrame
  <2>5. ASSUME NEW o \in Conns, NEW s \in SUBSET Conns, ChangeChannels(c, o, s), ReaderFrame
        PROVE  GroupsOK'
    BY <2>5 DEF TypeOK, GroupsOK, ChangeChannels, ReaderFrame
  <2>6. CASE (Put(c) \/ Delete(c)) /\ ReaderFrame
    <3>1. PICK o \in Conns : ChangeChannels(c, o, chans[o] \cup {c}) \/ ChangeChannels(c, o, chans[o] \ {c})
      BY <2>6 DEF Put, Delete
    <3>2. chans[o] \cup {c} \in SUBSET Conns /\ chans[o] \ {c} \in SUBSET Conns
      BY DEF TypeOK, GroupsOK
    <3> QED BY <2>5, <2>6, <3>1, <3>2
  <2>7. CASE UNCHANGED <<group, rlock>>
    BY <2>7 DEF TypeOK, GroupsOK, group
  <2> QED BY <2>2, <2>3, <2>4, <2>6, <2>7
      DEF Read, Reader, ReaderStep, ReaderFrame, ReadCommand, Processing, ProcessingClosed,
          StartWriter, ReadError, RemoveConnection, ReaderClose
<1>6. MainOK' /\ HistoryOK'
  BY DEF TypeOK, Read, Reader, ReaderStep, ReaderFrame, MainOK, HistoryOK, stop, hist, Causes, Panic,
     ReadCommand, Processing, ProcessingClosed, StartWriter, CreateGroup, AppendBackChannel, Put,
     ChangeChannels, ReadError, RemoveBackChannel, Delete, RemoveConnection, ReaderClose
<1> QED BY <1>1, <1>2, <1>3, <1>4, <1>5, <1>6 DEF TypeOK, Read, Reader, ReaderFrame

LEMMA WorkerTypeOK == ASSUME NEW w \in Workers, TypeOK, Worker(w) PROVE TypeOK'
<1>1. NetworkOK' /\ ReadersOK' /\ WritersOK'
  BY DEF TypeOK, Worker, WorkerFrame, NetworkOK, ReadersOK, WritersOK, conn
<1>2. CASE WorkerTake(w) /\ WorkerFrame
  <2>1. Head(in) \in Instructions /\ Tail(in) \in Seq(Instructions)
    BY <1>2 DEF TypeOK, QueuesOK, WorkerTake
  <2>2. WorkersOK'
    BY <1>2, <2>1 DEF TypeOK, WorkersOK, WorkerTake, WorkerGoto, WorkerStates
  <2>3. QueuesOK' /\ stops' \in 0..Cardinality(Workers)
    BY <1>2, <2>1 DEF TypeOK, QueuesOK, WorkerTake, WorkerFrame
  <2>4. GroupsOK' /\ MainOK' /\ HistoryOK'
    BY <1>2 DEF TypeOK, GroupsOK, MainOK, HistoryOK, WorkerTake, WorkerFrame, group, stop
  <2> QED BY <1>1, <2>2, <2>3, <2>4 DEF TypeOK
<1>3. CASE Send(w) /\ WorkerFrame
  <2>1. job[w] \in Instructions /\ job[w].cid \in Conns /\ job[w] \in Outputs
    BY <1>3 DEF TypeOK, WorkersOK, Send, WorkerGoto, Instructions, Outputs
  <2>2. WorkersOK'
    BY <1>3 DEF TypeOK, WorkersOK, Send, WorkerGoto, WorkerStates
  <2>3. QueuesOK' /\ stops' \in 0..Cardinality(Workers)
    BY <1>3, <2>1 DEF TypeOK, QueuesOK, Send, WorkerFrame
  <2>4. GroupsOK' /\ MainOK' /\ HistoryOK'
    BY <1>3 DEF TypeOK, GroupsOK, MainOK, HistoryOK, Send, ReleaseLock, WorkerFrame, group, stop
  <2> QED BY <1>1, <2>2, <2>3, <2>4 DEF TypeOK
<1>4. CASE SendLookup(w) /\ WorkerFrame
  <2>1. /\ job[w].cid \in Conns /\ job[w].id \in Nat \ {0}
        /\ Slot(job[w].cid) \in Conns
    BY <1>4, PipelineAssumption
       DEF TypeOK, WorkersOK, SendLookup, WorkerGoto, Instructions, Slot, GroupsOK
  <2>2. WorkersOK'
    BY <1>4 DEF TypeOK, WorkersOK, SendLookup, WorkerGoto, WorkerStates
  <2>3. QueuesOK' /\ stops' \in 0..Cardinality(Workers)
    BY <1>4 DEF TypeOK, QueuesOK, SendLookup, WorkerFrame
  <2>4. rlock' \in [Conns -> SUBSET Workers]
    BY <1>4, <2>1 DEF TypeOK, GroupsOK, SendLookup, HoldLock
  <2>5. GroupsOK' /\ MainOK'
    BY <1>4, <2>4 DEF TypeOK, GroupsOK, MainOK, SendLookup, WorkerFrame, group, stop
  <2>6. HistoryOK'
    BY <1>4, <2>1 DEF TypeOK, HistoryOK, SendLookup, WorkerFrame
  <2> QED BY <1>1, <2>2, <2>3, <2>5, <2>6 DEF TypeOK
<1>5. CASE WorkerStop(w) /\ WorkerFrame
  <2>1. stops' \in 0..Cardinality(Workers)
    BY <1>5, PipelineAssumption, FS_CardinalityType DEF TypeOK, WorkerStop
  <2>2. WorkersOK' /\ MainOK' /\ HistoryOK'
    BY <1>5 DEF TypeOK, WorkersOK, MainOK, HistoryOK, WorkerStop, WorkerGoto, WorkerStates,
                WorkerFrame, stop
  <2>3. QueuesOK' /\ GroupsOK'
    BY <1>5 DEF TypeOK, QueuesOK, GroupsOK, WorkerStop, WorkerFrame, group
  <2> QED BY <1>1, <2>1, <2>2, <2>3 DEF TypeOK
<1>6. CASE (WorkerTakeClosed(w) \/ SendNil(w) \/ SendClosed(w)) /\ WorkerFrame
  <2>1. WorkersOK' /\ QueuesOK' /\ GroupsOK' /\ stops' \in 0..Cardinality(Workers)
    BY <1>6 DEF TypeOK, WorkersOK, QueuesOK, GroupsOK, WorkerTakeClosed, SendNil, SendClosed,
                WorkerFrame, group
  <2>2. MainOK' /\ HistoryOK'
    BY <1>6 DEF TypeOK, MainOK, HistoryOK, WorkerTakeClosed, SendNil, SendClosed, WorkerFrame,
                Panic, Causes, stop
  <2> QED BY <1>1, <2>1, <2>2 DEF TypeOK
<1> QED BY <1>2, <1>3, <1>4, <1>5, <1>6 DEF Worker, WorkerStep

LEMMA WriterTypeOK == ASSUME NEW c \in Conns, TypeOK, Writer(c) PROVE TypeOK'
<1>1. ReadersOK' /\ WorkersOK' /\ GroupsOK' /\ stops' \in 0..Cardinality(Workers)
  BY DEF TypeOK, Writer, WriterFrame, ReadersOK, WorkersOK, GroupsOK, group
<1>2. CASE Receive(c) /\ WriterFrame
  <2>1. Head(back[c]) \in Outputs /\ Tail(back[c]) \in Seq(Outputs)
    BY <1>2 DEF TypeOK, QueuesOK, Receive
  <2>2. WritersOK' /\ QueuesOK'
    BY <1>2, <2>1 DEF TypeOK, WritersOK, QueuesOK, Receive, WriterGoto, WriterStates, WriterFrame
  <2>3. NetworkOK' /\ MainOK' /\ HistoryOK'
    BY <1>2 DEF TypeOK, NetworkOK, MainOK, HistoryOK, Receive, WriterFrame, stop
  <2> QED BY <1>1, <2>2, <2>3 DEF TypeOK
<1>3. ASSUME ~Receive(c) PROVE TypeOK'
  <2>1. cur[c].id \in Nat
    BY DEF TypeOK, WritersOK, Outputs, Instructions, ExitInstruction, NoInstruction
  <2>2. WritersOK' /\ QueuesOK' /\ NetworkOK'
    BY <1>3 DEF TypeOK, WritersOK, QueuesOK, NetworkOK, Writer, WriterStep, WriterFrame, WriterGoto,
                WriterStates, Write, WriteError, UpdateState, UpdateStateNil, CloseSocket, CloseBack
  <2>3. MainOK'
    BY <1>3 DEF TypeOK, MainOK, Writer, WriterStep, WriterFrame, stop, Panic, Causes, Write,
                WriteError, UpdateState, UpdateStateNil, CloseSocket, CloseBack
  <2>4. HistoryOK'
    <3>1. CASE Write(c) /\ WriterFrame
      <4>1. HasAnswer(cur[c]) => Append(written[c], cur[c].id) \in Seq(Nat \ {0})
        BY <2>1 DEF TypeOK, HistoryOK, HasAnswer
      <4> QED BY <3>1, <4>1 DEF TypeOK, HistoryOK, Write, WriterFrame
    <3>2. CASE WriteError(c) /\ WriterFrame
      BY <2>1, <3>2 DEF TypeOK, HistoryOK, WriteError, WriterFrame, HasAnswer
    <3>3. CASE UNCHANGED hist
      BY <3>3 DEF TypeOK, HistoryOK, hist
    <3> QED BY <1>3, <3>1, <3>2, <3>3
            DEF Writer, WriterStep, WriterFrame, UpdateState, UpdateStateNil, CloseSocket, CloseBack, hist
  <2> QED BY <1>1, <2>2, <2>3, <2>4 DEF TypeOK
<1> QED BY <1>2, <1>3 DEF Writer

LEMMA MainTypeOK == ASSUME TypeOK, MainNext \/ (Signal /\ MainFrame) PROVE TypeOK'
<1>1. NetworkOK' /\ ReadersOK' /\ WritersOK' /\ WorkersOK' /\ HistoryOK'
  BY DEF TypeOK, MainNext, MainFrame, NetworkOK, ReadersOK, WritersOK, WorkersOK, HistoryOK, conn, hist
<1>2. stops' \in 0..Cardinality(Workers)
  <2>1. CASE StopSignals
    BY <2>1, PipelineAssumption, FS_CardinalityType DEF StopSignals
  <2>2. CASE UNCHANGED stops
    BY <2>2 DEF TypeOK
  <2> QED BY <2>1, <2>2
      DEF MainNext, MainStep, Signal, StopTwice, CloseChannels, SkipNil, SendExitLock,
          SendExitStart, SendExit, SendExitClosed, SendExitUnlock, OutSignal, Exit
<1>3. QueuesOK'
  <2>1. ASSUME NEW c \in Conns, SendExit(c), MainFrame PROVE QueuesOK'
    <3>1. ExitInstruction \in Outputs
      BY DEF Outputs
    <3> QED BY <2>1, <3>1 DEF TypeOK, QueuesOK, SendExit, MainFrame
  <2>2. ASSUME ~\E c \in Conns : SendExit(c) PROVE QueuesOK'
    BY <2>2 DEF TypeOK, QueuesOK, MainNext, MainStep, MainFrame, Signal, StopSignals, StopTwice,
       CloseChannels, SkipNil, SendExitLock, SendExitStart, SendExitClosed, SendExitUnlock,
       OutSignal, Exit
  <2> QED BY <2>1, <2>2 DEF MainNext, Signal, SendExit
<1>4. GroupsOK'
  BY DEF TypeOK, GroupsOK, MainNext, MainStep, MainFrame, Signal, StopSignals, StopTwice,
     CloseChannels, SkipNil, SendExitLock, SendExitStart, SendExit, SendExitClosed, SendExitUnlock,
     OutSignal, Exit
<1>5. MainOK'
  <2>1. CASE Signal
    <3>1. signals' \in Nat
      BY <2>1 DEF TypeOK, MainOK, Signal
    <3> QED BY <2>1, <3>1 DEF TypeOK, MainOK, MainStates, Signal
  <2>2. CASE SendExitStart
    BY <2>2 DEF TypeOK, MainOK, GroupsOK, MainStates, SendExitStart
  <2>3. CASE MainNext /\ ~SendExitStart
    BY <2>3 DEF TypeOK, MainOK, MainNext, MainStep, MainStates, Causes, Panic, StopSignals,
       StopTwice, CloseChannels, SkipNil, SendExitLock, SendExit, SendExitClosed,
       SendExitUnlock, OutSignal, Exit
  <2> QED BY <2>1, <2>2, <2>3
<1> QED BY <1>1, <1>2, <1>3, <1>4, <1>5 DEF TypeOK

\* TypeOK holds in every behaviour, for all constants.
THEOREM TypeCorrect == Spec => []TypeOK
<1>1. TypeOK /\ UNCHANGED vars => TypeOK'
  BY DEF TypeOK, NetworkOK, ReadersOK, WritersOK, WorkersOK, QueuesOK, GroupsOK, MainOK, HistoryOK,
         vars, conn, group, stop, hist
<1>2. TypeOK /\ [Next]_vars => TypeOK'
  BY <1>1, ListenerTypeOK, ReaderTypeOK, WorkerTypeOK, WriterTypeOK, MainTypeOK DEF Next
<1> QED BY InitTypeOK, <1>2, PTL DEF Spec

-----------------------------------------------------------------------------
\* Safety

LEMMA SlotType == ASSUME TypeOK, NEW c \in Conns PROVE Slot(c) \in Conns \cup {Nobody}
  BY PipelineAssumption DEF TypeOK, GroupsOK, Slot

\* What a step of a writer leaves to the invariant: writer[c] is started once.
LEMMA WriterStarted ==
    ASSUME TypeOK, NEW c \in Conns, Writer(c)
    PROVE  /\ \A d \in Conns : writer'[d] = "none" <=> writer[d] = "none"
           /\ UNCHANGED <<reader, cmd, in, worker, job, group, rlock, main, pend, dropped>>
<1>1. \A d \in Conns : writer'[d] = "none" <=> writer[d] = "none"
  <2>1. PICK p \in WriterStates \ {"none"} :
            \/ UNCHANGED writer
            \/ writer[c] # "none" /\ writer' = [writer EXCEPT ![c] = p]
    BY DEF Writer, WriterStep, Receive, Write, WriteError, UpdateState, UpdateStateNil, CloseSocket, CloseBack,
           WriterGoto, WriterStates
  <2> QED BY <2>1 DEF TypeOK, WritersOK
<1> QED BY <1>1 DEF Writer, WriterFrame, stop

\* A reader that got past AppendBackChannel stays past it.
LEMMA AppendedStays ==
    ASSUME TypeOK, CommandInv, [Next]_vars, NEW d \in Conns, Appended(d)
    PROVE  Appended(d)'
<1>1. CASE Listener
  BY <1>1 DEF TypeOK, ReadersOK, WritersOK, Listener, ListenerCheck, ListenerAccept, PeerBreak, Appended
<1>2. ASSUME NEW c \in Conns, Read(c) \/ Reader(c) PROVE Appended(d)'
  BY <1>2 DEF TypeOK, ReadersOK, WritersOK, Appended, Read, Reader, ReaderStep, ReaderGoto,
     ReadCommand, Processing, ProcessingClosed, StartWriter, CreateGroup, AppendBackChannel, Put,
     ChangeChannels, ReadError, RemoveBackChannel, Delete, RemoveConnection, ReaderClose
<1>3. ASSUME NEW c \in Conns, Writer(c) PROVE Appended(d)'
  BY <1>3, WriterStarted DEF Appended
<1>4. CASE UNCHANGED <<reader, writer>>
  BY <1>4 DEF Appended
<1> QED BY <1>1, <1>2, <1>3, <1>4
        DEF Next, Worker, WorkerFrame, MainNext, MainFrame, vars

\* A connection never gets its channel back.
LEMMA RemovedStays ==
    ASSUME TypeOK, [Next]_vars, NEW d \in Conns, Removed(d)
    PROVE  Removed(d)'
<1>1. CASE Listener
  BY <1>1 DEF TypeOK, ReadersOK, Listener, ListenerCheck, ListenerAccept, PeerBreak, Removed
<1>2. ASSUME NEW c \in Conns, Read(c) \/ Reader(c) PROVE Removed(d)'
  BY <1>2 DEF TypeOK, ReadersOK, Removed, Read, Reader, ReaderStep, ReaderGoto,
     ReadCommand, Processing, ProcessingClosed, StartWriter, CreateGroup, AppendBackChannel, Put,
     ChangeChannels, ReadError, RemoveBackChannel, Delete, RemoveConnection, ReaderClose
<1>3. CASE UNCHANGED reader
  BY <1>3 DEF Removed
<1> QED BY <1>1, <1>2, <1>3
        DEF Next, Writer, WriterFrame, Worker, WorkerFrame, MainNext, MainFrame, vars

LEMMA CommandInvStays == ASSUME TypeOK, CommandInv, [Next]_vars PROVE CommandInv'
<1> DEFINE Readers ==
      \A d \in Conns :
          /\ reader[d] \in {"none", "back"} => writer[d] = "none"
          /\ reader[d] = "process" => cmd[d].cid = d
          /\ writer[d] = "none" =>
                \/ cmd[d].id = 0 /\ reader[d] \notin {"create", "append", "put"}
                \/ cmd[d].id = 1 /\ reader[d] \in {"process", "back"}
          /\ cmd[d].id > 1 => Appended(d)
    Queued == \A i \in 1..Len(in) : in[i].id > 1 => Appended(in[i].cid)
    Working == \A w \in Workers : job[w].id > 1 => Appended(job[w].cid)
<1>1. Readers'
  <2>1. CASE Listener
    BY <2>1 DEF TypeOK, ReadersOK, WritersOK, CommandInv, Appended, Listener, ListenerCheck,
                ListenerAccept, PeerBreak
  <2>2. ASSUME NEW c \in Conns, Read(c) PROVE Readers'
    <3>1. cmd[c].id \in Nat
      BY CommandId
    <3>2. PICK k \in Kinds[c] : cmd' = [cmd EXCEPT ![c] = [cid |-> c, id |-> cmd[c].id + 1, kind |-> k]]
      BY <2>2 DEF Read, ReadCommand
    <3> QED BY <2>2, <3>1, <3>2
            DEF TypeOK, ReadersOK, WritersOK, CommandInv, Appended, Read, ReadCommand, ReaderGoto
  <2>3. ASSUME NEW c \in Conns, Reader(c) PROVE Readers'
    <3>1. UNCHANGED cmd
      BY <2>3 DEF Reader, ReaderStep, Processing, ProcessingClosed, StartWriter, CreateGroup,
         AppendBackChannel, Put, ChangeChannels, ReadError, RemoveBackChannel, Delete,
         RemoveConnection, ReaderClose
    <3>2. ASSUME NEW d \in Conns, cmd'[d].id > 1 PROVE Appended(d)'
      BY <3>1, <3>2, AppendedStays DEF CommandInv
    <3>3. CASE Processing(c)
      <4>1. cmd[c].id >= 1
        BY <3>3 DEF TypeOK, ReadersOK, Processing, ReaderGoto, Instructions
      <4> QED BY <3>1, <3>2, <3>3, <4>1 DEF TypeOK, ReadersOK, CommandInv, Processing, ReaderGoto
    <3>4. CASE StartWriter(c)
      BY <3>1, <3>2, <3>4 DEF TypeOK, ReadersOK, WritersOK, CommandInv, StartWriter, ReaderGoto
    <3>5. CASE ~Processing(c) /\ ~StartWriter(c)
      <4>1. PICK p \in {"append", "put", "read", "remove", "delete", "forget", "close", "gone"} :
                /\ UNCHANGED writer
                /\ \/ UNCHANGED reader
                   \/ /\ reader' = [reader EXCEPT ![c] = p]
                      /\ reader[c] \notin {"none", "process", "back"}
                      /\ p \in {"append", "put"} => reader[c] \in {"create", "append"}
        BY <2>3, <3>5 DEF Reader, ReaderStep, ReaderGoto, ProcessingClosed, CreateGroup,
           AppendBackChannel, Put, ChangeChannels, ReadError, RemoveBackChannel, Delete,
           RemoveConnection, ReaderClose
      <4> QED BY <3>1, <3>2, <4>1 DEF TypeOK, ReadersOK, CommandInv
    <3> QED BY <3>3, <3>4, <3>5
  <2>4. ASSUME NEW c \in Conns, Writer(c) PROVE Readers'
    BY <2>4, WriterStarted DEF CommandInv, Appended
  <2>5. CASE UNCHANGED <<reader, writer, cmd>>
    BY <2>5 DEF CommandInv, Appended
  <2> QED BY <2>1, <2>2, <2>3, <2>4, <2>5
          DEF Next, Worker, WorkerFrame, MainNext, MainFrame, vars
<1>2. Queued'
  <2>1. \A i \in 1..Len(in) : in[i].cid \in Conns
    <3>1. \A i \in 1..Len(in) : in[i] \in Instructions
      BY DEF TypeOK, QueuesOK
    <3> QED BY <3>1 DEF Instructions
  <2>2. ASSUME NEW c \in Conns, Processing(c) PROVE Queued'
    <3>1. cmd[c].cid = c /\ (cmd[c].id > 1 => Appended(c))
      BY <2>2 DEF CommandInv, Processing, ReaderGoto
    <3>2. cmd[c] \in Instructions
      BY <2>2 DEF TypeOK, ReadersOK, Processing, ReaderGoto
    <3>3. \A i \in 1..Len(in') : in'[i] = cmd[c] \/ \E j \in 1..Len(in) : in'[i] = in[j]
      BY <2>2, <3>2 DEF TypeOK, QueuesOK, Processing, Enqueue
    <3> QED BY <2>1, <3>1, <3>3, AppendedStays DEF CommandInv
  <2>3. ASSUME NEW w \in Workers, WorkerTake(w) PROVE Queued'
    <3>1. \A i \in 1..Len(in') : i + 1 \in 1..Len(in) /\ in'[i] = in[i + 1]
      <4>1. in \in Seq(Instructions) /\ in # <<>> /\ in' = Tail(in)
        BY <2>3 DEF TypeOK, QueuesOK, WorkerTake
      <4> QED BY <4>1
    <3> QED BY <2>1, <3>1, AppendedStays DEF CommandInv
  <2>4. CASE UNCHANGED in
    BY <2>1, <2>4, AppendedStays DEF CommandInv
  <2> QED BY <2>2, <2>3, <2>4
          DEF Next, Listener, Read, ReadCommand, Reader, ReaderStep, ReaderFrame, ProcessingClosed,
              StartWriter, CreateGroup, AppendBackChannel, Put, ChangeChannels, ReadError,
              RemoveBackChannel, Delete, RemoveConnection, ReaderClose, Writer, WriterFrame,
              Worker, WorkerStep, WorkerStop, WorkerTakeClosed, SendNil, SendLookup, Send,
              SendClosed, MainNext, MainFrame, vars
<1>3. Working'
  <2>1. \A w \in Workers : job[w].id > 1 => job[w].cid \in Conns
    BY DEF TypeOK, WorkersOK, Instructions, NoInstruction
  <2>2. ASSUME NEW w \in Workers, WorkerTake(w) PROVE Working'
    <3>1. PICK i \in 1..Len(in) : job' = [job EXCEPT ![w] = in[i]] /\ in[i] \in Instructions
      <4>1. in \in Seq(Instructions) /\ in # <<>> /\ job' = [job EXCEPT ![w] = Head(in)]
        BY <2>2 DEF TypeOK, QueuesOK, WorkerTake
      <4>2. Head(in) = in[1] /\ 1 \in 1..Len(in) /\ in[1] \in Instructions
        BY <4>1
      <4> QED BY <4>1, <4>2
    <3>2. in[i].cid \in Conns /\ (in[i].id > 1 => Appended(in[i].cid))
      BY <3>1 DEF CommandInv, Instructions
    <3> QED BY <2>1, <3>1, <3>2, AppendedStays DEF TypeOK, WorkersOK, CommandInv
  <2>3. CASE UNCHANGED job
    BY <2>1, <2>3, AppendedStays DEF CommandInv
  <2> QED BY <2>2, <2>3
          DEF Next, Listener, Read, Reader, ReaderFrame, Writer, WriterFrame, Worker, WorkerStep,
              WorkerStop, WorkerTakeClosed, SendNil, SendLookup, Send, SendClosed, MainNext,
              MainFrame, vars
<1> QED BY <1>1, <1>2, <1>3 DEF CommandInv

LEMMA SlotInvStays == ASSUME TypeOK, CommandInv, SlotInv, [Next]_vars PROVE SlotInv'
<1> DEFINE Made == \A o \in made : writer[o] # "none" /\ reader[o] # "create"
    Slots == \A g \in Groups : slot[g] # Nobody => slot[g] \in made /\ GroupOf[slot[g]] = g
    Needs(d) == reader[d] \in {"append", "put"} \/ Registered(d)
<1>0. Made /\ Slots /\ \A d \in Conns : Needs(d) => Slot(d) # Nobody
  BY DEF SlotInv
<1>1. ASSUME NEW c \in Conns, CreateGroup(c), ReaderFrame PROVE SlotInv'
  <2>1. /\ reader[c] = "create" /\ reader' = [reader EXCEPT ![c] = "append"]
        /\ slot' = [slot EXCEPT ![GroupOf[c]] = c] /\ made' = made \cup {c} /\ UNCHANGED writer
        /\ GroupOf[c] \in Groups /\ writer[c] # "none" /\ c # Nobody
    BY <1>1, PipelineAssumption
       DEF TypeOK, ReadersOK, CommandInv, CreateGroup, ReaderGoto, Appended
  <2>2. Made'
    BY <1>0, <2>1 DEF TypeOK, ReadersOK, GroupsOK
  <2>3. Slots'
    BY <1>0, <2>1 DEF TypeOK, GroupsOK
  <2>4. ASSUME NEW d \in Conns, Needs(d)' PROVE Slot(d)' # Nobody
    <3>1. d = c \/ Needs(d)
      BY <2>1, <2>4 DEF TypeOK, ReadersOK, Registered, Appended, Removed
    <3> QED BY <1>0, <2>1, <3>1, PipelineAssumption DEF TypeOK, GroupsOK, Slot
  <2> QED BY <2>2, <2>3, <2>4 DEF SlotInv
<1>2. ASSUME UNCHANGED <<slot, made>>, Made',
             \A d \in Conns : Needs(d)' => Needs(d) \/ Slot(d) # Nobody
      PROVE  SlotInv'
  BY <1>0, <1>2 DEF SlotInv, Slot
<1>3. CASE Listener
  <2>1. \/ UNCHANGED reader
        \/ \E c \in Conns : reader[c] = "none" /\ reader' = [reader EXCEPT ![c] = "read"]
    BY <1>3 DEF Listener, ListenerCheck, ListenerAccept, PeerBreak
  <2>2. UNCHANGED <<writer, slot, made>>
    BY <1>3 DEF Listener, group
  <2>3. Made'
    BY <1>0, <2>1, <2>2 DEF TypeOK, ReadersOK, GroupsOK
  <2>4. \A d \in Conns : Needs(d)' => Needs(d)
    BY <2>1, <2>2 DEF TypeOK, ReadersOK, CommandInv, Registered, Appended, Removed
  <2> QED BY <1>2, <2>2, <2>3, <2>4
<1>4. ASSUME NEW c \in Conns, Read(c) \/ Reader(c), ~CreateGroup(c) PROVE SlotInv'
  <2>1. UNCHANGED <<slot, made>>
    BY <1>4 DEF Read, Reader, ReaderStep, ReadCommand, Processing, ProcessingClosed, StartWriter,
       AppendBackChannel, Put, ChangeChannels, ReadError, RemoveBackChannel, Delete,
       RemoveConnection, ReaderClose, group
  <2>2. CASE StartWriter(c)
    <3>1. /\ reader[c] = "back" /\ writer[c] = "none"
          /\ writer' = [writer EXCEPT ![c] = "recv"]
          /\ \/ Slot(c) = Nobody /\ reader' = [reader EXCEPT ![c] = "create"]
             \/ Slot(c) # Nobody /\ reader' = [reader EXCEPT ![c] = "append"]
      BY <2>2 DEF CommandInv, StartWriter, ReaderGoto
    <3>2. Made'
      BY <1>0, <2>1, <3>1 DEF TypeOK, ReadersOK, WritersOK, GroupsOK
    <3>3. \A d \in Conns : Needs(d)' => Needs(d) \/ Slot(d) # Nobody
      BY <3>1 DEF TypeOK, ReadersOK, WritersOK, Registered, Appended, Removed
    <3> QED BY <1>2, <2>1, <3>2, <3>3
  <2>3. CASE ~StartWriter(c)
    <3>1. PICK p \in {"process", "read", "back", "put", "remove", "delete", "forget", "close", "gone"} :
              /\ UNCHANGED writer
              /\ \/ UNCHANGED reader
                 \/ /\ reader' = [reader EXCEPT ![c] = p]
                    /\ reader[c] \notin {"none", "back", "create"}
                    /\ p = "put" => reader[c] = "append"
                    /\ writer[c] # "none" => Needs(c) \/ p \in {"close", "gone"}
      <4>1. reader[c] \in {"read", "process", "append", "put", "remove", "delete"} /\ writer[c] # "none"
              => Needs(c)
        BY DEF Registered, Appended, Removed
      <4> QED BY <1>4, <2>3, <4>1 DEF Read, Reader, ReaderStep, ReaderGoto, ReadCommand, Processing,
         ProcessingClosed, AppendBackChannel, Put, ChangeChannels, ReadError, RemoveBackChannel,
         Delete, RemoveConnection, ReaderClose
    <3>2. Made'
      BY <1>0, <2>1, <3>1 DEF TypeOK, ReadersOK, GroupsOK
    <3>3. \A d \in Conns : Needs(d)' => Needs(d)
      BY <3>1 DEF TypeOK, ReadersOK, Registered, Appended, Removed
    <3> QED BY <1>2, <2>1, <3>2, <3>3
  <2> QED BY <2>2, <2>3
<1>5. ASSUME NEW c \in Conns, Writer(c) PROVE SlotInv'
  <2>1. /\ UNCHANGED <<reader, slot, made>>
        /\ \A d \in Conns : writer'[d] = "none" <=> writer[d] = "none"
    BY <1>5, WriterStarted DEF group
  <2>2. Made' /\ \A d \in Conns : Needs(d)' => Needs(d)
    BY <1>0, <2>1 DEF TypeOK, GroupsOK, Registered, Appended, Removed
  <2> QED BY <1>2, <2>1, <2>2
<1>6. CASE UNCHANGED <<reader, writer, slot, made>>
  BY <1>0, <1>6 DEF SlotInv, Slot, Registered, Appended, Removed
<1> QED BY <1>1, <1>3, <1>4, <1>5, <1>6
        DEF Next, Read, Reader, Worker, WorkerFrame, MainNext, MainFrame, vars, group

\* Where nobody takes or gives back a lock, only the place of a reader that holds
\* none changes, and groups are only added.
LEMMA LockFrame ==
    ASSUME TypeOK, LockInv, UNCHANGED <<chans, rlock, wlock, worker, job, main, pend>>,
           made \subseteq made',
           \A c \in Conns : reader[c] \in {"put", "delete"} => reader'[c] = reader[c]
    PROVE  LockInv'
  BY DEF LockInv, TypeOK, GroupsOK

LEMMA TakeLock ==
    ASSUME TypeOK, SlotInv, LockInv, NEW c \in Conns, Slot(c) # Nobody,
           reader[c] \notin {"put", "delete"}, NEW p \in {"put", "delete"},
           reader' = [reader EXCEPT ![c] = p],
           wlock[Slot(c)] = Nobody, wlock' = [wlock EXCEPT ![Slot(c)] = c],
           UNCHANGED <<made, chans, rlock, worker, job, main, pend>>
    PROVE  LockInv'
<1>1. Slot(c) \in made /\ Slot(c) \in Conns /\ GroupOf[Slot(c)] = GroupOf[c] /\ c # Main /\ c # Nobody
  BY PipelineAssumption DEF SlotInv, Slot, TypeOK, GroupsOK
<1> DEFINE s == Slot(c)
<1>2. \A o \in Conns : wlock[o] # c
  BY PipelineAssumption DEF LockInv
<1>3. \A o \in Conns : o # s => wlock'[o] = wlock[o]
  BY DEF TypeOK, GroupsOK
<1>4. wlock'[s] = c
  BY <1>1 DEF TypeOK, GroupsOK
<1>5. \A d \in Conns : d # c => reader'[d] = reader[d]
  BY DEF TypeOK, ReadersOK
<1>6. reader'[c] = p
  BY DEF TypeOK, ReadersOK
<1> HIDE DEF s
<1>7. \A o \in Conns : wlock'[o] \in Conns => /\ o \in made' /\ GroupOf[o] = GroupOf[wlock'[o]]
                                              /\ reader'[wlock'[o]] \in {"put", "delete"}
  BY <1>1, <1>2, <1>3, <1>4, <1>5, <1>6 DEF LockInv, s
<1>8. \A o, q \in Conns : wlock'[o] = wlock'[q] /\ wlock'[o] # Nobody => o = q
  BY <1>1, <1>2, <1>3, <1>4 DEF LockInv
<1>9. \A o \in Conns : wlock'[o] = Main => wlock[o] = Main
  BY <1>1, <1>3, <1>4
<1>10. main' = "send" => \E o \in Conns : wlock'[o] = Main
  <2>1. wlock[s] # Main
    BY PipelineAssumption, <1>1, <1>2 DEF s, LockInv
  <2> QED BY <2>1, <1>3 DEF LockInv
<1> QED BY <1>7, <1>8, <1>9, <1>10 DEF LockInv

LEMMA GiveBackLock ==
    ASSUME TypeOK, LockInv, NEW c \in Conns, NEW o \in Conns, NEW s \in SUBSET Conns,
           s \subseteq chans[o] \cup {c}, ChangeChannels(c, o, s),
           NEW p \in {"read", "forget"}, reader' = [reader EXCEPT ![c] = p],
           UNCHANGED <<rlock, worker, job, main, pend>>
    PROVE  LockInv'
<1>1. /\ wlock[o] = c /\ rlock[o] = {} /\ UNCHANGED made
      /\ chans' = [chans EXCEPT ![o] = s] /\ wlock' = [wlock EXCEPT ![o] = Nobody]
  BY DEF ChangeChannels
<1>2. /\ \A q \in Conns : q # o => wlock'[q] = wlock[q] /\ chans'[q] = chans[q]
      /\ wlock'[o] = Nobody /\ chans'[o] = s
      /\ \A d \in Conns : d # c => reader'[d] = reader[d]
  BY <1>1 DEF TypeOK, GroupsOK, ReadersOK
<1>3. Nobody \notin Conns /\ c # Nobody /\ c # Main /\ Nobody # Main
  BY PipelineAssumption
<1>4. o \in made /\ GroupOf[o] = GroupOf[c]
  BY <1>1 DEF LockInv
<1>5. \A q \in Conns : wlock[q] = c => q = o
  BY <1>1, <1>3 DEF LockInv
<1>6. \A q \in Conns : wlock'[q] \in Conns => /\ q \in made' /\ GroupOf[q] = GroupOf[wlock'[q]]
                                              /\ reader'[wlock'[q]] \in {"put", "delete"}
  BY <1>1, <1>2, <1>3, <1>5 DEF LockInv
<1>7. /\ \A q \in Conns : wlock'[q] = Main => q # o /\ wlock[q] = Main
      /\ \A q, r \in Conns : wlock'[q] = wlock'[r] /\ wlock'[q] # Nobody => q = r
  BY <1>2, <1>3 DEF LockInv
<1>8. \A q \in Conns : \A d \in chans'[q] : q \in made' /\ GroupOf[q] = GroupOf[d]
  BY <1>1, <1>2, <1>4 DEF LockInv
<1>9. \A q \in Conns : \A w \in rlock'[q] : worker'[w] = "send" /\ job'[w].cid \in chans'[q]
  BY <1>1, <1>2 DEF LockInv
<1>10. main' = "send" => \E q \in Conns : wlock'[q] = Main
  BY <1>1, <1>2, <1>3 DEF LockInv
<1>11. \A q \in Conns : main' = "send" /\ wlock'[q] = Main => pend' \subseteq chans'[q]
  BY <1>1, <1>2, <1>7 DEF LockInv
<1> QED BY <1>1, <1>6, <1>7, <1>8, <1>9, <1>10, <1>11 DEF LockInv

LEMMA ReaderLockInv ==
    ASSUME TypeOK, CommandInv, SlotInv, LockInv, NEW c \in Conns, Read(c) \/ Reader(c)
    PROVE  LockInv'
<1>0. UNCHANGED <<rlock, worker, job, main, pend>>
  BY DEF Read, Reader, ReaderFrame, stop
<1>1. CASE AppendBackChannel(c)
  <2>1. Slot(c) # Nobody
    BY <1>1 DEF SlotInv, AppendBackChannel, ReaderGoto
  <2> QED BY <1>0, <1>1, <2>1, TakeLock DEF AppendBackChannel, ReaderGoto
<1>2. CASE RemoveBackChannel(c) /\ Slot(c) # Nobody /\ c \in chans[Slot(c)]
  BY <1>0, <1>2, TakeLock DEF RemoveBackChannel, ReaderGoto
<1>3. CASE Put(c)
  <2>1. PICK o \in Conns : ChangeChannels(c, o, chans[o] \cup {c})
    BY <1>3 DEF Put
  <2>2. chans[o] \cup {c} \in SUBSET Conns
    BY DEF TypeOK, GroupsOK
  <2> QED BY <1>0, <1>3, <2>1, <2>2, GiveBackLock DEF Put, ReaderGoto
<1>4. CASE Delete(c)
  <2>1. PICK o \in Conns : ChangeChannels(c, o, chans[o] \ {c})
    BY <1>4 DEF Delete
  <2>2. chans[o] \ {c} \in SUBSET Conns
    BY DEF TypeOK, GroupsOK
  <2> QED BY <1>0, <1>4, <2>1, <2>2, GiveBackLock DEF Delete, ReaderGoto
<1>5. ASSUME ~AppendBackChannel(c), ~Put(c), ~Delete(c),
             ~(RemoveBackChannel(c) /\ Slot(c) # Nobody /\ c \in chans[Slot(c)])
      PROVE  LockInv'
  <2>1. UNCHANGED <<chans, wlock>> /\ made \subseteq made'
    BY <1>5 DEF Read, Reader, ReaderStep, ReadCommand, Processing, ProcessingClosed, StartWriter,
       CreateGroup, ReadError, RemoveBackChannel, RemoveConnection, ReaderClose, group
  <2>2. \A d \in Conns : reader[d] \in {"put", "delete"} => reader'[d] = reader[d]
    BY <1>5 DEF TypeOK, ReadersOK, Read, Reader, ReaderStep, ReaderGoto, ReadCommand, Processing,
       ProcessingClosed, StartWriter, CreateGroup, ReadError, RemoveBackChannel,
       RemoveConnection, ReaderClose
  <2> QED BY <1>0, <2>1, <2>2, LockFrame
<1> QED BY <1>1, <1>2, <1>3, <1>4, <1>5

LEMMA WorkerLockInv ==
    ASSUME TypeOK, LockInv, NEW w \in Workers, Worker(w)
    PROVE  LockInv'
<1>0. UNCHANGED <<reader, made, chans, wlock, main, pend>>
  BY DEF Worker, WorkerFrame, group, stop
<1>1. ASSUME \A q \in Conns : \A v \in rlock'[q] : worker'[v] = "send" /\ job'[v].cid \in chans[q],
             \A v \in Workers : worker'[v] = "send" => \E q \in Conns : v \in rlock'[q]
      PROVE  LockInv'
  BY <1>0, <1>1 DEF LockInv
<1>2. CASE SendLookup(w) /\ job[w].cid \in chans[Slot(job[w].cid)]
  <2>1. PICK o \in Conns : /\ job[w].cid \in chans[o] /\ UNCHANGED job
                           /\ rlock' = [rlock EXCEPT ![o] = @ \cup {w}]
                           /\ worker' = [worker EXCEPT ![w] = "send"]
    <3>1. job[w].cid \in Conns /\ Slot(job[w].cid) # Nobody
      BY <1>2 DEF TypeOK, WorkersOK, SendLookup, WorkerGoto, Instructions
    <3> QED BY <1>2, <3>1, SlotType DEF SendLookup, HoldLock, WorkerGoto
  <2> QED BY <1>1, <2>1 DEF LockInv, TypeOK, GroupsOK, WorkersOK
<1>3. CASE Send(w)
  <2>1. /\ rlock' = [q \in Conns |-> rlock[q] \ {w}] /\ UNCHANGED job
        /\ worker' = [worker EXCEPT ![w] = "idle"]
    BY <1>3 DEF Send, ReleaseLock, WorkerGoto
  <2> QED BY <1>1, <2>1 DEF LockInv, TypeOK, GroupsOK, WorkersOK
<1>4. ASSUME ~Send(w), ~(SendLookup(w) /\ job[w].cid \in chans[Slot(job[w].cid)])
      PROVE  LockInv'
  <2>1. /\ UNCHANGED rlock
        /\ \/ UNCHANGED <<worker, job>>
           \/ /\ worker[w] # "send"
              /\ \E p \in {"idle", "route", "done"} : worker' = [worker EXCEPT ![w] = p]
              /\ \A v \in Workers : v # w => job'[v] = job[v]
    BY <1>4 DEF TypeOK, WorkersOK, Worker, WorkerStep, WorkerStop, WorkerTake, WorkerTakeClosed,
                SendNil, SendLookup, SendClosed, WorkerGoto
  <2> QED BY <1>1, <2>1 DEF LockInv, TypeOK, GroupsOK, WorkersOK
<1> QED BY <1>2, <1>3, <1>4

LEMMA MainLockInv ==
    ASSUME TypeOK, SlotInv, LockInv, MainNext \/ (Signal /\ MainFrame)
    PROVE  LockInv'
<1>0. UNCHANGED <<reader, made, chans, rlock, worker, job>>
  BY DEF MainNext, MainFrame
<1>1. CASE \E g \in Groups : SendExitLock(g)
  <2>1. PICK g \in Groups : SendExitLock(g)
    BY <1>1
  <2>2. slot[g] \in Conns /\ wlock' = [wlock EXCEPT ![slot[g]] = Main]
    BY <2>1 DEF SendExitLock, TypeOK, GroupsOK
  <2>3. /\ \A o \in Conns : o # slot[g] => wlock'[o] = wlock[o]
        /\ wlock'[slot[g]] = Main /\ \A o \in Conns : wlock[o] # Main
    BY <2>1, <2>2 DEF SendExitLock, TypeOK, GroupsOK, LockInv
  <2>4. main' = "lock" /\ pend' = {}
    BY <2>1 DEF SendExitLock, LockInv
  <2> QED BY <1>0, <2>2, <2>3, <2>4, PipelineAssumption DEF LockInv
<1>2. CASE SendExitStart
  BY <1>0, <1>2, PipelineAssumption DEF SendExitStart, LockInv
<1>3. CASE SendExitUnlock
  <2>1. /\ wlock' = [o \in Conns |-> IF wlock[o] = Main THEN Nobody ELSE wlock[o]]
        /\ main' = "groups" /\ pend' = {}
    BY <1>3 DEF SendExitUnlock
  <2>2. \A o \in Conns : wlock'[o] # Main /\ (wlock'[o] # Nobody => wlock'[o] = wlock[o])
    BY <2>1, PipelineAssumption
  <2> QED BY <1>0, <2>1, <2>2, PipelineAssumption DEF LockInv
<1>4. CASE \E c \in Conns : SendExit(c)
  BY <1>0, <1>4 DEF SendExit, LockInv
<1>5. ASSUME ~SendExitStart, ~SendExitUnlock, ~\E g \in Groups : SendExitLock(g),
             ~\E c \in Conns : SendExit(c)
      PROVE  LockInv'
  <2>1. /\ UNCHANGED <<wlock, pend>>
        /\ \/ UNCHANGED main
           \/ main \notin {"lock", "send"} /\ main' \notin {"lock", "send"}
    BY <1>5 DEF MainNext, MainStep, Signal, StopSignals, StopTwice, CloseChannels, SkipNil,
                SendExitClosed, OutSignal, Exit
  <2> QED BY <1>0, <2>1 DEF LockInv
<1> QED BY <1>1, <1>2, <1>3, <1>4, <1>5

LEMMA LockInvStays ==
    ASSUME TypeOK, CommandInv, SlotInv, LockInv, [Next]_vars
    PROVE  LockInv'
<1>1. CASE Listener
  <2>1. \A d \in Conns : reader[d] \in {"put", "delete"} => reader'[d] = reader[d]
    BY <1>1 DEF TypeOK, ReadersOK, Listener, ListenerCheck, ListenerAccept, PeerBreak
  <2> QED BY <1>1, <2>1, LockFrame DEF Listener, group, stop
<1>2. ASSUME NEW c \in Conns, Writer(c) PROVE LockInv'
  BY <1>2, WriterStarted, LockFrame DEF group
<1>3. CASE UNCHANGED vars
  BY <1>3, LockFrame DEF vars, group, stop
<1> QED BY <1>1, <1>2, <1>3, ReaderLockInv, WorkerLockInv, MainLockInv DEF Next

LEMMA GroupLostStays ==
    ASSUME TypeOK, SlotInv, [Next]_vars, GroupLost
    PROVE  GroupLost'
<1>1. ASSUME NEW c \in Conns, CreateGroup(c) PROVE GroupLost'
  <2>1. PICK o \in made : slot[GroupOf[o]] # o
    BY DEF GroupLost
  <2>2. o # c /\ o \in made' /\ slot' = [slot EXCEPT ![GroupOf[c]] = c]
    BY <1>1 DEF SlotInv, CreateGroup, ReaderGoto
  <2> QED BY <2>1, <2>2, PipelineAssumption DEF GroupLost, TypeOK, GroupsOK
<1>2. CASE UNCHANGED <<slot, made>>
  BY <1>2 DEF GroupLost
<1> QED BY <1>1, <1>2
    DEF Next, Listener, Read, Reader, ReaderStep, ReadCommand, Processing, ProcessingClosed,
        StartWriter, AppendBackChannel, Put, ChangeChannels, ReadError, RemoveBackChannel, Delete,
        RemoveConnection, ReaderClose, Writer, WriterFrame, Worker, WorkerFrame, MainNext,
        MainFrame, vars, group

\* With no group lost, the group of an index is the only one of that index.
LEMMA OneGroupPerIndex ==
    ASSUME TypeOK, ~GroupLost, NEW c \in Conns, NEW o \in made, GroupOf[o] = GroupOf[c]
    PROVE  o = Slot(c)
  BY DEF GroupLost, Slot

LEMMA RegistryInvStays ==
    ASSUME TypeOK, CommandInv, SlotInv, LockInv, RegistryInv, [Next]_vars
    PROVE  RegistryInv'
<1> SUFFICES ASSUME ~GroupLost'
             PROVE  /\ \A d \in Conns : Registered(d)' => d \in chans'[Slot(d)']
                    /\ \A d \in Conns : Removed(d)' => \A o \in Conns : d \notin chans'[o]
  BY DEF RegistryInv
<1>0. /\ ~GroupLost
      /\ \A d \in Conns : Registered(d) => d \in chans[Slot(d)]
      /\ \A d \in Conns : Removed(d) => \A o \in Conns : d \notin chans[o]
  BY GroupLostStays DEF RegistryInv
<1> DEFINE Goal == /\ \A d \in Conns : Registered(d)' => d \in chans'[Slot(d)']
                   /\ \A d \in Conns : Removed(d)' => \A o \in Conns : d \notin chans'[o]
<1>1. ASSUME UNCHANGED <<slot, chans>>,
             \A d \in Conns : Registered(d)' => Registered(d),
             \A d \in Conns : Removed(d)' => Removed(d) \/ \A o \in Conns : d \notin chans[o]
      PROVE  Goal
  BY <1>0, <1>1 DEF Slot
<1>2. ASSUME NEW c \in Conns, CreateGroup(c), ReaderFrame PROVE Goal
  <2>1. /\ reader[c] = "create" /\ reader' = [reader EXCEPT ![c] = "append"]
        /\ UNCHANGED <<writer, chans>>
        /\ slot' = [slot EXCEPT ![GroupOf[c]] = c] /\ made' = made \cup {c}
    BY <1>2 DEF CreateGroup, ReaderGoto
  <2>2. Slot(c) = Nobody
    <3>1. ASSUME Slot(c) # Nobody PROVE FALSE
      <4>1. Slot(c) \in made /\ GroupOf[Slot(c)] = GroupOf[c] /\ Slot(c) # c
        BY <2>1, <3>1, PipelineAssumption DEF SlotInv, Slot
      <4>2. slot'[GroupOf[c]] = c
        BY <2>1, PipelineAssumption DEF TypeOK, GroupsOK
      <4> QED BY <2>1, <4>1, <4>2 DEF GroupLost
    <3> QED BY <3>1
  <2>3. \A d \in Conns : (Registered(d)' => Registered(d)) /\ (Removed(d)' => Removed(d))
    BY <2>1 DEF TypeOK, ReadersOK, Registered, Appended, Removed
  <2>4. \A d \in Conns : Registered(d) => Slot(d)' = Slot(d)
    BY <2>1, <2>2, PipelineAssumption DEF SlotInv, Slot, TypeOK, GroupsOK
  <2> QED BY <1>0, <2>1, <2>3, <2>4
<1>3. ASSUME NEW c \in Conns, Put(c), ReaderFrame PROVE Goal
  <2>1. PICK o \in Conns : ChangeChannels(c, o, chans[o] \cup {c})
    BY <1>3 DEF Put
  <2>2. /\ wlock[o] = c /\ chans' = [chans EXCEPT ![o] = @ \cup {c}] /\ UNCHANGED <<slot, writer>>
        /\ reader' = [reader EXCEPT ![c] = "read"]
    BY <1>3, <2>1 DEF ChangeChannels, Put, ReaderGoto
  <2>3. o = Slot(c)
    BY <1>0, <2>2, OneGroupPerIndex DEF LockInv
  <2>4. \A d \in Conns : Registered(d)' => d \in chans'[Slot(d)']
    <3>1. \A d \in Conns : d # c /\ Registered(d)' => Registered(d)
      BY <2>2 DEF TypeOK, ReadersOK, Registered, Appended, Removed
    <3>2. \A d \in Conns : Slot(d)' = Slot(d)
      BY <2>2 DEF Slot
    <3>3. c \in chans'[o] /\ \A q \in Conns : chans[q] \subseteq chans'[q]
      BY <2>2 DEF TypeOK, GroupsOK
    <3>4. \A d \in Conns : Registered(d) => Slot(d) \in Conns
      BY SlotType DEF SlotInv
    <3> QED BY <1>0, <2>3, <3>1, <3>2, <3>3, <3>4
  <2>5. \A d \in Conns : Removed(d)' => d # c /\ Removed(d)
    BY <2>2 DEF TypeOK, ReadersOK, Removed
  <2> QED BY <1>0, <2>2, <2>4, <2>5 DEF TypeOK, GroupsOK
<1>4. ASSUME NEW c \in Conns, Delete(c), ReaderFrame PROVE Goal
  <2>1. PICK o \in Conns : ChangeChannels(c, o, chans[o] \ {c})
    BY <1>4 DEF Delete
  <2>2. /\ wlock[o] = c /\ chans' = [chans EXCEPT ![o] = @ \ {c}] /\ UNCHANGED <<slot, writer>>
        /\ reader' = [reader EXCEPT ![c] = "forget"]
    BY <1>4, <2>1 DEF ChangeChannels, Delete, ReaderGoto
  <2>3. o = Slot(c)
    BY <1>0, <2>2, OneGroupPerIndex DEF LockInv
  <2>4. \A d \in Conns : Registered(d)' => d # c /\ Registered(d)
    BY <2>2 DEF TypeOK, ReadersOK, Registered, Appended, Removed
  <2>5. \A q \in Conns : c \in chans[q] => q = o
    BY <1>0, <2>3, OneGroupPerIndex DEF LockInv
  <2>6. \A d \in Conns : Removed(d)' => d = c \/ Removed(d)
    BY <2>2 DEF TypeOK, ReadersOK, Removed
  <2>7. \A q \in Conns : chans'[q] = IF q = o THEN chans[q] \ {c} ELSE chans[q]
    BY <2>2 DEF TypeOK, GroupsOK
  <2>8. \A d \in Conns : Registered(d) => Slot(d) \in Conns
    BY SlotType DEF SlotInv
  <2> QED BY <1>0, <2>2, <2>4, <2>5, <2>6, <2>7, <2>8 DEF Slot
<1>5. ASSUME NEW c \in Conns, RemoveBackChannel(c), ReaderFrame PROVE Goal
  <2>1. /\ UNCHANGED <<slot, chans, writer>> /\ reader[c] = "remove"
        /\ \E p \in {"delete", "forget"} : reader' = [reader EXCEPT ![c] = p]
        /\ reader'[c] = "forget" => Slot(c) = Nobody \/ c \notin chans[Slot(c)]
    BY <1>5 DEF RemoveBackChannel, ReaderGoto, TypeOK, ReadersOK
  <2>2. \A d \in Conns : Registered(d)' => Registered(d)
    BY <2>1 DEF TypeOK, ReadersOK, Registered, Appended, Removed
  <2>3. \A q \in Conns : c \in chans[q] => q = Slot(c)
    BY <1>0, OneGroupPerIndex DEF LockInv
  <2>4. \A d \in Conns : Removed(d)' => Removed(d) \/ (d = c /\ reader'[c] = "forget")
    BY <2>1 DEF TypeOK, ReadersOK, Removed
  <2> QED BY <1>1, <2>1, <2>2, <2>3, <2>4, PipelineAssumption
<1>6. ASSUME NEW c \in Conns, Read(c) \/ Reader(c), ~CreateGroup(c), ~Put(c), ~Delete(c),
             ~RemoveBackChannel(c)
      PROVE  Goal
  <2>1. UNCHANGED <<slot, chans>>
    BY <1>6 DEF Read, Reader, ReaderStep, ReadCommand, Processing, ProcessingClosed, StartWriter,
       AppendBackChannel, ReadError, RemoveConnection, ReaderClose, group
  <2>2. /\ \A d \in Conns : Registered(d)' => Registered(d)
        /\ \A d \in Conns : Removed(d)' => Removed(d)
    BY <1>6 DEF TypeOK, ReadersOK, WritersOK, CommandInv, Registered, Appended, Removed, Read, Reader,
       ReaderStep, ReaderGoto, ReadCommand, Processing, ProcessingClosed, StartWriter,
       AppendBackChannel, ReadError, RemoveConnection, ReaderClose
  <2> QED BY <1>1, <2>1, <2>2
<1>7. CASE Listener
  <2>1. \/ UNCHANGED reader
        \/ \E c \in Conns : reader[c] = "none" /\ reader' = [reader EXCEPT ![c] = "read"]
    BY <1>7 DEF Listener, ListenerCheck, ListenerAccept, PeerBreak
  <2>2. UNCHANGED <<writer, slot, chans>>
    BY <1>7 DEF Listener, group
  <2>3. \A d \in Conns : (Registered(d)' => Registered(d)) /\ (Removed(d)' => Removed(d))
    BY <2>1, <2>2 DEF TypeOK, ReadersOK, CommandInv, Registered, Appended, Removed
  <2> QED BY <1>1, <2>2, <2>3
<1>8. ASSUME NEW c \in Conns, Writer(c) PROVE Goal
  BY <1>1, <1>8, WriterStarted DEF Registered, Appended, Removed, group
<1>9. CASE UNCHANGED <<reader, writer, slot, chans>>
  BY <1>1, <1>9 DEF Registered, Appended, Removed
<1> QED BY <1>2, <1>3, <1>4, <1>5, <1>6, <1>7, <1>8, <1>9
        DEF Next, Read, Reader, Worker, WorkerFrame, MainNext, MainFrame, vars, group

\* An answer is dropped only by a SendLookup that does not find its connection.
LEMMA OnlyFirstDroppedStays ==
    ASSUME TypeOK, CommandInv, SlotInv, RegistryInv, OnlyFirstDropped, [Next]_vars
    PROVE  OnlyFirstDropped'
<1> SUFFICES ASSUME ~GroupLost', NEW d \in dropped', d[2] > 1
             PROVE  Removed(d[1])'
  BY DEF OnlyFirstDropped
<1>0. ~GroupLost /\ \A e \in Conns : Registered(e) => e \in chans[Slot(e)]
  BY GroupLostStays DEF RegistryInv
<1>1. CASE d \in dropped
  <2>1. d[1] \in Conns /\ Removed(d[1])
    BY <1>0, <1>1 DEF OnlyFirstDropped, TypeOK, HistoryOK
  <2> QED BY <2>1, RemovedStays
<1>2. ASSUME NEW w \in Workers, SendLookup(w), WorkerFrame, d \notin dropped PROVE Removed(d[1])'
  <2>1. job[w].cid \in Conns /\ d = <<job[w].cid, job[w].id>> /\ job[w].cid \notin chans[Slot(job[w].cid)]
    BY <1>2 DEF SendLookup, WorkerGoto, TypeOK, WorkersOK, Instructions
  <2>2. Appended(job[w].cid)
    BY <2>1 DEF CommandInv
  <2> QED BY <1>0, <2>1, <2>2, RemovedStays DEF Registered
<1>3. CASE UNCHANGED dropped
  BY <1>1, <1>3
<1> QED BY <1>1, <1>2, <1>3
    DEF Next, Listener, Read, Reader, ReaderFrame, Writer, WriterFrame, Worker, WorkerStep,
        WorkerStop, WorkerTake, WorkerTakeClosed, SendNil, Send, SendClosed, MainNext, MainFrame,
        vars, hist

LEMMA InitPipelineInv == Init => PipelineInv /\ OnlyFirstDropped
<1> SUFFICES ASSUME Init PROVE PipelineInv /\ OnlyFirstDropped
  OBVIOUS
<1>1. CommandInv
  BY DEF Init, CommandInv, Appended, NoInstruction
<1>2. SlotInv
  BY PipelineAssumption DEF Init, SlotInv, Slot, Registered, Appended
<1>3. LockInv
  BY PipelineAssumption DEF Init, LockInv
<1>4. RegistryInv /\ OnlyFirstDropped
  BY DEF Init, RegistryInv, Registered, Appended, Removed, OnlyFirstDropped
<1> QED BY <1>1, <1>2, <1>3, <1>4 DEF PipelineInv

\* The inductive invariant: what holds of commands, groups, locks and maps.
THEOREM PipelineInvariant == Spec => []PipelineInv
<1>1. TypeOK /\ PipelineInv /\ [Next]_vars => PipelineInv'
  BY CommandInvStays, SlotInvStays, LockInvStays, RegistryInvStays DEF PipelineInv
<1> QED BY InitPipelineInv, TypeCorrect, <1>1, PTL DEF Spec

\* No answer but the first of a connection is dropped before the connection
\* removed its own channel, if no group was lost.
THEOREM LaterNotDropped == Spec => []OnlyFirstDropped
<1>1. TypeOK /\ PipelineInv /\ OnlyFirstDropped /\ [Next]_vars => OnlyFirstDropped'
  BY OnlyFirstDroppedStays DEF PipelineInv
<1> QED BY InitPipelineInv, TypeCorrect, PipelineInvariant, <1>1, PTL DEF Spec

\* After RemoveBackChannel nobody holds, or can get, the channel of a connection,
\* if no group was lost.
THEOREM RemoveIsBarrier == Spec => []RemovedUnreachable
<1>1. PipelineInv => RemovedUnreachable
  <2> SUFFICES ASSUME PipelineInv, ~GroupLost, NEW c \in Conns, Removed(c)
               PROVE  /\ \A o \in Conns : c \notin chans[o]
                      /\ \A w \in Workers : worker[w] = "send" => job[w].cid # c
                      /\ c \notin pend
    BY DEF RemovedUnreachable
  <2>1. \A o \in Conns : c \notin chans[o]
    BY DEF PipelineInv, RegistryInv
  <2>2. \A w \in Workers : worker[w] = "send" => job[w].cid # c
    BY <2>1 DEF PipelineInv, LockInv
  <2>3. c \notin pend
    BY <2>1 DEF PipelineInv, LockInv
  <2> QED BY <2>1, <2>2, <2>3
<1> QED BY PipelineInvariant, <1>1, PTL
-----------------------------------------------------------------------------
\* Once an exit is on its way to a writer it stays so, until the writer ended.

LEMMA ExitStaysInWriter ==
    ASSUME TypeOK, NEW c \in Conns, Writer(c), ExitOnItsWay(c) PROVE ExitOnItsWay(c)'
<1>1. CASE Receive(c) /\ WriterFrame
  <2> DEFINE s == back[c]
             t == Tail(s)
  <2>1. s \in Seq(Outputs) /\ s # <<>> /\ back'[c] = t
    BY <1>1 DEF TypeOK, QueuesOK, Receive
  <2>2. /\ Len(s) \in Nat /\ s[1] = Head(s) /\ Len(t) = Len(s) - 1
        /\ \A i \in 1..Len(t) : t[i] = s[i + 1]
    BY <2>1, HeadTailProperties, LenProperties
  <2>3. writer[c] = "recv" /\ writer'[c] = "write" /\ cur'[c] = s[1]
    BY <1>1, <2>2 DEF TypeOK, WritersOK, Receive, WriterGoto
  <2> HIDE DEF s, t
  <2>4. PICK i \in 1..Len(s) : NeedExit(s[i])
    BY <2>3 DEF ExitOnItsWay, s
  <2>5. CASE i = 1
    BY <2>3, <2>4, <2>5 DEF ExitOnItsWay, NeedExit
  <2>6. CASE i # 1
    <3>1. i - 1 \in 1..Len(t) /\ (i - 1) + 1 = i
      BY <2>2, <2>6
    <3>2. t[i - 1] = s[(i - 1) + 1]
      BY <2>2, <3>1
    <3> QED BY <2>1, <2>4, <3>1, <3>2 DEF ExitOnItsWay, NeedExit
  <2> QED BY <2>5, <2>6
<1>2. CASE (Write(c) \/ WriteError(c)) /\ WriterFrame
  BY <1>2 DEF TypeOK, WritersOK, Write, WriteError, WriterGoto, ExitOnItsWay, NeedExit
<1>3. CASE (UpdateState(c) \/ UpdateStateNil(c) \/ CloseSocket(c) \/ CloseBack(c)) /\ WriterFrame
  BY <1>3 DEF TypeOK, WritersOK, UpdateState, UpdateStateNil, CloseSocket, CloseBack, WriterGoto, ExitOnItsWay,
              NeedExit
<1> QED BY <1>1, <1>2, <1>3 DEF Writer, WriterStep

\* A send to a back channel leaves what is in it where it is.
LEMMA ExitStaysInBack ==
    ASSUME TypeOK, NEW c \in Conns, NEW d \in Conns, NEW e \in Outputs, ExitOnItsWay(c),
           back' = [back EXCEPT ![d] = Append(@, e)], UNCHANGED <<writer, cur>>
    PROVE  ExitOnItsWay(c)'
<1> DEFINE s == back[d]
           t == Append(s, e)
<1>1. s \in Seq(Outputs) /\ back'[d] = t /\ (c # d => back'[c] = back[c])
  BY DEF TypeOK, QueuesOK
<1>2. Len(t) = Len(s) + 1 /\ Len(s) \in Nat /\ \A i \in 1..Len(s) : t[i] = s[i]
  BY <1>1, AppendProperties, LenProperties
<1> HIDE DEF t
<1>3. CASE c = d
  <2>1. (\E i \in 1..Len(s) : NeedExit(s[i])) => \E i \in 1..Len(t) : NeedExit(t[i])
    BY <1>2
  <2> QED BY <1>1, <1>3, <2>1 DEF ExitOnItsWay, NeedExit
<1>4. CASE c # d
  BY <1>1, <1>4 DEF ExitOnItsWay, NeedExit
<1> QED BY <1>3, <1>4

LEMMA ExitStays ==
    ASSUME TypeOK, CommandInv, [Next]_vars, NEW c \in Conns, ExitOnItsWay(c)
    PROVE  ExitOnItsWay(c)'
<1>1. CASE UNCHANGED <<back, writer, cur>>
  BY <1>1 DEF ExitOnItsWay, NeedExit
<1>2. ASSUME NEW d \in Conns, Writer(d) PROVE ExitOnItsWay(c)'
  <2>1. CASE d = c
    BY <1>2, <2>1, ExitStaysInWriter
  <2>2. CASE d # c
    <3>1. UNCHANGED <<back[c], writer[c], cur[c]>>
      BY <1>2, <2>2 DEF Writer, WriterStep, Receive, Write, WriteError, UpdateState,
         UpdateStateNil, CloseSocket, CloseBack, WriterGoto, TypeOK, WritersOK, QueuesOK
    <3> QED BY <3>1 DEF ExitOnItsWay, NeedExit
  <2> QED BY <2>1, <2>2
<1>3. ASSUME NEW d \in Conns, Reader(d) PROVE ExitOnItsWay(c)'
  <2>1. back' = back /\ cur' = cur /\ (writer[c] # "none" => writer'[c] = writer[c])
    <3>1. CASE StartWriter(d)
      <4>1. writer[d] = "none"
        BY <3>1 DEF CommandInv, StartWriter, ReaderGoto
      <4> QED BY <1>3, <3>1, <4>1 DEF TypeOK, WritersOK, Reader, ReaderFrame, StartWriter
    <3>2. CASE ~StartWriter(d)
      BY <1>3, <3>2 DEF Reader, ReaderStep, ReaderFrame, Processing, ProcessingClosed, CreateGroup,
         AppendBackChannel, Put, ChangeChannels, ReadError, RemoveBackChannel, Delete,
         RemoveConnection, ReaderClose
    <3> QED BY <3>1, <3>2
  <2> QED BY <2>1 DEF ExitOnItsWay, NeedExit
<1>4. ASSUME NEW w \in Workers, Send(w), WorkerFrame PROVE ExitOnItsWay(c)'
  <2>1. job[w] \in Outputs /\ job[w].cid \in Conns
    BY <1>4 DEF TypeOK, WorkersOK, Send, WorkerGoto, Outputs, Instructions
  <2> QED BY <1>4, <2>1, ExitStaysInBack DEF Send, WorkerFrame
<1>5. ASSUME NEW d \in Conns, SendExit(d), MainFrame PROVE ExitOnItsWay(c)'
  <2>1. ExitInstruction \in Outputs
    BY DEF Outputs
  <2> QED BY <1>5, <2>1, ExitStaysInBack DEF SendExit, MainFrame
<1>6. CASE Listener
  BY <1>1, <1>6 DEF Listener
<1>7. ASSUME NEW d \in Conns, Read(d) PROVE ExitOnItsWay(c)'
  BY <1>1, <1>7 DEF Read, ReadCommand, ReaderFrame
<1>8. ASSUME NEW w \in Workers, Worker(w), ~Send(w) PROVE ExitOnItsWay(c)'
  BY <1>1, <1>8 DEF Worker, WorkerStep, WorkerFrame, WorkerStop, WorkerTake, WorkerTakeClosed,
     SendNil, SendLookup, SendClosed
<1>9. ASSUME MainNext \/ (Signal /\ MainFrame), ~\E d \in Conns : SendExit(d)
      PROVE  ExitOnItsWay(c)'
  BY <1>1, <1>9 DEF MainNext, MainStep, MainFrame, Signal, StopSignals, StopTwice, CloseChannels,
     SkipNil, SendExitLock, SendExitStart, SendExitClosed, SendExitUnlock, OutSignal, Exit
<1>10. CASE UNCHANGED vars
  BY <1>1, <1>10 DEF vars
<1> QED BY <1>2, <1>3, <1>4, <1>5, <1>6, <1>7, <1>8, <1>9, <1>10
        DEF Next, Worker, MainNext

\* While SendExit has the lock of a group, each of its channels has had its exit or
\* is still to get it.
ExitSent ==
    main = "send" => \A o \in Conns : wlock[o] = Main =>
        \A c \in chans[o] : c \in pend \/ ExitOnItsWay(c)

\* The lock of a group that SendExit has: nobody else takes it or changes the map.
LEMMA MainKeepsLock ==
    ASSUME TypeOK, [Next]_vars, main' = "send", NEW o \in Conns, wlock'[o] = Main
    PROVE  wlock[o] = Main /\ chans'[o] = chans[o]
<1>1. ASSUME NEW c \in Conns, NEW q \in Conns, NEW s, ChangeChannels(c, q, s)
      PROVE  wlock[o] = Main /\ chans'[o] = chans[o]
  <2>1. Main # Nobody
    BY PipelineAssumption
  <2>2. q # o
    BY <1>1, <2>1 DEF ChangeChannels, TypeOK, GroupsOK
  <2> QED BY <1>1, <2>2 DEF ChangeChannels, TypeOK, GroupsOK
<1>2. ASSUME NEW c \in Conns, AppendBackChannel(c) \/ RemoveBackChannel(c)
      PROVE  wlock[o] = Main /\ chans'[o] = chans[o]
  <2>1. c # Main
    BY PipelineAssumption
  <2> QED BY <1>2, <2>1 DEF AppendBackChannel, RemoveBackChannel, TypeOK, GroupsOK
<1>3. ASSUME NEW c \in Conns, Reader(c) PROVE wlock[o] = Main /\ chans'[o] = chans[o]
  <2>1. CASE Put(c) \/ Delete(c)
    BY <1>1, <2>1 DEF Put, Delete
  <2>2. CASE ~Put(c) /\ ~Delete(c)
    BY <1>2, <1>3, <2>2 DEF Reader, ReaderStep, Processing, ProcessingClosed, StartWriter,
       CreateGroup, ReadError, RemoveConnection, ReaderClose, group
  <2> QED BY <2>1, <2>2
<1>4. CASE MainNext
  <2>1. UNCHANGED chans /\ UNCHANGED wlock
    BY <1>4 DEF MainNext, MainStep, MainFrame, StopSignals, StopTwice, CloseChannels, SkipNil,
       SendExitLock, SendExitStart, SendExit, SendExitClosed, SendExitUnlock, OutSignal, Exit
  <2> QED BY <2>1
<1>5. CASE UNCHANGED <<wlock, chans>>
  BY <1>5
<1> QED BY <1>3, <1>4, <1>5
        DEF Next, Listener, Read, ReadCommand, Worker, WorkerFrame, Writer, WriterFrame, Signal,
            MainFrame, vars, group

LEMMA ExitSentStays ==
    ASSUME TypeOK, CommandInv, LockInv, ExitSent, [Next]_vars PROVE ExitSent'
<1> SUFFICES ASSUME main' = "send", NEW o \in Conns, wlock'[o] = Main, NEW c \in chans'[o]
             PROVE  c \in pend' \/ ExitOnItsWay(c)'
  BY DEF ExitSent
<1>1. wlock[o] = Main /\ c \in chans[o]
  BY MainKeepsLock
<1>2. c \in Conns
  BY <1>1 DEF TypeOK, GroupsOK
<1>3. CASE SendExitStart
  <2>1. PICK q \in Conns : wlock[q] = Main /\ pend' = chans[q]
    BY <1>3 DEF SendExitStart
  <2>2. q = o
    BY <1>1, <2>1, PipelineAssumption DEF LockInv
  <2> QED BY <1>1, <2>1, <2>2
<1>4. ASSUME NEW d \in Conns, SendExit(d) PROVE c \in pend' \/ ExitOnItsWay(c)'
  <2>1. main = "send" /\ pend' = pend \ {d}
    BY <1>4 DEF SendExit
  <2>2. CASE c \in pend /\ c = d
    <3>1. back'[c] = Append(back[c], ExitInstruction) /\ back[c] \in Seq(Outputs)
      BY <1>4, <2>2 DEF SendExit, TypeOK, QueuesOK
    <3>2. ExitInstruction \in Outputs /\ NeedExit(ExitInstruction)
      BY DEF Outputs, ExitInstruction, NeedExit
    <3>3. /\ Len(back'[c]) = Len(back[c]) + 1 /\ Len(back[c]) \in Nat
          /\ back'[c][Len(back[c]) + 1] = ExitInstruction
      BY <3>1, <3>2, AppendProperties, LenProperties
    <3>4. Len(back[c]) + 1 \in 1..Len(back'[c])
      BY <3>3
    <3> QED BY <3>2, <3>3, <3>4 DEF ExitOnItsWay, NeedExit
  <2>3. CASE c \in pend /\ c # d
    BY <2>1, <2>3
  <2>4. CASE c \notin pend
    BY <1>1, <1>2, <2>1, <2>4, ExitStays DEF ExitSent
  <2> QED BY <2>2, <2>3, <2>4
<1>5. ASSUME ~SendExitStart, ~\E d \in Conns : SendExit(d)
      PROVE  c \in pend' \/ ExitOnItsWay(c)'
  <2>1. main = "send" /\ pend' = pend
    BY <1>5 DEF Next, Listener, Read, ReaderFrame, Reader, Worker, WorkerFrame, Writer, WriterFrame,
       MainNext, MainStep, Signal, StopSignals, StopTwice, CloseChannels, SkipNil, SendExitLock,
       SendExitClosed, SendExitUnlock, OutSignal, Exit, vars, stop
  <2> QED BY <1>1, <1>2, <2>1, ExitStays DEF ExitSent
<1> QED BY <1>3, <1>4, <1>5

\* When SendExit unlocks a group, the exit has reached every connection of it.
THEOREM GroupNotified == Spec => StopNotifies
<1>1. Init => ExitSent
  BY DEF Init, ExitSent
<1>2. TypeOK /\ PipelineInv /\ ExitSent /\ [Next]_vars => ExitSent'
  BY ExitSentStays DEF PipelineInv
<1>3. TypeOK /\ PipelineInv /\ ExitSent /\ [Next]_vars =>
          [\A o \in Conns :
              main = "send" /\ wlock[o] = Main /\ main' = "groups" =>
                  \A c \in chans'[o] : ExitOnItsWay(c)']_vars
  <2> SUFFICES ASSUME TypeOK, PipelineInv, ExitSent, [Next]_vars, NEW o \in Conns,
                      main = "send", wlock[o] = Main, main' = "groups", NEW c \in chans'[o]
               PROVE  ExitOnItsWay(c)'
    OBVIOUS
  <2>1. pend = {} /\ chans' = chans
    BY DEF Next, Listener, Read, ReaderFrame, Reader, Worker, WorkerFrame, Writer, WriterFrame,
       MainNext, MainStep, MainFrame, Signal, StopSignals, StopTwice, CloseChannels, SkipNil,
       SendExitLock, SendExitStart, SendExit, SendExitClosed, SendExitUnlock, OutSignal, Exit,
       vars, stop
  <2>2. c \in Conns /\ ExitOnItsWay(c)
    BY <2>1 DEF ExitSent, TypeOK, GroupsOK
  <2> QED BY <2>2, ExitStays DEF PipelineInv
<1> QED BY <1>1, <1>2, <1>3, TypeCorrect, PipelineInvariant, PTL DEF Spec, StopNotifies
=============================================================================
