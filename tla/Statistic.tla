------------------------------ MODULE Statistic ------------------------------
(***************************************************************************)
(* statistic.Statistic: goroutines that count with SendMsg, the goroutine  *)
(* of statProcessing that keeps the items, and the one that calls Close.   *)
(* A message is the value it adds to the item it names.                    *)
(***************************************************************************)
EXTENDS Integers, Sequences, FiniteSets

CONSTANTS
    Senders,        \* goroutines that call SendMsg
    Codes,          \* items
    Values,         \* values sent, 1 and -1 from AddOneMsg and DelOneMsg
    StatBufferSize, \* capacity of messages
    Silent,         \* no statistics wanted: SendMsg and add do nothing
    MaxMsgs         \* bound: calls of SendMsg of each sender

ASSUME StatAssumption ==
    /\ IsFiniteSet(Senders)
    /\ Codes # {} /\ Values # {} /\ Values \subseteq Int
    /\ StatBufferSize \in Nat \ {0} /\ Silent \in BOOLEAN /\ MaxMsgs \in Nat

VARIABLES
    active,
    messages, closed, \* the channel, and whether it is closed
    closeChan,        \* "empty", "full" or "closed"
    readers,          \* senders that hold the read lock of activeChangeLock
    writing,          \* stop() called Lock(): new readers wait
    sender,           \* place of each sender: "idle", "check" or "send"
    msg,              \* what it sends
    calls,            \* its calls of SendMsg
    closer,           \* place of Close: "idle", "put" or "done"
    loop,             \* place of statProcessing
    items, msgCount,
    accepted,         \* history: messages put into the channel, by code and value
    halt              \* cause of a panic, "no" without one

chan == <<messages, closed>>
lock == <<readers, writing>>
client == <<sender, msg, calls>>
data == <<items, msgCount>>
vars == <<active, chan, closeChan, lock, client, closer, loop, data, accepted, halt>>

Messages == [code : Codes, value : Values]

Init ==
    /\ active = TRUE
    /\ messages = <<>> /\ closed = FALSE /\ closeChan = "empty"
    /\ readers = {} /\ writing = FALSE
    /\ sender = [s \in Senders |-> "idle"]
    /\ msg \in [Senders -> {CHOOSE m \in Messages : TRUE}]
    /\ calls = [s \in Senders |-> 0]
    /\ closer = "idle" /\ loop = "select"
    /\ items = [c \in Codes |-> 0] /\ msgCount = 0
    /\ accepted = [c \in Codes |-> 0]
    /\ halt = "no"

-----------------------------------------------------------------------------
\* SendMsg

RLock(s) == readers \cup {s}
MutRUnlock(s) == readers \* a return without the deferred unlock
RUnlock(s) == readers \ {s}

\* RLock waits for a writer that holds the lock or waits for it.
SendMsg(s, m) ==
    /\ sender[s] = "idle" /\ calls[s] < MaxMsgs
    /\ ~writing
    /\ sender' = [sender EXCEPT ![s] = "check"]
    /\ msg' = [msg EXCEPT ![s] = m]
    /\ calls' = [calls EXCEPT ![s] = @ + 1]
    /\ readers' = RLock(s)
    /\ UNCHANGED <<chan, writing, accepted, halt>>

Check(s) ==
    /\ sender[s] = "check"
    /\ IF ~Silent /\ active
       THEN sender' = [sender EXCEPT ![s] = "send"] /\ UNCHANGED readers
       ELSE sender' = [sender EXCEPT ![s] = "idle"] /\ readers' = RUnlock(s)
    /\ UNCHANGED <<chan, writing, msg, calls, accepted, halt>>

MutPush(s) == \* a channel without a capacity
    /\ sender[s] = "send" /\ ~closed
    /\ messages' = Append(messages, msg[s])
    /\ accepted' = [accepted EXCEPT ![msg[s].code] = @ + msg[s].value]
    /\ sender' = [sender EXCEPT ![s] = "idle"]
    /\ readers' = RUnlock(s)
    /\ UNCHANGED <<closed, writing, msg, calls, halt>>

Push(s) ==
    /\ sender[s] = "send" /\ ~closed
    /\ Len(messages) < StatBufferSize
    /\ messages' = Append(messages, msg[s])
    /\ accepted' = [accepted EXCEPT ![msg[s].code] = @ + msg[s].value]
    /\ sender' = [sender EXCEPT ![s] = "idle"]
    /\ readers' = RUnlock(s)
    /\ UNCHANGED <<closed, writing, msg, calls, halt>>

PushClosed(s) ==
    /\ sender[s] = "send" /\ closed
    /\ halt' = "send on closed messages"
    /\ UNCHANGED <<chan, lock, client, accepted>>

Sender(s) ==
    /\ halt = "no"
    /\ (\E m \in Messages : SendMsg(s, m)) \/ Check(s) \/ Push(s) \/ PushClosed(s)
    /\ UNCHANGED <<active, closeChan, closer, loop, data>>

-----------------------------------------------------------------------------
\* Close: active is read without the lock.
Close ==
    /\ halt = "no"
    /\ \/ /\ closer = "idle"
          /\ closer' = IF active THEN "put" ELSE "done"
          /\ UNCHANGED closeChan
       \/ /\ closer = "put" /\ closeChan = "empty"
          /\ closer' = "done" /\ closeChan' = "full"
    /\ UNCHANGED <<active, chan, lock, client, loop, data, accepted, halt>>

-----------------------------------------------------------------------------
\* statProcessing: select between the messages and the close.  A tick of its timer
\* prints the items, after calc handlers that the server has none of.

\* add: the items of a Silent statistic stay as they are.
MutAdd(m) == [items EXCEPT ![m.code] = m.value] \* for a known code as for a new one
Add(m) == [items EXCEPT ![m.code] = @ + m.value]

MutTakeMsg == \* the last message stays
    /\ loop = "select" /\ Len(messages) > 1
    /\ messages' = Tail(messages)
    /\ IF Silent THEN UNCHANGED <<items, msgCount>>
       ELSE items' = Add(Head(messages)) /\ msgCount' = msgCount + 1
    /\ UNCHANGED <<active, closed, closeChan, writing, loop>>

TakeMsg ==
    /\ loop = "select" /\ messages # <<>>
    /\ messages' = Tail(messages)
    /\ IF Silent THEN UNCHANGED <<items, msgCount>>
       ELSE items' = Add(Head(messages)) /\ msgCount' = msgCount + 1
    /\ UNCHANGED <<active, closed, closeChan, writing, loop>>

\* stop: Lock() ...
MutTakeClose == \* stop without the lock
    /\ loop = "select" /\ closeChan = "full"
    /\ closeChan' = "empty" /\ active' = FALSE
    /\ loop' = "close"
    /\ UNCHANGED <<chan, writing, data>>

TakeClose ==
    /\ loop = "select" /\ closeChan = "full"
    /\ closeChan' = "empty" /\ writing' = TRUE
    /\ loop' = "stop"
    /\ UNCHANGED <<active, chan, data>>

\* ... that waits until the readers are out.  The loop ends with active FALSE.
Stop ==
    /\ loop = "stop" /\ readers = {}
    /\ active' = FALSE /\ writing' = FALSE
    /\ loop' = "close"
    /\ UNCHANGED <<chan, closeChan, data>>

\* The deferred close of both channels.
CloseChannels ==
    /\ loop = "close"
    /\ closeChan' = "closed" /\ closed' = TRUE
    /\ loop' = "ended"
    /\ UNCHANGED <<active, messages, writing, data>>

Processing ==
    /\ halt = "no"
    /\ TakeMsg \/ TakeClose \/ Stop \/ CloseChannels
    /\ UNCHANGED <<readers, client, closer, accepted, halt>>

-----------------------------------------------------------------------------
\* Nothing is left to do, or the process is gone.
Quiet ==
    \/ halt # "no"
    \/ /\ closer = "done" /\ loop = "ended"
       /\ \A s \in Senders : sender[s] = "idle" /\ calls[s] = MaxMsgs

Next ==
    \/ \E s \in Senders : Sender(s)
    \/ Close \/ Processing
    \/ Quiet /\ UNCHANGED vars

Spec == Init /\ [][Next]_vars

\* Every goroutine that can go on does; nobody has to call SendMsg or Close.
FairSpec ==
    /\ Spec
    /\ \A s \in Senders : WF_vars(Sender(s) /\ sender[s] # "idle")
    /\ WF_vars(Close /\ closer # "idle") /\ WF_vars(Processing)
=============================================================================
