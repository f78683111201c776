--------------------------- MODULE StatisticProofs ---------------------------
(***************************************************************************)
(* The channel of the statistic is never used after its close, for every   *)
(* number of goroutines and every capacity.  The argument is LockInv: who  *)
(* passed the test of active holds the read lock, so stop() waits for it,  *)
(* and the close comes after stop().  What is counted follows from sums    *)
(* over the buffer that every step carries along.                          *)
(***************************************************************************)
EXTENDS StatisticProperties, SequenceTheorems, WellFoundedInduction, TLAPS

\* Who is between the test and the send holds the lock, which stop() waits for.
LockInv ==
    /\ \A s \in Senders : sender[s] # "idle" => s \in readers
    /\ \A s \in Senders : sender[s] = "send" => active
    /\ loop \in {"close", "ended"} => ~active
    /\ closed => loop = "ended"

StatisticInv == TypeOK /\ LockInv /\ NoSendOnClosed

LEMMA InitInv == Init => StatisticInv
<1> SUFFICES ASSUME Init PROVE StatisticInv
  OBVIOUS
<1>1. msg \in [Senders -> Messages]
  <2>1. PICK c \in Codes, v \in Values : TRUE
    BY StatAssumption
  <2>2. [code |-> c, value |-> v] \in Messages
    BY DEF Messages
  <2>3. (CHOOSE m \in Messages : TRUE) \in Messages
    BY <2>2
  <2> QED BY <2>3 DEF Init
<1>2. messages \in Seq(Messages) /\ Len(messages) <= StatBufferSize
  BY StatAssumption DEF Init
<1>3. /\ items \in [Codes -> Int] /\ accepted \in [Codes -> Int] /\ calls \in [Senders -> Nat]
      /\ sender \in [Senders -> {"idle", "check", "send"}]
  BY DEF Init
<1>4. TypeOK
  BY <1>1, <1>2, <1>3 DEF Init, TypeOK
<1> QED
  BY <1>4 DEF Init, StatisticInv, LockInv, NoSendOnClosed

\* A call of SendMsg: the reader that enters holds the lock, a test passes only
\* while active, and the closed channel is out of reach.
LEMMA SenderInv == ASSUME StatisticInv, NEW s \in Senders, Sender(s) PROVE StatisticInv'
<1> USE DEF StatisticInv
<1>1. ASSUME NEW m \in Messages, SendMsg(s, m) PROVE StatisticInv'
  BY <1>1 DEF Sender, SendMsg, RLock, TypeOK, LockInv, NoSendOnClosed, chan, data
<1>2. CASE Check(s)
  BY <1>2 DEF Sender, Check, RUnlock, TypeOK, LockInv, NoSendOnClosed, chan, data
<1>3. CASE Push(s)
  <2>0. messages \in Seq(Messages) /\ msg[s] \in Messages
    BY DEF TypeOK
  <2>1. messages' \in Seq(Messages) /\ Len(messages') = Len(messages) + 1
    BY <1>3, <2>0, AppendProperties DEF Push
  <2>2. accepted' \in [Codes -> Int]
    <3>1. msg[s].code \in Codes /\ msg[s].value \in Int
      BY <2>0, StatAssumption DEF Messages
    <3>2. accepted \in [Codes -> Int] /\ accepted' = [accepted EXCEPT ![msg[s].code] = @ + msg[s].value]
      BY <1>3 DEF Push, TypeOK
    <3> QED BY <3>1, <3>2
  <2>3. TypeOK'
    BY <1>3, <2>1, <2>2, StatAssumption DEF Sender, Push, RUnlock, TypeOK, data
  <2>4. LockInv' /\ NoSendOnClosed'
    BY <1>3 DEF Sender, Push, RUnlock, TypeOK, LockInv, NoSendOnClosed
  <2> QED BY <2>3, <2>4
<1>4. ~PushClosed(s)
  BY DEF PushClosed, TypeOK, LockInv
<1> QED
  BY <1>1, <1>2, <1>3, <1>4 DEF Sender

LEMMA CloseInv == StatisticInv /\ Close => StatisticInv'
BY DEF StatisticInv, Close, TypeOK, LockInv, NoSendOnClosed, chan, lock, client, data

\* The goroutine of statProcessing: it leaves active only when no reader is in.
LEMMA ProcessingInv == ASSUME StatisticInv, Processing PROVE StatisticInv'
<1> USE DEF StatisticInv
<1>1. CASE TakeMsg
  <2>0. /\ messages \in Seq(Messages) /\ messages # <<>> /\ messages' = Tail(messages)
        /\ Len(messages) \in Nat /\ Len(messages) <= StatBufferSize
    BY <1>1, LenProperties DEF TakeMsg, TypeOK
  <2>1. /\ messages' \in Seq(Messages) /\ Len(messages') <= StatBufferSize
        /\ Head(messages) \in Messages
    BY <2>0, StatAssumption, HeadTailProperties
  <2>2. items' \in [Codes -> Int] /\ msgCount' \in Nat
    <3>1. Head(messages).code \in Codes /\ Head(messages).value \in Int
      BY <2>1, StatAssumption DEF Messages
    <3>2. /\ items \in [Codes -> Int] /\ msgCount \in Nat
          /\ \/ items' = items /\ msgCount' = msgCount
             \/ items' = Add(Head(messages)) /\ msgCount' = msgCount + 1
      BY <1>1 DEF TakeMsg, TypeOK
    <3>3. Add(Head(messages)) \in [Codes -> Int]
      BY <3>1, <3>2 DEF Add
    <3> QED BY <3>2, <3>3
  <2>3. TypeOK'
    BY <1>1, <2>1, <2>2 DEF Processing, TakeMsg, TypeOK, client
  <2>4. LockInv' /\ NoSendOnClosed'
    BY <1>1 DEF Processing, TakeMsg, LockInv, NoSendOnClosed, client
  <2> QED BY <2>3, <2>4
<1>2. CASE TakeClose
  BY <1>2 DEF Processing, TakeClose, TypeOK, LockInv, NoSendOnClosed, chan, client, data
<1>3. CASE Stop
  BY <1>3 DEF Processing, Stop, TypeOK, LockInv, NoSendOnClosed, chan, client, data
<1>4. CASE CloseChannels
  BY <1>4 DEF Processing, CloseChannels, TypeOK, LockInv, NoSendOnClosed, client, data
<1> QED
  BY <1>1, <1>2, <1>3, <1>4 DEF Processing

LEMMA NextInv == StatisticInv /\ [Next]_vars => StatisticInv'
<1> SUFFICES ASSUME StatisticInv, [Next]_vars PROVE StatisticInv'
  OBVIOUS
<1>1. CASE UNCHANGED vars
  BY <1>1 DEF StatisticInv, TypeOK, LockInv, NoSendOnClosed, vars, chan, lock, client, data
<1> QED
  BY <1>1, SenderInv, CloseInv, ProcessingInv DEF Next

\* The inductive invariant holds in every reachable state.
LEMMA StatisticInvariant == Spec => []StatisticInv
BY InitInv, NextInv, PTL DEF Spec

\* The channel stays within its capacity, and every goroutine in its own steps.
THEOREM TypeCorrect == Spec => []TypeOK
<1>1. StatisticInv => TypeOK
  BY DEF StatisticInv
<1> QED
  BY StatisticInvariant, <1>1, PTL

\* Whoever is between SendMsg's test of active and its send holds the read lock, and
\* the channel is closed only after stop(), for any number of goroutines.
THEOREM LockHolds == Spec => []LockInv
<1>1. StatisticInv => LockInv
  BY DEF StatisticInv
<1> QED
  BY StatisticInvariant, <1>1, PTL

\* No SendMsg meets the channel that statProcessing closed.
THEOREM SendIsSafe == Spec => []NoSendOnClosed
<1>1. StatisticInv => NoSendOnClosed
  BY DEF StatisticInv
<1> QED
  BY StatisticInvariant, <1>1, PTL

-----------------------------------------------------------------------------
\* What is counted

\* sum[n] is what the first n messages of q add to the item c.
Sums(q, c, sum) ==
    /\ sum \in [0..Len(q) -> Int] /\ sum[0] = 0
    /\ \A n \in 1..Len(q) : sum[n] = sum[n - 1] + Share(q[n], c)

\* The sums of the buffer are carried along from step to step, so that no step has to
\* add the buffer up again.
Balanced(c) ==
    \E sum : Sums(messages, c, sum) /\ items[c] + sum[Len(messages)] = accepted[c]

\* A Silent statistic has nothing to take from the channel.
SilentInv == Silent => messages = <<>> /\ \A s \in Senders : sender[s] # "send"

CountInv == SilentInv /\ \A c \in Codes : Balanced(c)

LEMMA ShareType == ASSUME NEW m \in Messages, NEW c \in Codes PROVE Share(m, c) \in Int
<1>1. m.value \in Int
  BY StatAssumption DEF Messages
<1> QED BY <1>1 DEF Share

LEMMA LeastOf ==
    ASSUME NEW T, T \subseteq Nat, T # {}
    PROVE \E n \in T : \A k \in T : n <= k
<1>1. PICK n \in T : \A k \in T : <<k, n>> \notin OpToRel(<, Nat)
  BY NatLessThanWellFounded, WFMin
<1>2. \A k \in T : ~(k < n)
  BY <1>1 DEF OpToRel
<1> QED BY <1>2

\* The sums of a sequence are those that Buffered adds up.
LEMMA BufferedIsSum ==
    ASSUME NEW c \in Codes, NEW sum, messages \in Seq(Messages), Sums(messages, c, sum)
    PROVE Buffered(c) = sum[Len(messages)]
<1> DEFINE F(g) == [n \in 0..Len(messages) |->
                      IF n = 0 THEN 0 ELSE g[n - 1] + Share(messages[n], c)]
           f == CHOOSE g : g = F(g)
<1>1. Len(messages) \in Nat
  BY LenProperties
<1>2. sum = F(sum)
  BY <1>1 DEF Sums
<1>3. f = F(f)
  <2> HIDE DEF F
  <2> QED BY <1>2
<1>4. Buffered(c) = f[Len(messages)]
  BY DEF Buffered
<1> HIDE DEF f
<1>5. \A n \in 0..Len(messages) :
          f[n] = IF n = 0 THEN 0 ELSE f[n - 1] + Share(messages[n], c)
  BY <1>3
<1> DEFINE Differ == {n \in 0..Len(messages) : f[n] # sum[n]}
<1>6. Differ = {}
  <2>1. SUFFICES ASSUME Differ # {} PROVE FALSE
    OBVIOUS
  <2>2. PICK n \in Differ : \A k \in Differ : n <= k
    <3>1. Differ \subseteq Nat
      BY <1>1
    <3> HIDE DEF Differ
    <3> QED BY <2>1, <3>1, LeastOf
  <2>3. n \in 1..Len(messages)
    BY <1>1, <1>5 DEF Sums
  <2>4. n - 1 \in 0..Len(messages) /\ n - 1 < n
    BY <1>1, <2>3
  <2>5. f[n - 1] = sum[n - 1]
    BY <2>2, <2>4
  <2> QED BY <1>5, <2>3, <2>5 DEF Sums
<1> QED BY <1>1, <1>4, <1>6

LEMMA SumAppend ==
    ASSUME NEW q \in Seq(Messages), NEW m \in Messages, NEW c \in Codes, NEW sum,
           Sums(q, c, sum)
    PROVE \E s : /\ Sums(Append(q, m), c, s)
                 /\ s[Len(Append(q, m))] = sum[Len(q)] + Share(m, c)
<1> DEFINE k == Len(q) + 1
           s == [n \in 0..k |-> IF n = k THEN sum[Len(q)] + Share(m, c) ELSE sum[n]]
<1>1. /\ Len(q) \in Nat /\ Len(Append(q, m)) = k /\ Append(q, m)[k] = m
      /\ \A n \in 1..Len(q) : Append(q, m)[n] = q[n]
  BY LenProperties, AppendProperties
<1>2. sum[Len(q)] \in Int /\ Share(m, c) \in Int
  BY <1>1, ShareType DEF Sums
<1>3. s \in [0..k -> Int] /\ s[0] = 0
  BY <1>1, <1>2 DEF Sums
<1>4. ASSUME NEW n \in 1..k PROVE s[n] = s[n - 1] + Share(Append(q, m)[n], c)
  BY <1>1 DEF Sums
<1>5. s[k] = sum[Len(q)] + Share(m, c)
  BY <1>1
<1> HIDE DEF s
<1>6. Sums(Append(q, m), c, s)
  BY <1>1, <1>3, <1>4 DEF Sums
<1> QED BY <1>1, <1>5, <1>6

LEMMA SumTail ==
    ASSUME NEW q \in Seq(Messages), q # <<>>, NEW c \in Codes, NEW sum, Sums(q, c, sum)
    PROVE \E s : /\ Sums(Tail(q), c, s)
                 /\ sum[Len(q)] = Share(Head(q), c) + s[Len(Tail(q))]
<1> DEFINE k == Len(q) - 1
           s == [n \in 0..k |-> sum[n + 1] - sum[1]]
<1>1. /\ Len(q) \in Nat \ {0} /\ Len(Tail(q)) = k /\ Head(q) = q[1]
      /\ \A n \in 1..k : Tail(q)[n] = q[n + 1]
      /\ \A n \in 1..Len(q) : q[n] \in Messages
  BY LenProperties, HeadTailProperties, ElementOfSeq, EmptySeq
<1>2. /\ sum \in [0..Len(q) -> Int] /\ sum[1] = Share(q[1], c)
  <2>1. Share(q[1], c) \in Int
    BY <1>1, ShareType
  <2> QED BY <1>1, <2>1 DEF Sums
<1>3. s \in [0..k -> Int] /\ s[0] = 0 /\ s[k] = sum[Len(q)] - sum[1]
  BY <1>1, <1>2
<1>4. ASSUME NEW n \in 1..k PROVE s[n] = s[n - 1] + Share(Tail(q)[n], c)
  <2>1. sum[n + 1] = sum[n] + Share(q[n + 1], c)
    BY <1>1 DEF Sums
  <2>2. Share(q[n + 1], c) \in Int /\ sum[n] \in Int /\ sum[1] \in Int
    BY <1>1, <1>2, ShareType
  <2>3. s[n] = sum[n + 1] - sum[1] /\ s[n - 1] = sum[n] - sum[1]
    BY <1>1
  <2> QED BY <1>1, <2>1, <2>2, <2>3
<1>5. sum[Len(q)] \in Int /\ sum[1] \in Int
  BY <1>1, <1>2
<1> HIDE DEF s
<1>6. Sums(Tail(q), c, s)
  BY <1>1, <1>3, <1>4 DEF Sums
<1>7. sum[Len(q)] = Share(Head(q), c) + s[k]
  BY <1>1, <1>2, <1>3, <1>5
<1> QED BY <1>1, <1>6, <1>7

LEMMA InitCount == Init => CountInv
<1> SUFFICES ASSUME Init PROVE CountInv
  OBVIOUS
<1>1. SilentInv
  BY DEF Init, SilentInv
<1>2. ASSUME NEW c \in Codes PROVE Balanced(c)
  <2> DEFINE sum == [n \in 0..0 |-> 0]
  <2>1. messages = <<>> /\ Len(messages) = 0 /\ items[c] = 0 /\ accepted[c] = 0
    BY DEF Init
  <2>2. Sums(messages, c, sum)
    BY <2>1 DEF Sums
  <2> QED BY <2>1, <2>2 DEF Balanced
<1> QED BY <1>1, <1>2 DEF CountInv

\* A message enters the sums and what was accepted in one step.
LEMMA PushCounts ==
    ASSUME StatisticInv, CountInv, NEW s \in Senders, Sender(s), Push(s) PROVE CountInv'
<1>1. /\ messages \in Seq(Messages) /\ msg[s] \in Messages
      /\ items \in [Codes -> Int] /\ accepted \in [Codes -> Int]
  BY DEF StatisticInv, TypeOK
<1>2. /\ messages' = Append(messages, msg[s]) /\ items' = items
      /\ accepted' = [accepted EXCEPT ![msg[s].code] = @ + msg[s].value]
      /\ ~Silent
  BY DEF Sender, Push, data, CountInv, SilentInv
<1>3. ASSUME NEW c \in Codes PROVE Balanced(c)'
  <2>1. PICK sum : /\ Sums(messages, c, sum)
                   /\ items[c] + sum[Len(messages)] = accepted[c]
    BY DEF CountInv, Balanced
  <2>2. PICK t : /\ Sums(messages', c, t)
                 /\ t[Len(messages')] = sum[Len(messages)] + Share(msg[s], c)
    BY <1>1, <1>2, <2>1, SumAppend
  <2>3. msg[s].code \in Codes /\ msg[s].value \in Int
    BY <1>1, StatAssumption DEF Messages
  <2>4. accepted'[c] = accepted[c] + Share(msg[s], c)
    BY <1>1, <1>2, <2>3 DEF Share
  <2>5. sum[Len(messages)] \in Int /\ Share(msg[s], c) \in Int
    <3>1. Len(messages) \in Nat
      BY <1>1, LenProperties
    <3>2. sum[Len(messages)] \in Int
      BY <2>1, <3>1 DEF Sums
    <3> QED BY <1>1, <3>2, ShareType
  <2>6. items'[c] + t[Len(messages')] = accepted'[c]
    BY <1>1, <1>2, <2>1, <2>2, <2>4, <2>5
  <2> QED BY <2>2, <2>6 DEF Balanced
<1> QED BY <1>2, <1>3 DEF CountInv, SilentInv

\* A message leaves the sums for the item it names.
LEMMA TakeCounts ==
    ASSUME StatisticInv, CountInv, Processing, TakeMsg PROVE CountInv'
<1>1. /\ messages \in Seq(Messages) /\ messages # <<>>
      /\ items \in [Codes -> Int] /\ accepted \in [Codes -> Int]
  BY DEF StatisticInv, TypeOK, TakeMsg
<1>2. /\ messages' = Tail(messages) /\ items' = Add(Head(messages)) /\ ~Silent
      /\ accepted' = accepted
  BY DEF Processing, TakeMsg, CountInv, SilentInv
<1>3. Head(messages) \in Messages
  BY <1>1, HeadTailProperties
<1>4. ASSUME NEW c \in Codes PROVE Balanced(c)'
  <2>1. PICK sum : /\ Sums(messages, c, sum)
                   /\ items[c] + sum[Len(messages)] = accepted[c]
    BY DEF CountInv, Balanced
  <2>2. PICK t : /\ Sums(messages', c, t)
                 /\ sum[Len(messages)] = Share(Head(messages), c) + t[Len(messages')]
    BY <1>1, <1>2, <2>1, SumTail
  <2>3. Head(messages).code \in Codes /\ Head(messages).value \in Int
    BY <1>3, StatAssumption DEF Messages
  <2>4. items'[c] = items[c] + Share(Head(messages), c)
    BY <1>1, <1>2, <2>3 DEF Add, Share
  <2>5. messages' \in Seq(Messages) /\ Len(messages') \in Nat
    BY <1>1, <1>2, HeadTailProperties, LenProperties
  <2>6. t[Len(messages')] \in Int /\ Share(Head(messages), c) \in Int
    BY <1>3, <2>2, <2>5, ShareType DEF Sums
  <2>7. items'[c] + t[Len(messages')] = accepted'[c]
    BY <1>1, <1>2, <2>1, <2>2, <2>4, <2>6
  <2> QED BY <2>2, <2>7 DEF Balanced
<1> QED BY <1>2, <1>4 DEF CountInv, SilentInv

\* No other step touches the channel, the items or what was accepted.
LEMMA NextCount == StatisticInv /\ CountInv /\ [Next]_vars => CountInv'
<1> SUFFICES ASSUME StatisticInv, CountInv, [Next]_vars PROVE CountInv'
  OBVIOUS
<1>1. ASSUME UNCHANGED <<messages, data, accepted>>, SilentInv' PROVE CountInv'
  BY <1>1 DEF CountInv, Balanced, data
<1>2. CASE UNCHANGED vars
  BY <1>1, <1>2 DEF CountInv, SilentInv, vars, chan, client
<1>3. CASE \E s \in Senders : Sender(s)
  <2>1. PICK s \in Senders : Sender(s)
    BY <1>3
  <2>2. ASSUME NEW m \in Messages, SendMsg(s, m) PROVE CountInv'
    <3>1. SilentInv'
      BY <2>2 DEF StatisticInv, TypeOK, CountInv, SilentInv, SendMsg, chan
    <3> QED BY <1>1, <2>1, <2>2, <3>1 DEF Sender, SendMsg, chan
  <2>3. CASE Check(s)
    <3>1. SilentInv'
      BY <2>3 DEF StatisticInv, TypeOK, CountInv, SilentInv, Check, chan
    <3> QED BY <1>1, <2>1, <2>3, <3>1 DEF Sender, Check, chan
  <2>4. CASE Push(s)
    BY <2>1, <2>4, PushCounts
  <2>5. CASE PushClosed(s)
    <3>1. SilentInv'
      BY <2>5 DEF CountInv, SilentInv, PushClosed, chan, client
    <3> QED BY <1>1, <2>1, <2>5, <3>1 DEF Sender, PushClosed, chan
  <2> QED BY <2>1, <2>2, <2>3, <2>4, <2>5 DEF Sender
<1>4. CASE Close
  BY <1>1, <1>4 DEF CountInv, SilentInv, Close, chan, client
<1>5. CASE Processing /\ ~TakeMsg
  BY <1>1, <1>5
     DEF CountInv, SilentInv, Processing, TakeClose, Stop, CloseChannels, chan, client
<1>6. CASE Processing /\ TakeMsg
  BY <1>6, TakeCounts
<1> QED
  BY <1>2, <1>3, <1>4, <1>5, <1>6 DEF Next

\* Every message that the channel accepted is counted once or still in the channel, for
\* any number of senders, any capacity, any values, and with or without statistics.
THEOREM EachMessageCounts == Spec => []Counted
<1>1. StatisticInv /\ CountInv => Counted
  <2> SUFFICES ASSUME StatisticInv, CountInv, NEW c \in Codes
               PROVE items[c] + Buffered(c) = accepted[c]
    BY DEF Counted
  <2>1. messages \in Seq(Messages)
    BY DEF StatisticInv, TypeOK
  <2>2. PICK sum : /\ Sums(messages, c, sum)
                   /\ items[c] + sum[Len(messages)] = accepted[c]
    BY DEF CountInv, Balanced
  <2> QED BY <2>1, <2>2, BufferedIsSum
<1>2. Spec => []CountInv
  BY StatisticInvariant, InitCount, NextCount, PTL DEF Spec
<1> QED
  BY StatisticInvariant, <1>1, <1>2, PTL

-----------------------------------------------------------------------------
\* What can hang

\* Who waits for nobody: neither for the lock, nor for room in a channel, nor for a value.
SenderFree(s) ==
    sender[s] = "check" \/ (sender[s] = "send" /\ (closed \/ Len(messages) < StatBufferSize))
CloseFree == closer = "put" /\ closeChan = "empty"
LoopFree ==
    \/ loop = "select" /\ (messages # <<>> \/ closeChan = "full")
    \/ loop = "stop" /\ readers = {}
    \/ loop = "close"
CanGo == (\E s \in Senders : SenderFree(s)) \/ CloseFree \/ LoopFree

\* No call is under way, the lock is free, every message is counted, and a Close that
\* was called has stopped statProcessing.
AtRest ==
    /\ \A s \in Senders : sender[s] = "idle"
    /\ readers = {} /\ ~writing
    /\ \/ loop = "select" /\ messages = <<>> /\ closer = "idle"
       \/ loop = "ended" /\ closer = "done"

\* The lock is held by who is in SendMsg and by stop(), and the one value of Close is
\* with Close, in closeChan or taken.
StopInv ==
    /\ \A s \in readers : sender[s] # "idle"
    /\ writing <=> loop = "stop"
    /\ loop = "select" <=> closer # "done" \/ closeChan = "full"
    /\ closer # "done" => closeChan = "empty"
    /\ loop = "select" => active

LEMMA SenderKeepsClose ==
    ASSUME StatisticInv, StopInv, NEW s \in Senders, Sender(s) PROVE StopInv'
<1>1. UNCHANGED <<active, closeChan, closer, loop, writing>>
  BY DEF Sender, SendMsg, Check, Push, PushClosed, lock
<1>2. \A r \in readers' : sender'[r] # "idle"
  BY DEF Sender, SendMsg, RLock, Check, RUnlock, Push, PushClosed, lock, client, StatisticInv, TypeOK,
         StopInv
<1> QED BY <1>1, <1>2 DEF StopInv

LEMMA NextClose == StatisticInv /\ StopInv /\ [Next]_vars => StopInv'
<1> SUFFICES ASSUME StatisticInv, StopInv, [Next]_vars PROVE StopInv'
  OBVIOUS
<1>1. CASE Close
  BY <1>1 DEF Close, StopInv, lock, client
<1>2. CASE Processing
  BY <1>2 DEF Processing, TakeMsg, TakeClose, Stop, CloseChannels, StopInv, chan, client, data
<1>3. CASE UNCHANGED vars
  BY <1>3 DEF StopInv, vars, lock, client
<1> QED BY <1>1, <1>2, <1>3, SenderKeepsClose DEF Next

\* Senders, Close and statProcessing come to a standstill with nothing left to do, or
\* where the finding about Close says so: stop() waits for a sender that waits for
\* room.  Nothing else ever hangs, for any number of senders and any capacity.
THEOREM HangsOnlyFull == Spec => [](CanGo \/ AtRest \/ Stuck)
<1>1. Init => StopInv
  BY DEF Init, StopInv
<1>2. StatisticInv /\ StopInv => CanGo \/ AtRest \/ Stuck
  <2> SUFFICES ASSUME StatisticInv, StopInv, ~CanGo, ~Stuck PROVE AtRest
    OBVIOUS
  <2>1. ASSUME NEW s \in Senders, sender[s] # "idle" PROVE FALSE
    <3>0. Len(messages) \in Nat /\ Len(messages) <= StatBufferSize /\ StatBufferSize \in Nat
      BY StatAssumption, LenProperties DEF StatisticInv, TypeOK
    <3>1. sender[s] = "send" /\ active
      BY <2>1 DEF CanGo, SenderFree, StatisticInv, TypeOK, LockInv
    <3>2. ~closed /\ ~(Len(messages) < StatBufferSize)
      BY <3>1 DEF CanGo, SenderFree
    <3>3. Len(messages) = StatBufferSize /\ messages # <<>>
      BY <3>0, <3>2, StatAssumption
    <3>4. loop \in {"select", "stop"}
      BY <3>1 DEF StatisticInv, TypeOK, LockInv
    <3> QED BY <3>1, <3>3, <3>4 DEF CanGo, LoopFree, Stuck
  <2>2. readers = {}
    BY <2>1 DEF StopInv, StatisticInv, TypeOK
  <2>3. loop \in {"select", "ended"}
    BY <2>2 DEF CanGo, LoopFree, StatisticInv, TypeOK
  <2>4. closer # "put"
    BY DEF StopInv, CanGo, CloseFree
  <2>5. loop = "select" => messages = <<>> /\ closer = "idle"
    BY <2>4 DEF CanGo, LoopFree, StopInv, StatisticInv, TypeOK
  <2>6. loop = "ended" => closer = "done"
    BY DEF StopInv
  <2> QED BY <2>1, <2>2, <2>3, <2>5, <2>6 DEF AtRest, StopInv
<1> QED BY <1>1, <1>2, StatisticInvariant, NextClose, PTL DEF Spec
=============================================================================
