------------------------ MODULE StatisticProperties ------------------------
(***************************************************************************)
(* What is expected of Statistic.                                          *)
(***************************************************************************)
EXTENDS Statistic

\* The channel holds no more than its capacity, a sender is in one of the steps of
\* SendMsg, and statProcessing in one of its own.
TypeOK ==
    /\ active \in BOOLEAN /\ closed \in BOOLEAN /\ writing \in BOOLEAN
    /\ messages \in Seq(Messages) /\ Len(messages) <= StatBufferSize
    /\ closeChan \in {"empty", "full", "closed"}
    /\ readers \subseteq Senders
    /\ sender \in [Senders -> {"idle", "check", "send"}] /\ msg \in [Senders -> Messages]
    /\ calls \in [Senders -> Nat]
    /\ closer \in {"idle", "put", "done"} /\ loop \in {"select", "stop", "close", "ended"}
    /\ items \in [Codes -> Int] /\ accepted \in [Codes -> Int]
    /\ msgCount \in Nat
    /\ halt \in {"no", "send on closed messages"}

\* SendMsg tests active and sends under the read lock, and stop() changes active
\* under the write lock, before the channel is closed: no sender that passed the
\* test meets the closed channel, however the calls and the close interleave.
NoSendOnClosed == halt = "no"

\* What the messages in the channel add to an item.
Share(m, c) == IF m.code = c THEN m.value ELSE 0
Buffered(c) ==
    LET sum[n \in 0..Len(messages)] ==
            IF n = 0 THEN 0 ELSE sum[n - 1] + Share(messages[n], c)
    IN  sum[Len(messages)]

\* A message is counted once, or waits in the channel: no interleaving of the
\* senders loses or doubles one, until the process leaves the rest of the channel
\* behind at its close.
Counted == \A c \in Codes : items[c] + Buffered(c) = accepted[c]

\* A full channel only delays a sender, as long as nobody calls Close.
SendReturns ==
    \A s \in Senders : sender[s] # "idle" ~> sender[s] = "idle" \/ closer # "idle"

\* statProcessing took the close, and a sender that passed the test waits for room with
\* the read lock: nobody can go on.
Stuck ==
    loop = "stop" /\ Len(messages) = StatBufferSize /\ \E s \in Senders : sender[s] = "send"

\* Close stops the statistic, unless it finds the channel full and a sender waiting:
\* statProcessing gets the write lock for its stop() however many senders come and
\* go, and ends.
CloseStopsWithRoom == closer = "put" ~> loop = "ended" \/ Stuck

-----------------------------------------------------------------------------
\* A claim that the code does not keep: a Close stops the statistic while clients go
\* on sending (TestUnexpectedClosingForAsyncClients, statistic_test.go:93).
CloseStops == closer = "put" ~> loop = "ended"
=============================================================================
