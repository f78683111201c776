------------------------ MODULE CallSupportProperties ------------------------
(***************************************************************************)
(* What is expected of ConnectionSupport and TaskIds.                      *)
(***************************************************************************)
EXTENDS CallSupport

Groups == 1..GroupCount
ReaderStates == {"none", "count", "create", "creating", "serve", "looked", "remove",
                 "removing", "gone"}

\* Ids and totals are numbers, locks are held by goroutines, records are in cells.
TypeOK ==
    /\ index \in Nat /\ total \in Nat
    /\ mlock \in Conns \cup {Nobody} /\ cells \subseteq Groups
    /\ data \in [Groups -> SUBSET Nat]
    /\ wlock \in [Groups -> Conns \cup {Nobody}] /\ rlock \in [Groups -> SUBSET Workers]
    /\ reader \in [Conns -> ReaderStates] /\ id \in [Conns -> Nat] /\ num \in [Conns -> Nat]
    /\ writer \in [Conns -> {"none", "idle", "lock", "lookup"}]
    /\ worker \in [Workers -> {"idle", "auth", "check", "busy", "call"}]
    /\ target \in [Workers -> Conns \cup {Nobody}]
    /\ halt \in {"no", "index out of range", "nil state record", "concurrent map access"}
    /\ counter \in Nat /\ asked \in Nat
    /\ call \in [Callers -> [open : BOOLEAN, since : Nat]]
    /\ issued \in Seq([number : Nat, since : Nat])

-----------------------------------------------------------------------------
\* c has its number: it is past the lock of NewConnection.
Numbered(c) == reader[c] # "none"
\* c is in the count.
Counted(c) == reader[c] \notin {"none", "count"}

\* NewConnection takes the next number from one counter under the lock of the
\* manager: no two connections ever have one id, however they overlap.
UniqueIds ==
    \A c, d \in Conns : Numbered(c) /\ id[c] = id[d] => c = d

\* The record of a connection is in the cell that its cid names from the end of
\* create to the end of Remove, and no cell has another record: none is left behind
\* or comes back, also when its writer still updates it.  Who knows a cid finds its
\* cell, also when the connection is gone: IsAuth does not ask (connectionsupport.go:303).
Living == {c \in Conns : reader[c] \in {"serve", "looked", "remove", "removing"}}
RecordsOfLiving ==
    /\ \A g \in Groups : data[g] = {id[c] : c \in {d \in Living : Cell(d) = g}}
    /\ \A c \in Conns : Known(c) => Cell(c) \in cells

Writing(g) == {c \in Conns : reader[c] \in {"creating", "removing"} /\ Cell(c) = g}
Reading(g) == {w \in Workers : worker[w] \in {"auth", "busy"} /\ Cell(target[w]) = g}
Updating == {c \in Conns : writer[c] = "lookup"}

\* A map is written by one goroutine and read by none, but for one UpdateState, which
\* looks a record up without the lock of the cell (connectionsupport.go:259): only
\* that may meet a write.
OnlyUpdateRaces ==
    /\ \A g \in Groups : \A c \in Writing(g) : Writing(g) = {c} /\ Reading(g) = {}
    /\ \A c, d \in Updating : c = d
    /\ halt = "concurrent map access" => \E g \in Groups : Writing(g) # {} /\ Updating # {}

\* A group has GroupSize connections at most, but for the last one, and outChannels has
\* a place for all groups but the last: there is no panic before the connection after
\* the first (GroupCount - 1) * GroupSize, counting those that have gone.
GroupsFill ==
    /\ \A g \in 1..(GroupCount - 1) :
          Cardinality({c \in Conns : Numbered(c) /\ Cell(c) = g}) <= GroupSize
    /\ halt = "index out of range" => total > (GroupCount - 1) * GroupSize

-----------------------------------------------------------------------------
\* Why these hold.

\* Who has which lock, and for which connection.
ConnLocks ==
    \A c \in Conns :
        /\ reader[c] = "count" \/ writer[c] = "lookup" => mlock = c
        /\ reader[c] \in {"none", "count", "create", "creating"} => writer[c] = "none"
        /\ reader[c] \in {"creating", "removing"} => wlock[Cell(c)] = c
WorkerLocks ==
    \A w \in Workers :
        /\ worker[w] \in {"auth", "check", "busy"} => target[w] \in Conns /\ Known(target[w])
        /\ worker[w] \in {"auth", "busy"} => w \in rlock[Cell(target[w])]
CellLocks ==
    \A g \in Groups :
        /\ rlock[g] # {} => wlock[g] = Nobody
        /\ wlock[g] # Nobody =>
              reader[wlock[g]] \in {"creating", "removing"} /\ Cell(wlock[g]) = g
LockInv == ConnLocks /\ WorkerLocks /\ CellLocks

\* The next id is larger than all but that of the connection with the lock.
IdInv ==
    \A c \in Conns :
        /\ ~Numbered(c) => id[c] = 0
        /\ reader[c] = "count" => id[c] = index + 1
        /\ Counted(c) => id[c] <= index /\ Cell(c) \in cells

SupportInv ==
    TypeOK /\ LockInv /\ IdInv /\ UniqueIds /\ RecordsOfLiving /\ OnlyUpdateRaces

-----------------------------------------------------------------------------
\* The call that returned as number n had not begun when number m returned.
Before(m, n) == m <= issued[n].since

\* Two ids have one number only if their calls overlapped: a call that begins after
\* another one returned gets a larger number.  As the calls that overlap are those of
\* different workers, a number is used at most once for every worker.
TaskIdsApart ==
    \A m, n \in DOMAIN issued :
        /\ Before(m, n) => issued[m].number < issued[n].number
        /\ Cardinality({k \in DOMAIN issued : issued[k].number = issued[n].number})
              <= Cardinality(Workers)
=============================================================================
