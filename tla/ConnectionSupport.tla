-------------------------- MODULE ConnectionSupport --------------------------
(***************************************************************************)
(* connectionsupport.ConnectionDataManager and its cells, as the reader    *)
(* and the writer of each connection and the workers use them.  A record   *)
(* is here only its key in the map of its cell: what it says is in Rpc.    *)
(* The use of a map takes two steps, so that uses may overlap.             *)
(***************************************************************************)
EXTENDS Integers, FiniteSets

CONSTANTS
    Conns,      \* connections, also those that have gone
    Workers,
    GroupSize,  \* ResourcesGroupSize, 100
    GroupCount, \* 1000: the cells of the storage and the places of outChannels
    Nobody

ASSUME SupportAssumption ==
    /\ GroupSize \in Nat \ {0} /\ GroupCount \in Nat \ {0}
    /\ Nobody \notin Conns

VARIABLES
    index, total, \* of the manager
    mlock,        \* who has the write lock of the manager
    cells,        \* indexes with a cell
    data,         \* ids in the map of each cell
    wlock, rlock, \* who has the write lock, and the read lock, of each cell
    reader, id, num, \* place of each reader; its id, and the total it found
    writer,       \* place of each writer
    worker, target, \* place of each worker, and whose record it looks at
    halt          \* cause of a panic, "no" without one

manager == <<index, total, mlock, cells>>
storage == <<data, wlock, rlock>>
conn == <<reader, id, num>>
supportVars == <<manager, storage, conn, writer, worker, target, halt>>

MutGroupFromZero(n) == (n - 1) \div GroupSize
MutGroupIndex(n) == IF n <= GroupSize + 1 THEN 1 ELSE (n - 1) \div GroupSize + 1
\* Connection number n in the count of total belongs to this group, from 1 on.
GroupIndex(n) == IF n <= GroupSize THEN 1 ELSE (n - 1) \div GroupSize + 1
Clamped(g) == IF g > GroupCount THEN GroupCount ELSE g
Cell(c) == Clamped(GroupIndex(num[c]))

\* A panic of the Go runtime ends the process.
Panic(cause) == halt' = cause

SupportInit ==
    /\ index = 0 /\ total = 0 /\ mlock = Nobody /\ cells = {}
    /\ data = [g \in 1..GroupCount |-> {}]
    /\ wlock = [g \in 1..GroupCount |-> Nobody] /\ rlock = [g \in 1..GroupCount |-> {}]
    /\ reader = [c \in Conns |-> "none"]
    /\ id = [c \in Conns |-> 0] /\ num = [c \in Conns |-> 0]
    /\ writer = [c \in Conns |-> "none"]
    /\ worker = [w \in Workers |-> "idle"] /\ target = [w \in Workers |-> Nobody]
    /\ halt = "no"

-----------------------------------------------------------------------------
\* Locks

MutManagerFree == TRUE
ManagerFree == mlock = Nobody
MutCellFree(g) == rlock[g] = {} \* Lock(false) for the write
CellFree(g) == wlock[g] = Nobody /\ rlock[g] = {}
LockCell(c) == CellFree(Cell(c)) /\ wlock' = [wlock EXCEPT ![Cell(c)] = c]
UnlockCell(c) == wlock' = [wlock EXCEPT ![Cell(c)] = Nobody]

-----------------------------------------------------------------------------
\* connectionReadProcessing: NewConnection, the back channel, RemoveConnection

ReaderGoto(c, from, to) ==
    /\ reader[c] = from
    /\ reader' = [reader EXCEPT ![c] = to]

\* Lock, and the value and the total that follow.
NewConnection(c) ==
    /\ ManagerFree
    /\ ReaderGoto(c, "none", "count")
    /\ mlock' = c
    /\ id' = [id EXCEPT ![c] = index + 1]
    /\ num' = [num EXCEPT ![c] = total + 1]
    /\ UNCHANGED <<index, total, cells, storage, writer, halt>>

\* The counters, the cell of the group, and Unlock.
Count(c) ==
    /\ ReaderGoto(c, "count", "create")
    /\ index' = id[c] /\ total' = num[c]
    /\ cells' = cells \cup {Cell(c)}
    /\ mlock' = Nobody
    /\ UNCHANGED <<storage, id, num, writer, halt>>

\* create: the map is being written until Created.
Create(c) ==
    /\ ReaderGoto(c, "create", "creating")
    /\ LockCell(c)
    /\ UNCHANGED <<manager, data, rlock, id, num, writer, halt>>

Created(c) ==
    /\ ReaderGoto(c, "creating", "serve")
    /\ data' = [data EXCEPT ![Cell(c)] = @ \cup {id[c]}]
    /\ UnlockCell(c)
    /\ UNCHANGED <<manager, rlock, id, num, writer, halt>>

\* AppendBackChannel, after a first command: outChannels[index] for an index from 1,
\* where the slice has the places 0 to GroupCount - 1.
AppendBackChannel(c) ==
    /\ reader[c] = "serve" /\ writer[c] = "none" /\ Cell(c) < GroupCount
    /\ writer' = [writer EXCEPT ![c] = "idle"]
    /\ UNCHANGED <<manager, storage, conn, halt>>

\* The client left; the ClientInGroup of the cleanup.
LookAtGroup(c) ==
    /\ ReaderGoto(c, "serve", "looked")
    /\ wlock[Cell(c)] = Nobody
    /\ UNCHANGED <<manager, storage, id, num, writer, halt>>

RemoveBackChannel(c) ==
    /\ Cell(c) < GroupCount
    /\ ReaderGoto(c, "looked", "remove")
    /\ UNCHANGED <<manager, storage, id, num, writer, halt>>

\* The same index in AppendBackChannel and in RemoveBackChannel.
IndexOutOfRange(c) ==
    /\ reader[c] = "looked" \/ (reader[c] = "serve" /\ writer[c] = "none")
    /\ Cell(c) >= GroupCount
    /\ Panic("index out of range")
    /\ UNCHANGED <<manager, storage, conn, writer>>

\* RemoveConnection: the map is being written until Removed.
Remove(c) ==
    /\ ReaderGoto(c, "remove", "removing")
    /\ LockCell(c)
    /\ UNCHANGED <<manager, data, rlock, id, num, writer, halt>>

MutDataWithout(c) == data \* return without the delete
DataWithout(c) == [data EXCEPT ![Cell(c)] = @ \ {id[c]}]
Removed(c) ==
    /\ ReaderGoto(c, "removing", "gone")
    /\ data' = DataWithout(c)
    /\ UnlockCell(c)
    /\ UNCHANGED <<manager, rlock, id, num, writer, halt>>

-----------------------------------------------------------------------------
\* connectionWriteProcessing: UpdateState

WriterGoto(c, from, to) ==
    /\ writer[c] = from
    /\ writer' = [writer EXCEPT ![c] = to]

\* CheckStorageExists; nothing is updated without a cell.
CheckStorage(c) ==
    /\ ManagerFree /\ Cell(c) \in cells
    /\ WriterGoto(c, "idle", "lock")
    /\ UNCHANGED <<manager, storage, conn, halt>>

\* Lock of the manager, not of the cell whose map is looked up until Update.
UpdateState(c) ==
    /\ ManagerFree
    /\ WriterGoto(c, "lock", "lookup")
    /\ mlock' = c
    /\ UNCHANGED <<index, total, cells, storage, conn, halt>>

Update(c) ==
    /\ WriterGoto(c, "lookup", "idle")
    /\ id[c] \in data[Cell(c)]
    /\ mlock' = Nobody
    /\ UNCHANGED <<index, total, cells, storage, conn, halt>>

\* A lookup without a result, or while the map is being written.
UpdatePanic(c) ==
    /\ writer[c] = "lookup"
    /\ \/ id[c] \notin data[Cell(c)] /\ Panic("nil state record")
       \/ wlock[Cell(c)] # Nobody /\ Panic("concurrent map access")
    /\ UNCHANGED <<manager, storage, conn, writer>>

ConnStep(c) ==
    /\ \/ NewConnection(c) \/ Count(c) \/ Create(c) \/ Created(c) \/ AppendBackChannel(c)
       \/ LookAtGroup(c) \/ RemoveBackChannel(c) \/ IndexOutOfRange(c) \/ Remove(c) \/ Removed(c)
       \/ CheckStorage(c) \/ UpdateState(c) \/ Update(c) \/ UpdatePanic(c)
    /\ UNCHANGED <<worker, target>>

-----------------------------------------------------------------------------
\* worker: IsAuth, ClientInGroup and ClientBusy, for any connection whose cid is known

Known(c) == reader[c] \notin {"none", "count", "create", "creating"}

\* IsAuth and ClientInGroup do not ask whether there is a cell.
IsAuth(w, c) ==
    /\ worker[w] = "idle" /\ Known(c) /\ wlock[Cell(c)] = Nobody
    /\ worker' = [worker EXCEPT ![w] = "auth"]
    /\ target' = [target EXCEPT ![w] = c]
    /\ rlock' = [rlock EXCEPT ![Cell(c)] = @ \cup {w}]
    /\ UNCHANGED <<data, wlock, halt>>

\* CheckStorageExists of ClientBusy.
ClientBusy(w, c) ==
    /\ worker[w] = "idle" /\ Known(c) /\ ManagerFree /\ Cell(c) \in cells
    /\ worker' = [worker EXCEPT ![w] = "check"]
    /\ target' = [target EXCEPT ![w] = c]
    /\ UNCHANGED <<storage, halt>>

IsBusy(w) ==
    LET g == Cell(target[w]) IN
    /\ worker[w] = "check" /\ wlock[g] = Nobody
    /\ worker' = [worker EXCEPT ![w] = "busy"]
    /\ rlock' = [rlock EXCEPT ![g] = @ \cup {w}]
    /\ UNCHANGED <<data, wlock, target, halt>>

\* The record is read, and the lock given back.  A connection without a record is
\* not busy: the call goes on with it.
Looked(w) ==
    LET c == target[w] IN
    /\ worker[w] \in {"auth", "busy"}
    /\ \E next \in {"idle", "call"} :
          /\ worker[w] = "auth" => next = "idle"
          /\ worker[w] = "busy" /\ id[c] \notin data[Cell(c)] => next = "call"
          /\ worker' = [worker EXCEPT ![w] = next]
    /\ target' = [target EXCEPT ![w] = Nobody]
    /\ rlock' = [rlock EXCEPT ![Cell(c)] = @ \ {w}]
    /\ UNCHANGED <<data, wlock, halt>>

CheckFrame == UNCHANGED <<manager, conn, writer>>
CheckStep(w) ==
    /\ (\E c \in Conns : IsAuth(w, c)) \/ IsBusy(w) \/ Looked(w)
    /\ CheckFrame
=============================================================================
