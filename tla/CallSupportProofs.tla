-------------------------- MODULE CallSupportProofs --------------------------
(***************************************************************************)
(* Ids, cells and locks of the connection data, for any numbers of         *)
(* connections and workers and any sizes.  The argument is LockInv: a step *)
(* on the counters, or on the map of a cell, is made by who has the lock.  *)
(* The size of a group follows from the division that finds it, and the    *)
(* task ids from who each of them was made for.                            *)
(***************************************************************************)
EXTENDS CallSupportProperties, SequenceTheorems, FiniteSetTheorems, TLAPS

-----------------------------------------------------------------------------
\* The cell of a number is one of the storage.
LEMMA CellInGroups == ASSUME NEW n \in Nat PROVE Clamped(GroupIndex(n)) \in Groups
<1>1. CASE n <= GroupSize
  BY <1>1, SupportAssumption DEF GroupIndex, Clamped, Groups
<1>2. CASE n > GroupSize
  <2>1. n - 1 \in Nat /\ GroupSize \in Nat \ {0}
    BY <1>2, SupportAssumption
  <2>2. (n - 1) \div GroupSize \in Nat
    BY <2>1, Z3
  <2>3. GroupIndex(n) \in Nat /\ GroupIndex(n) >= 1
    BY <1>2, <2>2, SupportAssumption DEF GroupIndex
  <2> QED BY <2>3, SupportAssumption DEF Clamped, Groups
<1> QED BY <1>1, <1>2, SupportAssumption

LEMMA CellOfConn == ASSUME TypeOK, NEW c \in Conns PROVE Cell(c) \in Groups
<1>1. num[c] \in Nat
  BY DEF TypeOK
<1> QED BY <1>1, CellInGroups DEF Cell

LEMMA InitInv == Init => SupportInv
<1> SUFFICES ASSUME Init PROVE SupportInv
  OBVIOUS
<1> USE DEF Init, SupportInit, TaskInit
<1>1. TypeOK
  BY DEF TypeOK, Groups, ReaderStates, NoCall
<1>2. LockInv /\ IdInv /\ UniqueIds
  BY
     DEF LockInv, ConnLocks, WorkerLocks, CellLocks, IdInv, UniqueIds, Counted, Numbered,
         Groups
<1>3. RecordsOfLiving
  BY DEF RecordsOfLiving, Living, Known, Groups
<1>4. OnlyUpdateRaces
  BY DEF OnlyUpdateRaces, Writing, Reading, Updating
<1> QED BY <1>1, <1>2, <1>3, <1>4 DEF SupportInv

-----------------------------------------------------------------------------
\* Readers and writers of connections.

\* A step that changes no record and takes no connection in or out.
LEMMA RecordsKept ==
    ASSUME RecordsOfLiving, UNCHANGED <<data, id>>, cells \subseteq cells',
           \A d \in Conns : Cell(d)' = Cell(d),
           Living' = Living,
           \A d \in Conns : Known(d)' => Known(d)
    PROVE RecordsOfLiving'
<1>1. \A g \in Groups : {d \in Living : Cell(d) = g}' = {d \in Living : Cell(d) = g}
  BY DEF Living
<1> QED BY <1>1 DEF RecordsOfLiving

\* A panic changes nothing but halt.
LEMMA PanicInv ==
    ASSUME SupportInv, NEW c \in Conns, IndexOutOfRange(c) \/ UpdatePanic(c),
           UNCHANGED <<worker, target, taskVars, asked>>
    PROVE SupportInv'
<1> USE DEF SupportInv
<1>1. /\ UNCHANGED <<index, total, mlock, cells, data, wlock, rlock, reader, id, num, writer,
                     worker, target, counter, call, issued, asked>>
      /\ halt' \in {"index out of range", "nil state record", "concurrent map access"}
      /\ halt' = "concurrent map access" => UpdatePanic(c) /\ wlock[Cell(c)] # Nobody
  BY DEF IndexOutOfRange, UpdatePanic, Panic, manager, storage, conn, taskVars
<1>2. TypeOK' /\ LockInv' /\ IdInv' /\ UniqueIds' /\ RecordsOfLiving'
  <2>1. \A d \in Conns : Cell(d)' = Cell(d) /\ Known(d)' = Known(d)
    BY <1>1 DEF Cell, Known
  <2>2. TypeOK'
    BY <1>1 DEF TypeOK
  <2>3. LockInv'
    BY <1>1 DEF LockInv, ConnLocks, WorkerLocks, CellLocks, Known, Cell
  <2>4. IdInv' /\ UniqueIds'
    BY <1>1, <2>1 DEF IdInv, UniqueIds, Counted, Numbered
  <2>5. RecordsOfLiving'
    BY <1>1, <2>1, RecordsKept DEF Living
  <2> QED BY <2>2, <2>3, <2>4, <2>5
<1>3. OnlyUpdateRaces'
  <2>1. Writing(Cell(c))' = Writing(Cell(c)) /\ Updating' = Updating
    BY <1>1 DEF Writing, Updating, Cell
  <2>2. \A g \in Groups : Writing(g)' = Writing(g) /\ Reading(g)' = Reading(g)
    BY <1>1 DEF Writing, Reading, Cell
  <2>3. halt' = "concurrent map access" => \E g \in Groups : Writing(g) # {} /\ Updating # {}
    <3> SUFFICES ASSUME halt' = "concurrent map access"
                 PROVE \E g \in Groups : Writing(g) # {} /\ Updating # {}
      OBVIOUS
    <3>1. c \in Updating /\ Cell(c) \in Groups /\ wlock[Cell(c)] # Nobody
      BY <1>1, CellOfConn DEF UpdatePanic, Updating
    <3>2. wlock[Cell(c)] \in Conns
      BY <3>1 DEF TypeOK
    <3>3. wlock[Cell(c)] \in Writing(Cell(c))
      BY <3>1, <3>2 DEF LockInv, CellLocks, Writing
    <3> QED BY <3>1, <3>3
  <2>4. \A g \in Groups' : \A d \in Writing(g)' : Writing(g)' = {d} /\ Reading(g)' = {}
    <3> SUFFICES ASSUME NEW g \in Groups, NEW d \in Writing(g)'
                 PROVE Writing(g)' = {d} /\ Reading(g)' = {}
      BY DEF Groups
    <3>1. d \in Writing(g) /\ Writing(g)' = Writing(g) /\ Reading(g)' = Reading(g)
      BY <2>2
    <3>2. Writing(g) = {d} /\ Reading(g) = {}
      BY <3>1 DEF OnlyUpdateRaces
    <3> QED BY <3>1, <3>2
  <2>5. halt' = "concurrent map access" => \E g \in Groups' : Writing(g)' # {} /\ Updating' # {}
    BY <2>1, <2>2, <2>3 DEF Groups
  <2>6. \A d, e \in Updating' : d = e
    BY <2>1 DEF OnlyUpdateRaces
  <2> QED BY <2>4, <2>5, <2>6 DEF OnlyUpdateRaces
<1> QED BY <1>2, <1>3
\* A step of a reader that has its number.
LEMMA ReaderInv ==
    ASSUME SupportInv, NEW c \in Conns, Count(c) \/ Create(c) \/ Created(c) \/ AppendBackChannel(c)
              \/ LookAtGroup(c) \/ RemoveBackChannel(c) \/ Remove(c) \/ Removed(c), halt = "no",
           UNCHANGED <<worker, target, taskVars, asked>>
    PROVE SupportInv'
<1> USE DEF SupportInv, LockInv
<1>0. \A d \in Conns : Cell(d) \in Groups
  BY CellOfConn
<1>1. CASE Count(c)
  <2>0. \A d \in Conns : Cell(d)' = Cell(d)
    BY <1>1 DEF Count, conn, Cell
  <2>1. TypeOK'
    BY <1>1, <2>0, <1>0
       DEF Count, ReaderGoto, TypeOK, manager, storage, conn, taskVars, ReaderStates
  <2>2. LockInv'
    <3>1. ConnLocks'
      BY <1>1, <2>0, <1>0, SupportAssumption
         DEF Count, ReaderGoto, TypeOK, ConnLocks, manager, storage, conn
    <3>2. WorkerLocks'
      BY <1>1, <2>0, <1>0 DEF Count, ReaderGoto, TypeOK, WorkerLocks, Known, storage, conn
    <3>3. CellLocks'
      BY <1>1, <2>0, <1>0 DEF Count, ReaderGoto, TypeOK, CellLocks, ConnLocks, storage, conn
    <3> QED BY <3>1, <3>2, <3>3 DEF LockInv
  <2>3. IdInv' /\ UniqueIds'
    BY <1>1, <2>0, <1>0
       DEF Count, ReaderGoto, TypeOK, IdInv, ConnLocks, UniqueIds, Counted, Numbered,
           manager, conn
  <2>4. RecordsOfLiving'
    <3>1. UNCHANGED <<data, id>> /\ cells \subseteq cells'
      BY <1>1 DEF Count, manager, storage, conn
    <3>2. Living' = Living /\ \A d \in Conns : Known(d)' => Known(d)
      BY <1>1 DEF Count, ReaderGoto, TypeOK, Living, Known, conn
    <3> QED BY <2>0, <3>1, <3>2, RecordsKept
  <2>5. OnlyUpdateRaces'
    BY <1>1, <2>0, <2>1, <2>2, <1>0
       DEF Count, ReaderGoto, TypeOK, ConnLocks, WorkerLocks, CellLocks, OnlyUpdateRaces,
           Writing, Reading, Updating, manager, storage, conn
  <2> QED BY <2>1, <2>2, <2>3, <2>4, <2>5
<1>2. CASE Create(c)
  <2>0. \A d \in Conns : Cell(d)' = Cell(d)
    BY <1>2 DEF Create, conn, Cell
  <2>1. TypeOK'
    BY <1>2, <2>0, <1>0
       DEF Create, ReaderGoto, LockCell, CellFree, TypeOK, manager, storage, conn,
           taskVars, ReaderStates
  <2>2. LockInv'
    <3>1. ConnLocks'
      BY <1>2, <2>0, <1>0, SupportAssumption
         DEF Create, ReaderGoto, LockCell, CellFree, TypeOK, ConnLocks, manager, storage,
             conn
    <3>2. WorkerLocks'
      BY <1>2, <2>0, <1>0
         DEF Create, ReaderGoto, LockCell, CellFree, TypeOK, WorkerLocks, Known, storage,
             conn
    <3>3. CellLocks'
      BY <1>2, <2>0, <1>0
         DEF Create, ReaderGoto, LockCell, CellFree, TypeOK, CellLocks, ConnLocks, storage,
             conn
    <3> QED BY <3>1, <3>2, <3>3 DEF LockInv
  <2>3. IdInv' /\ UniqueIds'
    BY <1>2, <2>0, <1>0
       DEF Create, ReaderGoto, LockCell, CellFree, TypeOK, IdInv, ConnLocks, UniqueIds,
           Counted, Numbered, manager, conn
  <2>4. RecordsOfLiving'
    <3>1. UNCHANGED <<data, id>> /\ cells \subseteq cells'
      BY <1>2 DEF Create, manager, storage, conn
    <3>2. Living' = Living /\ \A d \in Conns : Known(d)' => Known(d)
      BY <1>2 DEF Create, ReaderGoto, LockCell, CellFree, TypeOK, Living, Known, conn
    <3> QED BY <2>0, <3>1, <3>2, RecordsKept
  <2>5. OnlyUpdateRaces'
    BY <1>2, <2>0, <2>1, <2>2, <1>0
       DEF Create, ReaderGoto, LockCell, CellFree, TypeOK, ConnLocks, WorkerLocks,
           CellLocks, OnlyUpdateRaces, Writing, Reading, Updating, manager, storage, conn
  <2> QED BY <2>1, <2>2, <2>3, <2>4, <2>5
<1>3. CASE Created(c)
  <2>0. \A d \in Conns : Cell(d)' = Cell(d)
    BY <1>3 DEF Created, conn, Cell
  <2>1. TypeOK'
    BY <1>3, <2>0, <1>0
       DEF Created, ReaderGoto, UnlockCell, TypeOK, manager, storage, conn, taskVars,
           ReaderStates
  <2>2. LockInv'
    <3>1. ConnLocks'
      BY <1>3, <2>0, <1>0, SupportAssumption
         DEF Created, ReaderGoto, UnlockCell, TypeOK, ConnLocks, manager, storage, conn
    <3>2. WorkerLocks'
      BY <1>3, <2>0, <1>0
         DEF Created, ReaderGoto, UnlockCell, TypeOK, WorkerLocks, Known, storage, conn
    <3>3. CellLocks'
      BY <1>3, <2>0, <1>0
         DEF Created, ReaderGoto, UnlockCell, TypeOK, CellLocks, ConnLocks, storage, conn
    <3> QED BY <3>1, <3>2, <3>3 DEF LockInv
  <2>3. IdInv' /\ UniqueIds'
    BY <1>3, <2>0, <1>0
       DEF Created, ReaderGoto, UnlockCell, TypeOK, IdInv, ConnLocks, UniqueIds, Counted,
           Numbered, manager, conn
  <2>4. RecordsOfLiving'
    BY <1>3, <2>0, <1>0
       DEF Created, ReaderGoto, UnlockCell, TypeOK, IdInv, Counted, UniqueIds, Numbered,
           RecordsOfLiving, Living, Known, manager, storage, conn
  <2>5. OnlyUpdateRaces'
    BY <1>3, <2>0, <2>1, <2>2, <1>0
       DEF Created, ReaderGoto, UnlockCell, TypeOK, ConnLocks, WorkerLocks, CellLocks,
           OnlyUpdateRaces, Writing, Reading, Updating, manager, storage, conn
  <2> QED BY <2>1, <2>2, <2>3, <2>4, <2>5
<1>4. CASE AppendBackChannel(c)
  <2>0. \A d \in Conns : Cell(d)' = Cell(d)
    BY <1>4 DEF AppendBackChannel, conn, Cell
  <2>1. TypeOK'
    BY <1>4, <2>0, <1>0
       DEF AppendBackChannel, TypeOK, manager, storage, conn, taskVars, ReaderStates
  <2>2. LockInv'
    <3>1. ConnLocks'
      BY <1>4, <2>0, <1>0, SupportAssumption
         DEF AppendBackChannel, TypeOK, ConnLocks, manager, storage, conn
    <3>2. WorkerLocks'
      BY <1>4, <2>0, <1>0 DEF AppendBackChannel, TypeOK, WorkerLocks, Known, storage, conn
    <3>3. CellLocks'
      BY <1>4, <2>0, <1>0 DEF AppendBackChannel, TypeOK, CellLocks, ConnLocks, storage, conn
    <3> QED BY <3>1, <3>2, <3>3 DEF LockInv
  <2>3. IdInv' /\ UniqueIds'
    BY <1>4, <2>0, <1>0
       DEF AppendBackChannel, TypeOK, IdInv, ConnLocks, UniqueIds, Counted, Numbered,
           manager, conn
  <2>4. RecordsOfLiving'
    <3>1. UNCHANGED <<data, id>> /\ cells \subseteq cells'
      BY <1>4 DEF AppendBackChannel, manager, storage, conn
    <3>2. Living' = Living /\ \A d \in Conns : Known(d)' => Known(d)
      BY <1>4 DEF AppendBackChannel, TypeOK, Living, Known, conn
    <3> QED BY <2>0, <3>1, <3>2, RecordsKept
  <2>5. OnlyUpdateRaces'
    BY <1>4, <2>0, <2>1, <2>2, <1>0
       DEF AppendBackChannel, TypeOK, ConnLocks, WorkerLocks, CellLocks, OnlyUpdateRaces,
           Writing, Reading, Updating, manager, storage, conn
  <2> QED BY <2>1, <2>2, <2>3, <2>4, <2>5
<1>5. CASE LookAtGroup(c)
  <2>0. \A d \in Conns : Cell(d)' = Cell(d)
    BY <1>5 DEF LookAtGroup, conn, Cell
  <2>1. TypeOK'
    BY <1>5, <2>0, <1>0
       DEF LookAtGroup, ReaderGoto, TypeOK, manager, storage, conn, taskVars, ReaderStates
  <2>2. LockInv'
    <3>1. ConnLocks'
      BY <1>5, <2>0, <1>0, SupportAssumption
         DEF LookAtGroup, ReaderGoto, TypeOK, ConnLocks, manager, storage, conn
    <3>2. WorkerLocks'
      BY <1>5, <2>0, <1>0
         DEF LookAtGroup, ReaderGoto, TypeOK, WorkerLocks, Known, storage, conn
    <3>3. CellLocks'
      BY <1>5, <2>0, <1>0
         DEF LookAtGroup, ReaderGoto, TypeOK, CellLocks, ConnLocks, storage, conn
    <3> QED BY <3>1, <3>2, <3>3 DEF LockInv
  <2>3. IdInv' /\ UniqueIds'
    BY <1>5, <2>0, <1>0
       DEF LookAtGroup, ReaderGoto, TypeOK, IdInv, ConnLocks, UniqueIds, Counted, Numbered,
           manager, conn
  <2>4. RecordsOfLiving'
    <3>1. UNCHANGED <<data, id>> /\ cells \subseteq cells'
      BY <1>5 DEF LookAtGroup, manager, storage, conn
    <3>2. Living' = Living /\ \A d \in Conns : Known(d)' => Known(d)
      BY <1>5 DEF LookAtGroup, ReaderGoto, TypeOK, Living, Known, conn
    <3> QED BY <2>0, <3>1, <3>2, RecordsKept
  <2>5. OnlyUpdateRaces'
    BY <1>5, <2>0, <2>1, <2>2, <1>0
       DEF LookAtGroup, ReaderGoto, TypeOK, ConnLocks, WorkerLocks, CellLocks,
           OnlyUpdateRaces, Writing, Reading, Updating, manager, storage, conn
  <2> QED BY <2>1, <2>2, <2>3, <2>4, <2>5
<1>6. CASE RemoveBackChannel(c)
  <2>0. \A d \in Conns : Cell(d)' = Cell(d)
    BY <1>6 DEF RemoveBackChannel, conn, Cell
  <2>1. TypeOK'
    BY <1>6, <2>0, <1>0
       DEF RemoveBackChannel, ReaderGoto, TypeOK, manager, storage, conn, taskVars,
           ReaderStates
  <2>2. LockInv'
    <3>1. ConnLocks'
      BY <1>6, <2>0, <1>0, SupportAssumption
         DEF RemoveBackChannel, ReaderGoto, TypeOK, ConnLocks, manager, storage, conn
    <3>2. WorkerLocks'
      BY <1>6, <2>0, <1>0
         DEF RemoveBackChannel, ReaderGoto, TypeOK, WorkerLocks, Known, storage, conn
    <3>3. CellLocks'
      BY <1>6, <2>0, <1>0
         DEF RemoveBackChannel, ReaderGoto, TypeOK, CellLocks, ConnLocks, storage, conn
    <3> QED BY <3>1, <3>2, <3>3 DEF LockInv
  <2>3. IdInv' /\ UniqueIds'
    BY <1>6, <2>0, <1>0
       DEF RemoveBackChannel, ReaderGoto, TypeOK, IdInv, ConnLocks, UniqueIds, Counted,
           Numbered, manager, conn
  <2>4. RecordsOfLiving'
    <3>1. UNCHANGED <<data, id>> /\ cells \subseteq cells'
      BY <1>6 DEF RemoveBackChannel, manager, storage, conn
    <3>2. Living' = Living /\ \A d \in Conns : Known(d)' => Known(d)
      BY <1>6 DEF RemoveBackChannel, ReaderGoto, TypeOK, Living, Known, conn
    <3> QED BY <2>0, <3>1, <3>2, RecordsKept
  <2>5. OnlyUpdateRaces'
    BY <1>6, <2>0, <2>1, <2>2, <1>0
       DEF RemoveBackChannel, ReaderGoto, TypeOK, ConnLocks, WorkerLocks, CellLocks,
           OnlyUpdateRaces, Writing, Reading, Updating, manager, storage, conn
  <2> QED BY <2>1, <2>2, <2>3, <2>4, <2>5
<1>7. CASE Remove(c)
  <2>0. \A d \in Conns : Cell(d)' = Cell(d)
    BY <1>7 DEF Remove, conn, Cell
  <2>1. TypeOK'
    BY <1>7, <2>0, <1>0
       DEF Remove, ReaderGoto, LockCell, CellFree, TypeOK, manager, storage, conn,
           taskVars, ReaderStates
  <2>2. LockInv'
    <3>1. ConnLocks'
      BY <1>7, <2>0, <1>0, SupportAssumption
         DEF Remove, ReaderGoto, LockCell, CellFree, TypeOK, ConnLocks, manager, storage,
             conn
    <3>2. WorkerLocks'
      BY <1>7, <2>0, <1>0
         DEF Remove, ReaderGoto, LockCell, CellFree, TypeOK, WorkerLocks, Known, storage,
             conn
    <3>3. CellLocks'
      BY <1>7, <2>0, <1>0
         DEF Remove, ReaderGoto, LockCell, CellFree, TypeOK, CellLocks, ConnLocks, storage,
             conn
    <3> QED BY <3>1, <3>2, <3>3 DEF LockInv
  <2>3. IdInv' /\ UniqueIds'
    BY <1>7, <2>0, <1>0
       DEF Remove, ReaderGoto, LockCell, CellFree, TypeOK, IdInv, ConnLocks, UniqueIds,
           Counted, Numbered, manager, conn
  <2>4. RecordsOfLiving'
    <3>1. UNCHANGED <<data, id>> /\ cells \subseteq cells'
      BY <1>7 DEF Remove, manager, storage, conn
    <3>2. Living' = Living /\ \A d \in Conns : Known(d)' => Known(d)
      BY <1>7 DEF Remove, ReaderGoto, LockCell, CellFree, TypeOK, Living, Known, conn
    <3> QED BY <2>0, <3>1, <3>2, RecordsKept
  <2>5. OnlyUpdateRaces'
    BY <1>7, <2>0, <2>1, <2>2, <1>0
       DEF Remove, ReaderGoto, LockCell, CellFree, TypeOK, ConnLocks, WorkerLocks,
           CellLocks, OnlyUpdateRaces, Writing, Reading, Updating, manager, storage, conn
  <2> QED BY <2>1, <2>2, <2>3, <2>4, <2>5
<1>8. CASE Removed(c)
  <2>0. \A d \in Conns : Cell(d)' = Cell(d)
    BY <1>8 DEF Removed, conn, Cell
  <2>1. TypeOK'
    BY <1>8, <2>0, <1>0
       DEF Removed, ReaderGoto, UnlockCell, DataWithout, TypeOK, manager, storage, conn,
           taskVars, ReaderStates
  <2>2. LockInv'
    <3>1. ConnLocks'
      BY <1>8, <2>0, <1>0, SupportAssumption
         DEF Removed, ReaderGoto, UnlockCell, DataWithout, TypeOK, ConnLocks, manager,
             storage, conn
    <3>2. WorkerLocks'
      BY <1>8, <2>0, <1>0
         DEF Removed, ReaderGoto, UnlockCell, DataWithout, TypeOK, WorkerLocks, Known,
             storage, conn
    <3>3. CellLocks'
      BY <1>8, <2>0, <1>0
         DEF Removed, ReaderGoto, UnlockCell, DataWithout, TypeOK, CellLocks, ConnLocks,
             storage, conn
    <3> QED BY <3>1, <3>2, <3>3 DEF LockInv
  <2>3. IdInv' /\ UniqueIds'
    BY <1>8, <2>0, <1>0
       DEF Removed, ReaderGoto, UnlockCell, DataWithout, TypeOK, IdInv, ConnLocks,
           UniqueIds, Counted, Numbered, manager, conn
  <2>4. RecordsOfLiving'
    BY <1>8, <2>0, <1>0
       DEF Removed, ReaderGoto, UnlockCell, DataWithout, TypeOK, IdInv, Counted, UniqueIds,
           Numbered, RecordsOfLiving, Living, Known, manager, storage, conn
  <2>5. OnlyUpdateRaces'
    BY <1>8, <2>0, <2>1, <2>2, <1>0
       DEF Removed, ReaderGoto, UnlockCell, DataWithout, TypeOK, ConnLocks, WorkerLocks,
           CellLocks, OnlyUpdateRaces, Writing, Reading, Updating, manager, storage, conn
  <2> QED BY <2>1, <2>2, <2>3, <2>4, <2>5
<1> QED BY <1>1, <1>2, <1>3, <1>4, <1>5, <1>6, <1>7, <1>8

\* A step of a writer.
LEMMA WriterInv ==
    ASSUME SupportInv, NEW c \in Conns, CheckStorage(c) \/ UpdateState(c) \/ Update(c), halt = "no",
           UNCHANGED <<worker, target, taskVars, asked>>
    PROVE SupportInv'
<1> USE DEF SupportInv, LockInv
<1>0. \A d \in Conns : Cell(d) \in Groups
  BY CellOfConn
<1>1. CASE CheckStorage(c)
  <2>0. \A d \in Conns : Cell(d)' = Cell(d)
    BY <1>1 DEF CheckStorage, conn, Cell
  <2>1. TypeOK'
    BY <1>1, <2>0, <1>0
       DEF CheckStorage, WriterGoto, ManagerFree, TypeOK, manager, storage, conn, taskVars,
           ReaderStates
  <2>2. LockInv'
    <3>1. ConnLocks'
      BY <1>1, <2>0, <1>0, SupportAssumption
         DEF CheckStorage, WriterGoto, ManagerFree, TypeOK, ConnLocks, manager, storage,
             conn
    <3>2. WorkerLocks'
      BY <1>1, <2>0, <1>0
         DEF CheckStorage, WriterGoto, ManagerFree, TypeOK, WorkerLocks, Known, storage,
             conn
    <3>3. CellLocks'
      BY <1>1, <2>0, <1>0
         DEF CheckStorage, WriterGoto, ManagerFree, TypeOK, CellLocks, ConnLocks, storage,
             conn
    <3> QED BY <3>1, <3>2, <3>3 DEF LockInv
  <2>3. IdInv' /\ UniqueIds'
    BY <1>1, <2>0, <1>0
       DEF CheckStorage, WriterGoto, ManagerFree, TypeOK, IdInv, ConnLocks, UniqueIds,
           Counted, Numbered, manager, conn
  <2>4. RecordsOfLiving'
    <3>1. UNCHANGED <<data, id>> /\ cells \subseteq cells'
      BY <1>1 DEF CheckStorage, manager, storage, conn
    <3>2. Living' = Living /\ \A d \in Conns : Known(d)' => Known(d)
      BY <1>1 DEF CheckStorage, WriterGoto, ManagerFree, TypeOK, Living, Known, conn
    <3> QED BY <2>0, <3>1, <3>2, RecordsKept
  <2>5. OnlyUpdateRaces'
    BY <1>1, <2>0, <2>1, <2>2, <1>0
       DEF CheckStorage, WriterGoto, ManagerFree, TypeOK, ConnLocks, WorkerLocks,
           CellLocks, OnlyUpdateRaces, Writing, Reading, Updating, manager, storage, conn
  <2> QED BY <2>1, <2>2, <2>3, <2>4, <2>5
<1>2. CASE UpdateState(c)
  <2>0. \A d \in Conns : Cell(d)' = Cell(d)
    BY <1>2 DEF UpdateState, conn, Cell
  <2>1. TypeOK'
    BY <1>2, <2>0, <1>0
       DEF UpdateState, WriterGoto, ManagerFree, TypeOK, manager, storage, conn, taskVars,
           ReaderStates
  <2>2. LockInv'
    <3>1. ConnLocks'
      BY <1>2, <2>0, <1>0, SupportAssumption
         DEF UpdateState, WriterGoto, ManagerFree, TypeOK, ConnLocks, manager, storage,
             conn
    <3>2. WorkerLocks'
      BY <1>2, <2>0, <1>0
         DEF UpdateState, WriterGoto, ManagerFree, TypeOK, WorkerLocks, Known, storage,
             conn
    <3>3. CellLocks'
      BY <1>2, <2>0, <1>0
         DEF UpdateState, WriterGoto, ManagerFree, TypeOK, CellLocks, ConnLocks, storage,
             conn
    <3> QED BY <3>1, <3>2, <3>3 DEF LockInv
  <2>3. IdInv' /\ UniqueIds'
    BY <1>2, <2>0, <1>0
       DEF UpdateState, WriterGoto, ManagerFree, TypeOK, IdInv, ConnLocks, UniqueIds,
           Counted, Numbered, manager, conn
  <2>4. RecordsOfLiving'
    <3>1. UNCHANGED <<data, id>> /\ cells \subseteq cells'
      BY <1>2 DEF UpdateState, manager, storage, conn
    <3>2. Living' = Living /\ \A d \in Conns : Known(d)' => Known(d)
      BY <1>2 DEF UpdateState, WriterGoto, ManagerFree, TypeOK, Living, Known, conn
    <3> QED BY <2>0, <3>1, <3>2, RecordsKept
  <2>5. OnlyUpdateRaces'
    BY <1>2, <2>0, <2>1, <2>2, <1>0
       DEF UpdateState, WriterGoto, ManagerFree, TypeOK, ConnLocks, WorkerLocks, CellLocks,
           OnlyUpdateRaces, Writing, Reading, Updating, manager, storage, conn
  <2> QED BY <2>1, <2>2, <2>3, <2>4, <2>5
<1>3. CASE Update(c)
  <2>0. \A d \in Conns : Cell(d)' = Cell(d)
    BY <1>3 DEF Update, conn, Cell
  <2>1. TypeOK'
    BY <1>3, <2>0, <1>0
       DEF Update, WriterGoto, TypeOK, manager, storage, conn, taskVars, ReaderStates
  <2>2. LockInv'
    <3>1. ConnLocks'
      BY <1>3, <2>0, <1>0, SupportAssumption
         DEF Update, WriterGoto, TypeOK, ConnLocks, manager, storage, conn
    <3>2. WorkerLocks'
      BY <1>3, <2>0, <1>0 DEF Update, WriterGoto, TypeOK, WorkerLocks, Known, storage, conn
    <3>3. CellLocks'
      BY <1>3, <2>0, <1>0
         DEF Update, WriterGoto, TypeOK, CellLocks, ConnLocks, storage, conn
    <3> QED BY <3>1, <3>2, <3>3 DEF LockInv
  <2>3. IdInv' /\ UniqueIds'
    BY <1>3, <2>0, <1>0
       DEF Update, WriterGoto, TypeOK, IdInv, ConnLocks, UniqueIds, Counted, Numbered,
           manager, conn
  <2>4. RecordsOfLiving'
    <3>1. UNCHANGED <<data, id>> /\ cells \subseteq cells'
      BY <1>3 DEF Update, manager, storage, conn
    <3>2. Living' = Living /\ \A d \in Conns : Known(d)' => Known(d)
      BY <1>3 DEF Update, WriterGoto, TypeOK, Living, Known, conn
    <3> QED BY <2>0, <3>1, <3>2, RecordsKept
  <2>5. OnlyUpdateRaces'
    BY <1>3, <2>0, <2>1, <2>2, <1>0
       DEF Update, WriterGoto, TypeOK, ConnLocks, WorkerLocks, CellLocks, OnlyUpdateRaces,
           Writing, Reading, Updating, manager, storage, conn
  <2> QED BY <2>1, <2>2, <2>3, <2>4, <2>5
<1> QED BY <1>1, <1>2, <1>3

\* A new number is larger than all others, as nobody else is between the lock and Count.
LEMMA NewConnectionInv ==
    ASSUME SupportInv, NEW c \in Conns, NewConnection(c), halt = "no",
           UNCHANGED <<worker, target, taskVars, asked>>
    PROVE SupportInv'
<1> USE DEF SupportInv, LockInv
<1>0. \A d \in Conns : Cell(d) \in Groups
  BY CellOfConn
<1>1. /\ mlock = Nobody /\ mlock' = c /\ reader[c] = "none" /\ reader' = [reader EXCEPT ![c] = "count"]
      /\ id' = [id EXCEPT ![c] = index + 1] /\ num' = [num EXCEPT ![c] = total + 1]
      /\ UNCHANGED <<index, total, cells, data, wlock, rlock, writer, halt, worker, target,
                     counter, call, issued, asked>>
  BY DEF NewConnection, ManagerFree, ReaderGoto, storage, taskVars
<1>2. /\ reader \in [Conns -> ReaderStates] /\ id \in [Conns -> Nat] /\ num \in [Conns -> Nat]
      /\ index \in Nat /\ total \in Nat /\ Nobody \notin Conns
  BY SupportAssumption DEF TypeOK
<1>3. \A d \in Conns \ {c} : Cell(d)' = Cell(d) /\ reader'[d] = reader[d] /\ id'[d] = id[d]
  BY <1>1, <1>2 DEF Cell
<1>4. TypeOK'
  BY <1>1 DEF TypeOK, ReaderStates
<1>5. ConnLocks'
  BY <1>1, <1>2, <1>3 DEF ConnLocks
<1>6. WorkerLocks'
  <2>1. \A w \in Workers : worker[w] \in {"auth", "check", "busy"} =>
            target[w] \in Conns \ {c} /\ Known(target[w])
    BY <1>1 DEF WorkerLocks, Known
  <2> QED BY <1>1, <1>3, <2>1 DEF WorkerLocks, Known
<1>7. CellLocks'
  <2>1. \A g \in Groups : wlock[g] # Nobody => wlock[g] \in Conns \ {c}
    <3>1. \A g \in Groups : wlock[g] \in Conns \cup {Nobody}
      BY DEF TypeOK
    <3>2. \A g \in Groups : wlock[g] # Nobody => wlock[g] # c
      BY <1>1 DEF CellLocks
    <3> QED BY <3>1, <3>2
  <2> QED BY <1>1, <1>3, <2>1 DEF CellLocks
<1>8. IdInv'
  BY <1>1, <1>2, <1>3 DEF IdInv, ConnLocks, Counted, Numbered
<1>9. UniqueIds'
  <2>1. \A d \in Conns \ {c} : Numbered(d) => id[d] <= index
    BY <1>1, <1>2 DEF IdInv, ConnLocks, Counted, Numbered
  <2> QED BY <1>1, <1>2, <1>3, <2>1 DEF UniqueIds, IdInv, Numbered
<1>10. RecordsOfLiving'
  <2>1. Living' = Living /\ c \notin Living
    BY <1>1, <1>2 DEF Living
  <2>2. \A g \in Groups : {d \in Living : Cell(d) = g}' = {d \in Living : Cell(d) = g}
    BY <1>3, <2>1 DEF Living
  <2>3. \A g \in Groups : {id[d] : d \in {e \in Living : Cell(e) = g}}'
                          = {id[d] : d \in {e \in Living : Cell(e) = g}}
    BY <1>3, <2>1, <2>2 DEF Living
  <2> QED BY <1>1, <1>3, <2>3 DEF RecordsOfLiving, Known
<1>11. OnlyUpdateRaces'
  <2>1. \A g \in Groups : Writing(g)' = Writing(g)
    BY <1>1, <1>2, <1>3 DEF Writing
  <2>2. \A g \in Groups : Reading(g)' = Reading(g)
    BY <1>1, <1>3 DEF Reading, WorkerLocks, Known
  <2>3. Updating' = Updating
    BY <1>1 DEF Updating
  <2>4. ASSUME NEW g \in Groups, NEW d \in Writing(g)' PROVE Writing(g)' = {d} /\ Reading(g)' = {}
    <3>1. d \in Writing(g) /\ Writing(g)' = Writing(g) /\ Reading(g)' = Reading(g)
      BY <2>1, <2>2
    <3>2. Writing(g) = {d} /\ Reading(g) = {}
      BY <3>1 DEF OnlyUpdateRaces
    <3> QED BY <3>1, <3>2
  <2>5. (\A d, e \in Updating' : d = e) /\ halt' # "concurrent map access"
    BY <1>1, <2>3 DEF OnlyUpdateRaces
  <2> QED BY <2>4, <2>5 DEF OnlyUpdateRaces, Groups
<1> QED BY <1>4, <1>5, <1>6, <1>7, <1>8, <1>9, <1>10, <1>11

-----------------------------------------------------------------------------
\* Workers.

\* A worker that looks at a connection, or makes a task id, changes nothing of the
\* manager and of its connections.
LEMMA WorkerInv ==
    ASSUME SupportInv, NEW w \in Workers, halt = "no", CheckFrame,
           \/ \E c \in Conns : (IsAuth(w, c) \/ ClientBusy(w, c))
           \/ IsBusy(w) \/ Looked(w),
           asked' \in Nat, UNCHANGED taskVars
    PROVE SupportInv'
<1> USE DEF SupportInv, LockInv
<1>0. \A d \in Conns : Cell(d) \in Groups /\ Cell(d)' = Cell(d)
  BY CellOfConn DEF CheckFrame, conn, Cell
<1>1. /\ UNCHANGED <<index, total, mlock, cells, reader, id, num, writer, data, wlock, halt,
                     counter, call, issued>>
  BY DEF CheckFrame, manager, conn, storage, taskVars, IsAuth, ClientBusy, IsBusy, Looked
<1>2. ConnLocks' /\ IdInv' /\ UniqueIds'
  BY <1>0, <1>1 DEF ConnLocks, IdInv, UniqueIds, Counted, Numbered
<1>3. RecordsOfLiving'
  BY <1>0, <1>1, RecordsKept DEF Living, Known
<1>4. TypeOK' /\ WorkerLocks' /\ CellLocks'
  <2>1. ASSUME NEW c \in Conns, IsAuth(w, c) PROVE TypeOK' /\ WorkerLocks' /\ CellLocks'
    <3>1. TypeOK'
      BY <1>0, <1>1, <2>1 DEF IsAuth, TypeOK
    <3>2. WorkerLocks'
      BY <1>0, <1>1, <2>1 DEF IsAuth, TypeOK, WorkerLocks, Known
    <3>3. CellLocks'
      BY <1>0, <1>1, <2>1 DEF IsAuth, TypeOK, CellLocks
    <3> QED BY <3>1, <3>2, <3>3
  <2>2. ASSUME NEW c \in Conns, ClientBusy(w, c) PROVE TypeOK' /\ WorkerLocks' /\ CellLocks'
    <3>1. TypeOK'
      BY <1>0, <1>1, <2>2 DEF ClientBusy, TypeOK, storage
    <3>2. WorkerLocks'
      BY <1>0, <1>1, <2>2 DEF ClientBusy, TypeOK, WorkerLocks, Known, storage
    <3>3. CellLocks'
      BY <1>0, <1>1, <2>2 DEF ClientBusy, TypeOK, CellLocks, storage
    <3> QED BY <3>1, <3>2, <3>3
  <2>3. CASE IsBusy(w)
    <3>0. target[w] \in Conns /\ Cell(target[w]) \in Groups /\ Known(target[w])
      BY <1>0, <2>3 DEF IsBusy, WorkerLocks
    <3>1. TypeOK'
      BY <1>0, <1>1, <2>3, <3>0 DEF IsBusy, TypeOK
    <3>2. WorkerLocks'
      BY <1>0, <1>1, <2>3, <3>0 DEF IsBusy, TypeOK, WorkerLocks, Known
    <3>3. CellLocks'
      BY <1>0, <1>1, <2>3, <3>0 DEF IsBusy, TypeOK, CellLocks
    <3> QED BY <3>1, <3>2, <3>3
  <2>4. CASE Looked(w)
    <3>0. target[w] \in Conns /\ Cell(target[w]) \in Groups
      BY <1>0, <2>4 DEF Looked, WorkerLocks
    <3>1. TypeOK'
      BY <1>0, <1>1, <2>4, <3>0 DEF Looked, TypeOK
    <3>2. WorkerLocks'
      BY <1>0, <1>1, <2>4, <3>0 DEF Looked, TypeOK, WorkerLocks, Known
    <3>3. CellLocks'
      BY <1>0, <1>1, <2>4, <3>0 DEF Looked, TypeOK, CellLocks
    <3> QED BY <3>1, <3>2, <3>3
  <2> QED BY <2>1, <2>2, <2>3, <2>4
<1>5. OnlyUpdateRaces'
  <2>1. ASSUME NEW g \in Groups, NEW d \in Writing(g)' PROVE Writing(g)' = {d} /\ Reading(g)' = {}
    BY <1>2, <1>4, <2>1, SupportAssumption
       DEF Writing, Reading, ConnLocks, WorkerLocks, CellLocks
  <2>2. (\A d, e \in Updating' : d = e) /\ halt' # "concurrent map access"
    BY <1>1 DEF OnlyUpdateRaces, Updating
  <2> QED BY <2>1, <2>2 DEF OnlyUpdateRaces, Groups
<1> QED BY <1>2, <1>3, <1>4, <1>5

LEMMA TaskInv ==
    ASSUME SupportInv, NEW w \in Workers, CreateTaskId(w), halt = "no" PROVE SupportInv'
<1> USE DEF SupportInv, LockInv
<1>0. \A d \in Conns : Cell(d)' = Cell(d)
  BY DEF CreateTaskId, CheckFrame, conn, Cell
<1>1. /\ UNCHANGED <<index, total, mlock, cells, reader, id, num, writer, data, wlock, rlock, halt,
                     target, asked>>
      /\ worker[w] = "call" /\ worker' \in {worker, [worker EXCEPT ![w] = "idle"]}
  BY DEF CreateTaskId, CheckFrame, manager, conn, storage
<1>2. TypeOK'
  <2>1. counter' \in Nat /\ call' \in [Callers -> [open : BOOLEAN, since : Nat]]
        /\ issued' \in Seq([number : Nat, since : Nat])
    <3>1. CASE Add(w)
      <4>1. Len(issued) \in Nat
        BY LenProperties DEF TypeOK
      <4>2. /\ counter' = counter + 1 /\ UNCHANGED issued
            /\ call' = [call EXCEPT ![w] = [open |-> TRUE, since |-> Len(issued)]]
        BY <3>1 DEF Add, Added
      <4>3. [open |-> TRUE, since |-> Len(issued)] \in [open : BOOLEAN, since : Nat]
        BY <4>1
      <4>4. counter' \in Nat
        BY <4>2 DEF TypeOK
      <4>5. call' \in [Callers -> [open : BOOLEAN, since : Nat]]
        <5>1. call \in [Callers -> [open : BOOLEAN, since : Nat]]
          BY DEF TypeOK
        <5> HIDE DEF SupportInv
        <5> QED BY <4>2, <4>3, <5>1
      <4> QED BY <4>2, <4>4, <4>5 DEF TypeOK
    <3>2. CASE Load(w)
      <4>1. /\ issued' = Append(issued, [number |-> counter, since |-> call[w].since])
            /\ call' = [call EXCEPT ![w] = [open |-> FALSE, since |-> 0]] /\ UNCHANGED counter
        BY <3>2 DEF Load, NoCall
      <4>2. [number |-> counter, since |-> call[w].since] \in [number : Nat, since : Nat]
        BY CallAssumption DEF TypeOK
      <4>3. issued' \in Seq([number : Nat, since : Nat])
        BY <4>1, <4>2, AppendProperties DEF TypeOK
      <4> QED BY <4>1, <4>3 DEF TypeOK
    <3> QED BY <3>1, <3>2 DEF CreateTaskId
  <2> QED BY <1>1, <2>1 DEF TypeOK
<1>3. ConnLocks' /\ IdInv' /\ UniqueIds' /\ CellLocks'
  BY <1>0, <1>1 DEF TypeOK, ConnLocks, IdInv, UniqueIds, CellLocks, Counted, Numbered
<1>4. WorkerLocks'
  BY <1>0, <1>1 DEF WorkerLocks, Known, TypeOK
<1>5. RecordsOfLiving'
  BY <1>0, <1>1, RecordsKept DEF Living, Known
<1>6. OnlyUpdateRaces'
  <2>1. ASSUME NEW g \in Groups, NEW d \in Writing(g)' PROVE Writing(g)' = {d} /\ Reading(g)' = {}
    BY <1>2, <1>3, <1>4, <2>1, SupportAssumption
       DEF Writing, Reading, ConnLocks, WorkerLocks, CellLocks
  <2>2. (\A d, e \in Updating' : d = e) /\ halt' # "concurrent map access"
    BY <1>1 DEF OnlyUpdateRaces, Updating
  <2> QED BY <2>1, <2>2 DEF OnlyUpdateRaces, Groups
<1> QED BY <1>2, <1>3, <1>4, <1>5, <1>6

-----------------------------------------------------------------------------
\* The specification.

LEMMA StepInv == SupportInv /\ [Next]_vars => SupportInv'
<1> SUFFICES ASSUME SupportInv, [Next]_vars PROVE SupportInv'
  OBVIOUS
<1>1. ASSUME halt = "no", NEW c \in Conns, ConnStep(c), UNCHANGED <<taskVars, asked>>
      PROVE SupportInv'
  BY <1>1, NewConnectionInv, ReaderInv, WriterInv, PanicInv DEF ConnStep
<1>2. ASSUME halt = "no", NEW w \in Workers, CheckStep(w), UNCHANGED <<taskVars, asked>>
      PROVE SupportInv'
  <2>1. asked' \in Nat
    BY <1>2 DEF SupportInv, TypeOK
  <2> QED BY <1>2, <2>1, WorkerInv DEF CheckStep
<1>3. ASSUME halt = "no", NEW w \in Workers, NEW c \in Conns, AskBusy(w, c) PROVE SupportInv'
  <2>1. asked' \in Nat
    BY <1>3 DEF AskBusy, SupportInv, TypeOK
  <2> QED BY <1>3, <2>1, WorkerInv DEF AskBusy
<1>4. ASSUME halt = "no", NEW w \in Workers, CreateTaskId(w) PROVE SupportInv'
  BY <1>4, TaskInv
<1>5. CASE UNCHANGED vars
  <2> USE DEF SupportInv
  <2>1. /\ UNCHANGED <<index, total, mlock, cells, data, wlock, rlock, reader, id, num, writer,
                       worker, target, halt, counter, call, issued, asked>>
        /\ \A d \in Conns : Cell(d)' = Cell(d)
    BY <1>5 DEF vars, supportVars, taskVars, manager, storage, conn, Cell
  <2>2. TypeOK' /\ LockInv'
    BY <2>1 DEF TypeOK, LockInv, ConnLocks, WorkerLocks, CellLocks, Known, Cell
  <2>3. IdInv' /\ UniqueIds'
    BY <2>1 DEF IdInv, UniqueIds, Counted, Numbered
  <2>4. RecordsOfLiving'
    BY <2>1, RecordsKept DEF Living, Known
  <2>5. OnlyUpdateRaces'
    BY <2>1 DEF OnlyUpdateRaces, Writing, Reading, Updating, Cell
  <2> QED BY <2>2, <2>3, <2>4, <2>5
<1> QED BY <1>1, <1>2, <1>3, <1>4, <1>5 DEF Next

LEMMA Invariance == Spec => []SupportInv
<1> QED BY InitInv, StepInv, PTL DEF Spec

\* Every reachable state is well typed: the cell of a connection is in the storage.
THEOREM TypeCorrect == Spec => []TypeOK
<1>1. SupportInv => TypeOK
  BY DEF SupportInv
<1> QED BY <1>1, Invariance, PTL

\* No two connections ever have the same id, however their NewConnection overlap.
THEOREM IdsUnique == Spec => []UniqueIds
<1>1. SupportInv => UniqueIds
  BY DEF SupportInv
<1> QED BY <1>1, Invariance, PTL

\* The cells have the records of the connections between create and Remove, no others.
THEOREM RecordsFollow == Spec => []RecordsOfLiving
<1>1. SupportInv => RecordsOfLiving
  BY DEF SupportInv
<1> QED BY <1>1, Invariance, PTL

\* The map of a cell has one writer and no reader beside it, but for UpdateState.
THEOREM MapsGuarded == Spec => []OnlyUpdateRaces
<1>1. SupportInv => OnlyUpdateRaces
  BY DEF SupportInv
<1> QED BY <1>1, Invariance, PTL

-----------------------------------------------------------------------------
\* How many connections a cell gets

LEMMA Division ==
    ASSUME NEW n \in Nat, NEW d \in Nat \ {0}
    PROVE /\ n \div d \in Nat /\ n % d \in 0..(d - 1)
          /\ n = (d * (n \div d)) + (n % d)
OBVIOUS

\* The numbers of a group, but for the last, are GroupSize numbers that follow each other.
LEMMA GroupNumbers ==
    ASSUME NEW n \in Nat \ {0}, Clamped(GroupIndex(n)) < GroupCount
    PROVE GroupIndex(n) = ((n - 1) \div GroupSize) + 1
<1>1. n - 1 \in Nat /\ GroupSize \in Nat \ {0} /\ GroupCount \in Nat
  BY SupportAssumption
<1>2. CASE n <= GroupSize
  <2>1. (n - 1) \div GroupSize = 0
    <3>1. /\ (n - 1) \div GroupSize \in Nat /\ (n - 1) % GroupSize \in 0..(GroupSize - 1)
          /\ n - 1 = (GroupSize * ((n - 1) \div GroupSize)) + ((n - 1) % GroupSize)
      BY <1>1, Division
    <3> DEFINE q == (n - 1) \div GroupSize
               r == (n - 1) % GroupSize
    <3>2. q \in Nat /\ r \in Nat /\ n - 1 = (GroupSize * q) + r /\ n - 1 < GroupSize
      BY <1>1, <1>2, <3>1
    <3> HIDE DEF q, r
    <3>3. q >= 1 => GroupSize * q >= GroupSize
      BY <1>1, <3>2
    <3>4. GroupSize * q \in Nat
      BY <1>1, <3>2
    <3>5. q = 0
      BY <1>1, <3>2, <3>3, <3>4
    <3> QED BY <3>5 DEF q
  <2> QED BY <1>1, <1>2, <2>1 DEF GroupIndex
<1>3. CASE n > GroupSize
  BY <1>1, <1>3 DEF GroupIndex
<1> QED BY <1>1, <1>2, <1>3

\* In the last group are the numbers after those of all the others.
LEMMA LastGroup ==
    ASSUME NEW n \in Nat \ {0}, Clamped(GroupIndex(n)) >= GroupCount
    PROVE n > (GroupCount - 1) * GroupSize
<1>1. n - 1 \in Nat /\ GroupSize \in Nat \ {0} /\ GroupCount \in Nat \ {0}
  BY SupportAssumption
<1>2. CASE n <= GroupSize
  <2>1. GroupCount = 1
    BY <1>1, <1>2 DEF GroupIndex, Clamped
  <2>2. (GroupCount - 1) * GroupSize = 0
    BY <1>1, <2>1
  <2> QED BY <2>2
<1>3. CASE n > GroupSize
  <2>1. /\ (n - 1) \div GroupSize \in Nat /\ (n - 1) % GroupSize \in 0..(GroupSize - 1)
        /\ n - 1 = (GroupSize * ((n - 1) \div GroupSize)) + ((n - 1) % GroupSize)
    BY <1>1, Division
  <2> DEFINE q == (n - 1) \div GroupSize
             r == (n - 1) % GroupSize
  <2>2. /\ q \in Nat /\ r \in Nat /\ n - 1 = (GroupSize * q) + r
    BY <1>1, <2>1
  <2>3. q + 1 >= GroupCount
    <3>1. GroupIndex(n) = q + 1
      BY <1>1, <1>3 DEF GroupIndex
    <3> HIDE DEF q
    <3> QED BY <1>1, <2>2, <3>1 DEF Clamped
  <2> HIDE DEF q, r
  <2>4. PICK k \in Nat : q = (GroupCount - 1) + k
    <3>1. q - (GroupCount - 1) \in Nat /\ q = (GroupCount - 1) + (q - (GroupCount - 1))
      BY <1>1, <2>2, <2>3
    <3> QED BY <3>1
  <2>5. GroupSize * q = ((GroupCount - 1) * GroupSize) + (GroupSize * k)
    BY <1>1, <2>4
  <2>6. GroupSize * k \in Nat /\ (GroupCount - 1) * GroupSize \in Nat
    BY <1>1, <2>4
  <2> QED BY <1>1, <2>2, <2>5, <2>6
<1> QED BY <1>1, <1>2, <1>3

\* The total follows the ids: no two connections have one number in the count.
NumInv ==
    /\ total = index
    /\ \A c \in Conns : num[c] = id[c] /\ (Numbered(c) => id[c] # 0)
    /\ halt = "index out of range" => total > (GroupCount - 1) * GroupSize

LEMMA NumStep == SupportInv /\ NumInv /\ [Next]_vars => NumInv'
<1> SUFFICES ASSUME SupportInv, NumInv, [Next]_vars PROVE NumInv'
  OBVIOUS
<1>1. CASE UNCHANGED <<index, total, id, num, reader, halt>>
  BY <1>1 DEF NumInv, Numbered
<1>2. ASSUME NEW c \in Conns, ConnStep(c), halt = "no" PROVE NumInv'
  <2>1. CASE NewConnection(c)
    <3>1. /\ id' = [id EXCEPT ![c] = index + 1] /\ num' = [num EXCEPT ![c] = total + 1]
          /\ reader' = [reader EXCEPT ![c] = "count"] /\ UNCHANGED <<index, total, halt>>
      BY <2>1 DEF NewConnection, ReaderGoto
    <3>2. index + 1 # 0
      <4>1. index \in Nat
        BY DEF SupportInv, TypeOK
      <4> QED BY <4>1
    <3> QED BY <3>1, <3>2 DEF NumInv, Numbered, SupportInv, TypeOK
  <2>2. CASE Count(c)
    <3>1. /\ index' = id[c] /\ total' = num[c] /\ UNCHANGED <<id, num, halt>>
          /\ reader[c] = "count" /\ reader' = [reader EXCEPT ![c] = "create"]
      BY <2>2 DEF Count, ReaderGoto
    <3>2. \A d \in Conns : Numbered(d)' => Numbered(d)
      BY <3>1 DEF Numbered, SupportInv, TypeOK
    <3> QED BY <1>2, <3>1, <3>2 DEF NumInv
  <2>3. CASE IndexOutOfRange(c)
    <3>1. /\ Cell(c) >= GroupCount /\ reader[c] \in {"serve", "looked"}
          /\ UNCHANGED <<index, total, id, num, reader>>
      BY <2>3 DEF IndexOutOfRange, manager, conn
    <3>2. num[c] \in Nat \ {0} /\ num[c] <= total /\ total \in Nat
      BY <3>1 DEF NumInv, Numbered, Counted, SupportInv, IdInv, TypeOK
    <3>3. num[c] > (GroupCount - 1) * GroupSize
      BY <3>1, <3>2, LastGroup DEF Cell
    <3>4. (GroupCount - 1) * GroupSize \in Int
      BY SupportAssumption
    <3>5. total > (GroupCount - 1) * GroupSize
      BY <3>2, <3>3, <3>4
    <3> QED BY <3>1, <3>5 DEF NumInv, Numbered
  <2>4. CASE /\ UNCHANGED <<index, total, id, num>> /\ halt' # "index out of range"
             /\ \A d \in Conns : Numbered(d)' => Numbered(d)
    BY <2>4 DEF NumInv
  <2>5. CASE CheckStorage(c) \/ UpdateState(c) \/ Update(c) \/ UpdatePanic(c) \/ AppendBackChannel(c)
    BY <1>2, <2>4, <2>5 DEF CheckStorage, UpdateState, Update, UpdatePanic, AppendBackChannel,
                            manager, conn, Numbered, Panic
  <2>6. CASE \/ Create(c) \/ Created(c) \/ LookAtGroup(c) \/ RemoveBackChannel(c) \/ Remove(c)
             \/ Removed(c)
    <3>1. /\ UNCHANGED <<index, total, id, num, halt>> /\ Numbered(c)
      BY <2>6 DEF Create, Created, LookAtGroup, RemoveBackChannel, Remove, Removed, ReaderGoto,
                  manager, Numbered
    <3> QED BY <1>2, <2>4, <3>1, <2>6
      DEF Create, Created, LookAtGroup, RemoveBackChannel, Remove, Removed, ReaderGoto, Numbered,
          SupportInv, TypeOK
  <2> QED BY <1>2, <2>1, <2>2, <2>3, <2>5, <2>6 DEF ConnStep
<1>3. ASSUME NEW w \in Workers,
             \/ CheckStep(w) \/ (\E c \in Conns : AskBusy(w, c)) \/ CreateTaskId(w)
      PROVE NumInv'
  BY <1>1, <1>3 DEF CheckStep, IsAuth, IsBusy, Looked, AskBusy, ClientBusy, CreateTaskId, CheckFrame,
                    manager, conn
<1>4. UNCHANGED vars => UNCHANGED <<index, total, id, num, reader, halt>>
  BY DEF vars, supportVars, manager, conn
<1> QED BY <1>1, <1>2, <1>3, <1>4 DEF Next

LEMMA NumInvariant == Spec => [](SupportInv /\ NumInv)
<1>1. Init => NumInv
  BY DEF Init, SupportInit, NumInv, Numbered
<1> QED BY <1>1, InitInv, StepInv, NumStep, PTL DEF Spec

\* The cells of all groups but the last have no more than GroupSize connections, of
\* all that there ever were, and the panic comes with the first in the last group.
THEOREM GroupsBounded == Spec => []GroupsFill
<1>1. SupportInv /\ NumInv => GroupsFill
  <2> SUFFICES ASSUME SupportInv, NumInv PROVE GroupsFill
    OBVIOUS
  <2>1. ASSUME NEW g \in 1..(GroupCount - 1)
        PROVE Cardinality({c \in Conns : Numbered(c) /\ Cell(c) = g}) <= GroupSize
    <3> DEFINE S == {c \in Conns : Numbered(c) /\ Cell(c) = g}
               f == [c \in S |-> (num[c] - 1) % GroupSize]
    <3>1. GroupSize \in Nat \ {0} /\ GroupCount \in Nat /\ g \in Nat /\ g < GroupCount
      BY SupportAssumption
    <3>2. ASSUME NEW c \in S
          PROVE /\ num[c] \in Nat /\ num[c] - 1 \in Nat /\ id[c] = num[c] /\ Numbered(c) /\ c \in Conns
                /\ (num[c] - 1) \div GroupSize = g - 1
      <4>1. num[c] \in Nat \ {0} /\ id[c] = num[c]
        BY DEF NumInv, SupportInv, TypeOK
      <4>2. Clamped(GroupIndex(num[c])) = g
        BY DEF Cell
      <4>3. num[c] - 1 \in Nat /\ (num[c] - 1) \div GroupSize \in Nat
        <5>1. num[c] - 1 \in Nat
          BY <4>1
        <5> QED BY <3>1, <5>1, Division
      <4>4. GroupIndex(num[c]) = ((num[c] - 1) \div GroupSize) + 1
        BY <3>1, <4>1, <4>2, GroupNumbers
      <4>5. GroupIndex(num[c]) = g
        BY <3>1, <4>2, <4>3, <4>4 DEF Clamped
      <4> QED BY <3>1, <4>1, <4>3, <4>4, <4>5
    <3>3. f \in [S -> 0..(GroupSize - 1)]
      BY <3>1, <3>2, Division
    <3>4. ASSUME NEW c \in S, NEW d \in S, f[c] = f[d] PROVE c = d
      <4>1. /\ num[c] - 1 = (GroupSize * (g - 1)) + ((num[c] - 1) % GroupSize)
            /\ num[d] - 1 = (GroupSize * (g - 1)) + ((num[d] - 1) % GroupSize)
        BY <3>1, <3>2, Division
      <4>2. num[c] - 1 = num[d] - 1
        BY <3>4, <4>1
      <4>3. id[c] = id[d]
        BY <3>2, <4>2
      <4> QED BY <3>2, <4>3 DEF SupportInv, UniqueIds
    <3> HIDE DEF f, S
    <3>5. f \in Injection(S, 0..(GroupSize - 1))
      BY <3>3, <3>4 DEF Injection, IsInjective
    <3>6. IsFiniteSet(0..(GroupSize - 1)) /\ Cardinality(0..(GroupSize - 1)) = GroupSize
      BY <3>1, FS_Interval
    <3>7. Cardinality(S) <= GroupSize
      BY <3>5, <3>6, FS_Injection
    <3> QED BY <3>7 DEF S
  <2> QED BY <2>1 DEF GroupsFill, NumInv
<1> QED BY <1>1, NumInvariant, PTL

-----------------------------------------------------------------------------
\* Task ids

\* Numbers only grow: past those that had returned before a call began, and past
\* those of the worker itself.
ReturnedBefore ==
    /\ \A n \in DOMAIN issued : issued[n].number <= counter /\ issued[n].since < n
    /\ \A m, n \in DOMAIN issued : Before(m, n) => issued[m].number < issued[n].number
    /\ \A w \in Workers : call[w].open =>
          /\ call[w].since <= Len(issued)
          /\ \A m \in DOMAIN issued : m <= call[w].since => issued[m].number < counter

\* The ids are those of these workers.
IssuedTo(who) ==
    /\ \A m, n \in DOMAIN issued :
          m < n /\ who[m] = who[n] => issued[m].number < issued[n].number
    /\ \A w \in Workers : \A n \in DOMAIN issued :
          call[w].open /\ who[n] = w => issued[n].number < counter

IssuedInv == ReturnedBefore /\ \E who \in [DOMAIN issued -> Workers] : IssuedTo(who)

\* The types that the steps of the generator need.
LEMMA IssuedTypes ==
    ASSUME TypeOK
    PROVE /\ counter \in Nat /\ Len(issued) \in Nat /\ DOMAIN issued = 1..Len(issued)
          /\ issued \in Seq([number : Nat, since : Nat])
          /\ \A n \in DOMAIN issued : issued[n].number \in Nat /\ issued[n].since \in Nat
          /\ call \in [Workers -> [open : BOOLEAN, since : Nat]]
<1>1. issued \in Seq([number : Nat, since : Nat]) /\ counter \in Nat
      /\ call \in [Workers -> [open : BOOLEAN, since : Nat]]
  BY CallAssumption DEF TypeOK
<1>2. Len(issued) \in Nat /\ DOMAIN issued = 1..Len(issued)
  BY <1>1, LenProperties
<1>3. \A n \in DOMAIN issued : issued[n] \in [number : Nat, since : Nat]
  BY <1>1, <1>2, ElementOfSeq
<1> QED BY <1>1, <1>2, <1>3

LEMMA IssuedAdd ==
    ASSUME TypeOK, IssuedInv, NEW w \in Workers, Add(w) PROVE IssuedInv'
<1>1. /\ counter' = counter + 1 /\ issued' = issued
      /\ call' = [call EXCEPT ![w] = [open |-> TRUE, since |-> Len(issued)]]
  BY DEF Add, Added
<1>2. /\ call'[w].since = Len(issued) /\ \A v \in Workers : v # w => call'[v] = call[v]
      /\ \A n \in DOMAIN issued : issued[n].number < counter' /\ issued[n].number <= counter'
  BY <1>1, IssuedTypes DEF IssuedInv, ReturnedBefore
<1>3. ReturnedBefore'
  BY <1>1, <1>2, IssuedTypes DEF IssuedInv, ReturnedBefore, Before
<1>4. \A who \in [DOMAIN issued -> Workers] : IssuedTo(who) => IssuedTo(who)'
  BY <1>1, <1>2 DEF IssuedTo
<1> QED BY <1>1, <1>3, <1>4 DEF IssuedInv

LEMMA IssuedLoad ==
    ASSUME TypeOK, IssuedInv, NEW w \in Workers, Load(w) PROVE IssuedInv'
<1> DEFINE i == [number |-> counter, since |-> call[w].since]
           k == Len(issued) + 1
<1>1. /\ call[w].open /\ issued' = Append(issued, i) /\ counter' = counter
      /\ call' = [call EXCEPT ![w] = [open |-> FALSE, since |-> 0]]
  BY DEF Load, NoCall
<1>2. /\ i \in [number : Nat, since : Nat] /\ call[w].since \in Nat
  BY IssuedTypes
<1>3. /\ k \in Nat /\ DOMAIN issued' = 1..k /\ Len(issued') = k /\ issued'[k] = i
      /\ \A n \in DOMAIN issued : n \in DOMAIN issued' /\ issued'[n] = issued[n] /\ n < k
      /\ \A n \in DOMAIN issued' : n \in DOMAIN issued \/ n = k
  BY <1>1, <1>2, IssuedTypes, AppendProperties, LenProperties
<1>4. i.number = counter /\ i.since = call[w].since /\ i.since < k
  BY <1>1, <1>3, IssuedTypes DEF IssuedInv, ReturnedBefore
<1>5. ~call'[w].open /\ \A v \in Workers : v # w => call'[v] = call[v]
  BY <1>1, IssuedTypes
<1> HIDE DEF i
<1>6. ReturnedBefore'
  <2>1. \A n \in DOMAIN issued' : issued'[n].number <= counter' /\ issued'[n].since < n
    BY <1>1, <1>3, <1>4, IssuedTypes DEF IssuedInv, ReturnedBefore
  <2>2. ASSUME NEW m \in DOMAIN issued', NEW n \in DOMAIN issued', m <= issued'[n].since
        PROVE issued'[m].number < issued'[n].number
    <3>1. m # k
      BY <1>3, <1>4, <2>1, <2>2, IssuedTypes
    <3>2. m \in DOMAIN issued /\ issued'[m] = issued[m]
      BY <1>3, <3>1
    <3>3. CASE n = k
      BY <1>1, <1>3, <1>4, <2>2, <3>2, <3>3 DEF IssuedInv, ReturnedBefore
    <3>4. CASE n \in DOMAIN issued
      BY <1>3, <2>2, <3>2, <3>4 DEF IssuedInv, ReturnedBefore, Before
    <3> QED BY <1>3, <3>3, <3>4
  <2>3. ASSUME NEW v \in Workers, call'[v].open
        PROVE /\ call'[v].since <= Len(issued')
              /\ \A m \in DOMAIN issued' : m <= call'[v].since => issued'[m].number < counter'
    <3>1. v # w /\ call'[v] = call[v]
      BY <1>5, <2>3
    <3>2. call[v].since <= Len(issued) /\ call[v].since \in Nat
      BY <2>3, <3>1, IssuedTypes DEF IssuedInv, ReturnedBefore
    <3>3. \A m \in DOMAIN issued' : m <= call[v].since => m \in DOMAIN issued
      BY <1>3, <3>2, IssuedTypes
    <3> QED BY <1>1, <1>3, <2>3, <3>1, <3>2, <3>3, IssuedTypes DEF IssuedInv, ReturnedBefore
  <2> QED BY <2>1, <2>2, <2>3 DEF ReturnedBefore, Before
<1>7. PICK who \in [DOMAIN issued -> Workers] : IssuedTo(who)
  BY DEF IssuedInv
<1> DEFINE whom == [n \in DOMAIN issued' |-> IF n = k THEN w ELSE who[n]]
<1>8. /\ whom \in [DOMAIN issued' -> Workers] /\ whom[k] = w
      /\ \A n \in DOMAIN issued : whom[n] = who[n]
  BY <1>3, <1>7, IssuedTypes
<1> HIDE DEF whom
<1>9. ASSUME NEW m \in DOMAIN issued', NEW n \in DOMAIN issued', m < n, whom[m] = whom[n]
      PROVE issued'[m].number < issued'[n].number
  <2>1. m \in DOMAIN issued /\ issued'[m] = issued[m] /\ whom[m] = who[m]
    BY <1>3, <1>8, <1>9
  <2>2. CASE n = k
    BY <1>1, <1>3, <1>4, <1>7, <1>8, <1>9, <2>1, <2>2 DEF IssuedTo
  <2>3. CASE n \in DOMAIN issued
    BY <1>3, <1>7, <1>8, <1>9, <2>1, <2>3 DEF IssuedTo
  <2> QED BY <1>3, <2>2, <2>3
<1>10. ASSUME NEW v \in Workers, NEW n \in DOMAIN issued', call'[v].open, whom[n] = v
       PROVE issued'[n].number < counter'
  <2>1. v # w /\ call[v].open
    BY <1>5, <1>10
  <2>2. n \in DOMAIN issued /\ issued'[n] = issued[n] /\ who[n] = v
    BY <1>3, <1>8, <1>10, <2>1
  <2> QED BY <1>1, <1>7, <2>1, <2>2 DEF IssuedTo
<1>11. \E f \in [DOMAIN issued' -> Workers] : IssuedTo(f)'
  <2>1. \A f : /\ \A m, n \in DOMAIN issued' :
                    m < n /\ f[m] = f[n] => issued'[m].number < issued'[n].number
               /\ \A v \in Workers : \A n \in DOMAIN issued' :
                    call'[v].open /\ f[n] = v => issued'[n].number < counter'
               => IssuedTo(f)'
    BY DEF IssuedTo
  <2> QED BY <1>8, <1>9, <1>10, <2>1
<1> QED BY <1>6, <1>11 DEF IssuedInv

LEMMA IssuedStep == TypeOK /\ IssuedInv /\ [Next]_vars => IssuedInv'
<1> SUFFICES ASSUME TypeOK, IssuedInv, [Next]_vars PROVE IssuedInv'
  OBVIOUS
<1>1. CASE UNCHANGED taskVars
  <2>1. UNCHANGED <<counter, call, issued>>
    BY <1>1 DEF taskVars
  <2>2. \A who : IssuedTo(who) => IssuedTo(who)'
    BY <2>1 DEF IssuedTo
  <2> QED BY <2>1, <2>2 DEF IssuedInv, ReturnedBefore, Before
<1>2. ASSUME NEW w \in Workers, CreateTaskId(w) PROVE IssuedInv'
  BY <1>2, IssuedAdd, IssuedLoad DEF CreateTaskId
<1> QED BY <1>1, <1>2 DEF Next, AskBusy, vars

LEMMA IssuedInvariant == Spec => [](TypeOK /\ IssuedInv)
<1>1. Init => IssuedInv
  <2> SUFFICES ASSUME Init PROVE IssuedInv
    OBVIOUS
  <2>1. issued = <<>> /\ DOMAIN issued = {} /\ \A w \in Workers : ~call[w].open
    BY CallAssumption DEF Init, TaskInit, NoCall
  <2>2. ReturnedBefore /\ \A who : IssuedTo(who)
    BY <2>1 DEF ReturnedBefore, IssuedTo
  <2>3. [n \in {} |-> Nobody] \in [DOMAIN issued -> Workers]
    BY <2>1
  <2> QED BY <2>2, <2>3 DEF IssuedInv
<1> QED BY <1>1, IssuedStep, TypeCorrect, PTL DEF Spec

\* A call that begins after another returned has the larger number, and calls with one
\* number are of different workers, however adds and loads interleave.
THEOREM TaskNumbersApart == Spec => []TaskIdsApart
<1>1. TypeOK /\ IssuedInv => TaskIdsApart
  <2> SUFFICES ASSUME TypeOK, IssuedInv PROVE TaskIdsApart
    OBVIOUS
  <2>1. PICK who \in [DOMAIN issued -> Workers] : IssuedTo(who)
    BY DEF IssuedInv
  <2>2. ASSUME NEW n \in DOMAIN issued
        PROVE Cardinality({k \in DOMAIN issued : issued[k].number = issued[n].number})
                  <= Cardinality(Workers)
    <3> DEFINE S == {k \in DOMAIN issued : issued[k].number = issued[n].number}
               f == [k \in S |-> who[k]]
    <3>1. f \in [S -> Workers]
      BY <2>1
    <3>2. ASSUME NEW j \in S, NEW k \in S, f[j] = f[k] PROVE j = k
      <4>1. /\ j \in DOMAIN issued /\ k \in DOMAIN issued /\ who[j] = who[k]
            /\ issued[j].number = issued[k].number /\ issued[j].number \in Nat
            /\ j \in Nat /\ k \in Nat
        BY <3>2, IssuedTypes
      <4>2. ~(j < k) /\ ~(k < j)
        BY <2>1, <4>1 DEF IssuedTo
      <4> QED BY <4>1, <4>2
    <3> HIDE DEF f, S
    <3>3. f \in Injection(S, Workers)
      BY <3>1, <3>2 DEF Injection, IsInjective
    <3>4. Cardinality(S) <= Cardinality(Workers)
      BY <3>3, CallAssumption, FS_Injection
    <3> QED BY <3>4 DEF S
  <2> QED BY <2>2 DEF TaskIdsApart, IssuedInv, ReturnedBefore
<1> QED BY <1>1, IssuedInvariant, PTL
=============================================================================
