---------------------------- MODULE AsyncStrDict ----------------------------
(***************************************************************************)
(* helpers.AsyncStrDict: a string map cut into parts with a lock each, and *)
(* a counter that spreads new keys over the parts.  Every method of a part *)
(* is one step, done under its lock; the methods of the dictionary are     *)
(* sequences of such steps.  The server keeps the direction and the result *)
(* of its tasks in two of them.                                            *)
(***************************************************************************)
EXTENDS Integers, FiniteSets

CONSTANTS
    Clients,  \* goroutines that use the dictionary
    Keys, Values,
    Parts,    \* asyncDictCountParts
    Writers,  \* who calls Set, SetUnsafe and Delete for each key
    Methods,  \* methods in use, a subset of AllMethods
    MaxCalls, \* bound: calls of each client
    NoValue   \* a nil pointer, a missing entry

AllMethods == {"Set", "SetUnsafe", "Get", "Delete", "Clear", "Size"}

ASSUME DictAssumption ==
    /\ Parts \in Nat \ {0} /\ Parts % 2 = 0
    /\ Writers \in [Keys -> SUBSET Clients]
    /\ Methods \subseteq AllMethods /\ MaxCalls \in Nat
    /\ Keys # {} /\ NoValue \notin Values
    /\ IsFiniteSet(Clients) /\ IsFiniteSet(Keys)

VARIABLES
    pool,   \* content of each part
    seek,   \* the shared counter
    pc,     \* place in the method a client is in, "idle" outside
    key, val, \* its arguments
    i,      \* its loop counter
    at,     \* the local seek of Set, -1 for none
    result, \* what its last Get or Size returned
    calls,  \* calls each client made
    seen,   \* history: values its key had since the call
    alone   \* history: no other client was in a method since the call

locals == <<key, val, i, at>>
vars == <<pool, seek, pc, locals, result, calls, seen, alone>>

Lim == Parts - 1 \* asyncDictCountPartsLim
Mid == Parts \div 2
PartIds == 0..Lim

\* Get and Delete look at Mid, 0, Mid + 1, 1, ...
Probe(n) == IF n % 2 = 0 THEN Mid + n \div 2 ELSE n \div 2

Holds(n, k) == pool[n][k] # NoValue
Copies(k) == {n \in PartIds : Holds(n, k)}

\* What a look at all the parts at once would find.
Value(k) ==
    IF Copies(k) = {} THEN NoValue ELSE pool[CHOOSE n \in Copies(k) : TRUE][k]

Init ==
    /\ pool = [n \in PartIds |-> [k \in Keys |-> NoValue]] /\ seek = 0
    /\ pc = [p \in Clients |-> "idle"]
    /\ key \in [Clients -> {CHOOSE k \in Keys : TRUE}] /\ val = [p \in Clients |-> NoValue]
    /\ i = [p \in Clients |-> 0] /\ at = [p \in Clients |-> -1]
    /\ result = [p \in Clients |-> NoValue] /\ calls = [p \in Clients |-> 0]
    /\ seen = [p \in Clients |-> {}] /\ alone = [p \in Clients |-> FALSE]

Goto(p, from, to) == pc[p] = from /\ pc' = [pc EXCEPT ![p] = to]

\* Call a method, with its loop to start at n.
Call(p, method, place, k, v, n) ==
    /\ method \in Methods /\ calls[p] < MaxCalls
    /\ Goto(p, "idle", place)
    /\ calls' = [calls EXCEPT ![p] = @ + 1]
    /\ key' = [key EXCEPT ![p] = k] /\ val' = [val EXCEPT ![p] = v]
    /\ i' = [i EXCEPT ![p] = n] /\ at' = [at EXCEPT ![p] = -1]
    /\ UNCHANGED <<pool, seek, result>>

CallAny(p) ==
    \/ \E k \in Keys : p \in Writers[k] /\
          \/ Call(p, "Delete", "delete", k, NoValue, 0)
          \/ \E v \in Values : Call(p, "Set", "find", k, v, Lim)
                               \/ Call(p, "SetUnsafe", "load", k, v, 0)
    \/ \E k \in Keys : Call(p, "Get", "get", k, NoValue, 0)
    \/ Call(p, "Clear", "clear", key[p], NoValue, 0)
    \/ Call(p, "Size", "size", key[p], NoValue, 0) \* its sum starts at 0, below

-----------------------------------------------------------------------------
\* Set: the loop over the parts, from the last one down

\* Where the loop goes on, with n as the local seek.
MutFindNext(p, n) == IF i[p] > 1 THEN "find" ELSE IF n < 0 THEN "load" ELSE "store"
FindNext(p, n) == IF i[p] > 0 THEN "find" ELSE IF n < 0 THEN "load" ELSE "store"

MutFind(p) == \* the entry is removed when it is found, to be set again
    /\ Goto(p, "find", FindNext(p, at[p]))
    /\ pool' = [pool EXCEPT ![i[p]][key[p]] = NoValue]
    /\ i' = [i EXCEPT ![p] = @ - 1]
    /\ UNCHANGED <<at, seek, key, val, result, calls>>

\* exist: the part has no such key, or it is the first one that has.
Find(p) ==
    LET found == Holds(i[p], key[p])
        n == IF found THEN i[p] ELSE at[p] IN
    /\ Goto(p, "find", FindNext(p, n))
    /\ found => at[p] < 0
    /\ at' = [at EXCEPT ![p] = n] /\ i' = [i EXCEPT ![p] = @ - 1]
    /\ UNCHANGED <<pool, seek, key, val, result, calls>>

\* A second part has it ...
FindAgain(p) ==
    /\ Goto(p, "find", "dedup")
    /\ Holds(i[p], key[p]) /\ at[p] >= 0
    /\ UNCHANGED <<pool, seek, locals, result, calls>>

\* ... so the key is deleted from the first.
MutDedup(p) == \* without the delete
    /\ Goto(p, "dedup", FindNext(p, i[p]))
    /\ at' = [at EXCEPT ![p] = i[p]] /\ i' = [i EXCEPT ![p] = @ - 1]
    /\ UNCHANGED <<pool, seek, key, val, result, calls>>

Dedup(p) ==
    /\ Goto(p, "dedup", FindNext(p, i[p]))
    /\ pool' = [pool EXCEPT ![at[p]][key[p]] = NoValue]
    /\ at' = [at EXCEPT ![p] = i[p]] /\ i' = [i EXCEPT ![p] = @ - 1]
    /\ UNCHANGED <<seek, key, val, result, calls>>

\* getSeek: an atomic load ...
MutLoad(p) == \* the limit is tested with > instead of >=
    /\ Goto(p, "load", IF seek > Lim THEN "reset" ELSE "bump")
    /\ at' = [at EXCEPT ![p] = IF seek > Lim THEN Lim ELSE seek]
    /\ UNCHANGED <<pool, seek, key, val, i, result, calls>>

MutLoadPast(p) == \* the counter is returned as it is
    /\ Goto(p, "load", IF seek >= Lim THEN "reset" ELSE "bump")
    /\ at' = [at EXCEPT ![p] = seek]
    /\ UNCHANGED <<pool, seek, key, val, i, result, calls>>

Load(p) ==
    /\ Goto(p, "load", IF seek >= Lim THEN "reset" ELSE "bump")
    /\ at' = [at EXCEPT ![p] = IF seek >= Lim THEN Lim ELSE seek]
    /\ UNCHANGED <<pool, seek, key, val, i, result, calls>>

\* ... then an atomic store or add, whatever the counter is by now.
Reset(p) ==
    /\ Goto(p, "reset", "store")
    /\ seek' = 0
    /\ UNCHANGED <<pool, locals, result, calls>>

Bump(p) ==
    /\ Goto(p, "bump", "store")
    /\ seek' = seek + 1
    /\ UNCHANGED <<pool, locals, result, calls>>

Store(p) ==
    /\ Goto(p, "store", "idle")
    /\ pool' = [pool EXCEPT ![at[p]][key[p]] = val[p]]
    /\ UNCHANGED <<seek, locals, result, calls>>

-----------------------------------------------------------------------------
\* Get, Exists (a Get that tells nil from the rest), Delete, Clear and Size

MutProbeNext(p, place) == \* one round too few
    LET found == Holds(Probe(i[p]), key[p]) IN
    /\ Goto(p, place, IF found \/ i[p] >= Lim - 2 THEN "idle" ELSE place)
    /\ i' = [i EXCEPT ![p] = @ + 1]
    /\ UNCHANGED <<seek, key, val, at, calls>>

\* A loop in probe order that goes on as long as the part lacks the key.
ProbeNext(p, place) ==
    LET found == Holds(Probe(i[p]), key[p]) IN
    /\ Goto(p, place, IF found \/ i[p] = Lim THEN "idle" ELSE place)
    /\ i' = [i EXCEPT ![p] = @ + 1]
    /\ UNCHANGED <<seek, key, val, at, calls>>

GetPart(p) ==
    /\ ProbeNext(p, "get")
    /\ result' = IF pc'[p] = "idle" THEN [result EXCEPT ![p] = pool[Probe(i[p])][key[p]]]
                 ELSE result
    /\ UNCHANGED pool

DeletePart(p) ==
    /\ ProbeNext(p, "delete")
    /\ pool' = [pool EXCEPT ![Probe(i[p])][key[p]] = NoValue]
    /\ UNCHANGED result

ClearPart(p) ==
    /\ Goto(p, "clear", IF i[p] = Lim THEN "idle" ELSE "clear")
    /\ pool' = [pool EXCEPT ![i[p]] = [k \in Keys |-> NoValue]]
    /\ i' = [i EXCEPT ![p] = @ + 1]
    /\ UNCHANGED <<seek, key, val, at, result, calls>>

SizePart(p) ==
    LET sum == IF i[p] = 0 THEN 0 ELSE result[p]
        size == Cardinality({k \in Keys : Holds(i[p], k)}) IN
    /\ Goto(p, "size", IF i[p] = Lim THEN "idle" ELSE "size")
    /\ result' = [result EXCEPT ![p] = sum + size]
    /\ i' = [i EXCEPT ![p] = @ + 1]
    /\ UNCHANGED <<pool, seek, key, val, at, calls>>

-----------------------------------------------------------------------------
Step(p) ==
    \/ CallAny(p) \/ Find(p) \/ FindAgain(p) \/ Dedup(p) \/ Load(p) \/ Reset(p) \/ Bump(p)
    \/ Store(p) \/ GetPart(p) \/ DeletePart(p) \/ ClearPart(p) \/ SizePart(p)

\* The history variables: what happens to the key of a client during its call.
History ==
    /\ seen' = [p \in Clients |-> CASE pc'[p] = "idle" -> {}
                                    [] pc[p] = "idle" /\ pc'[p] # "idle" -> {Value(key'[p])}
                                    [] OTHER -> seen[p] \cup {Value(key[p])'}]
    /\ alone' = [p \in Clients |->
          /\ pc[p] = "idle" \/ alone[p]
          /\ pc'[p] # "idle" /\ \A q \in Clients \ {p} : pc'[q] = "idle"]

Done == \A p \in Clients : pc[p] = "idle" /\ calls[p] = MaxCalls

Next == (\E p \in Clients : Step(p) /\ History) \/ (Done /\ UNCHANGED vars)

Spec == Init /\ [][Next]_vars
=============================================================================
