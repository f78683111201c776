------------------------------- MODULE StrMap -------------------------------
(***************************************************************************)
(* What a string map used by several clients promises: Set and Delete act  *)
(* at one moment of the call, Get returns a value that its key had at some *)
(* moment of the call.                                                     *)
(***************************************************************************)
EXTENDS Naturals

CONSTANTS
    Clients, Keys, Values, Writers, NoValue,
    MaxSize \* what Size returns at most: it may meet a key more than once

VARIABLES
    map,      \* the value of each key, NoValue without one
    op,       \* the method each client is in, "none" outside
    key, val, \* its arguments
    seen,     \* the values its key had since the call
    result    \* what its last Get or Size returned

vars == <<map, op, key, val, seen, result>>

Init ==
    /\ map = [k \in Keys |-> NoValue]
    /\ op = [p \in Clients |-> "none"]
    /\ key \in [Clients -> Keys] /\ val = [p \in Clients |-> NoValue]
    /\ seen = [p \in Clients |-> {}]
    /\ result = [p \in Clients |-> NoValue]

Call(p) ==
    /\ op[p] = "none"
    /\ \E o \in {"set", "delete", "get", "clear", "size"} :
          /\ op' = [op EXCEPT ![p] = o]
          /\ o \in {"set", "delete"} => p \in Writers[key'[p]]
    /\ \E k \in Keys : key' = [key EXCEPT ![p] = k]
    /\ \E v \in Values \cup {NoValue} : val' = [val EXCEPT ![p] = v]
    /\ UNCHANGED <<map, result>>

Return(p, o) ==
    /\ op[p] = o /\ op' = [op EXCEPT ![p] = "none"]
    /\ UNCHANGED <<key, val>>

Set(p) ==
    /\ Return(p, "set")
    /\ map' = [map EXCEPT ![key[p]] = val[p]]
    /\ UNCHANGED result

\* Delete removes the key, or met a moment without it.
Delete(p) ==
    /\ Return(p, "delete")
    /\ \/ map' = [map EXCEPT ![key[p]] = NoValue]
       \/ NoValue \in seen[p] /\ UNCHANGED map
    /\ UNCHANGED result

Get(p) ==
    /\ Return(p, "get")
    /\ \E v \in seen[p] : result' = [result EXCEPT ![p] = v]
    /\ UNCHANGED map

\* Clear and Size are not atomic: they take the keys in any portions.
Clear(p) ==
    /\ op[p] = "clear" /\ (UNCHANGED op \/ op' = [op EXCEPT ![p] = "none"])
    /\ \E gone \in SUBSET Keys :
          map' = [k \in Keys |-> IF k \in gone THEN NoValue ELSE map[k]]
    /\ UNCHANGED <<key, val, result>>

Size(p) ==
    /\ op[p] = "size" /\ (UNCHANGED op \/ op' = [op EXCEPT ![p] = "none"])
    /\ \E n \in 0..MaxSize : result' = [result EXCEPT ![p] = n]
    /\ UNCHANGED <<map, key, val>>

Step(p) == Call(p) \/ Set(p) \/ Delete(p) \/ Get(p) \/ Clear(p) \/ Size(p)

Seen ==
    seen' = [p \in Clients |-> CASE op'[p] = "none" -> {}
                                 [] op[p] = "none" /\ op'[p] # "none" -> {map'[key'[p]]}
                                 [] OTHER -> seen[p] \cup {map'[key[p]]}]

Next == \E p \in Clients : Step(p) /\ Seen

Spec == Init /\ [][Next]_vars
=============================================================================
