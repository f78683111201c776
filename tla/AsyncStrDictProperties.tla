----------------------- MODULE AsyncStrDictProperties -----------------------
(***************************************************************************)
(* What is expected of AsyncStrDict.                                       *)
(***************************************************************************)
EXTENDS AsyncStrDict

Places == {"idle", "find", "dedup", "load", "reset", "bump", "store", "get", "delete",
           "clear", "size"}

\* A client between its look at the counter and its add.
Bumping == {p \in Clients : pc[p] = "bump"}

\* No part is looked up outside the pool, by a loop that ran past its end or by a
\* counter that several clients pushed over the limit: they read it, and add to
\* it, in two steps.
TypeOK ==
    /\ pool \in [PartIds -> [Keys -> Values \cup {NoValue}]]
    /\ seek \in Nat
    /\ pc \in [Clients -> Places]
    /\ key \in [Clients -> Keys] /\ val \in [Clients -> Values \cup {NoValue}]
    /\ i \in [Clients -> -1..Parts] /\ at \in [Clients -> -1..Lim]
    /\ \A p \in Clients :
          /\ pc[p] \in {"find", "dedup", "get", "delete", "clear", "size"} => i[p] \in PartIds
          /\ pc[p] \in {"dedup", "reset", "bump", "store"} => at[p] \in PartIds

\* The counter passes the limit by less than the number of clients, so it never
\* wraps its 32 bits.
SeekBound == seek \in 0..(Lim + Cardinality(Clients) - 1)

\* A key with a single writer is in one part at most, at any moment, if it is not
\* set without a look for it (SetUnsafe).
OneWriterOneCopy ==
    "SetUnsafe" \notin Methods => \A k \in Keys : Cardinality(Writers[k]) <= 1 => Cardinality(Copies(k)) <= 1

\* However many copies concurrent writers left, a Set that runs alone leaves one,
\* with its value (i is -1 behind the loop of Set, which SetUnsafe has not).
SetHeals ==
    [][\A p \in Clients : pc[p] = "store" /\ pc'[p] = "idle" /\ alone[p] /\ i[p] < 0 =>
          Cardinality(Copies(key[p]))' = 1 /\ Value(key[p])' = val[p]]_vars

\* Without Delete and Clear a key that has a value keeps one, however its writers
\* interleave: of two copies Set removes the one it found first, in the higher
\* part, and nobody removes the one in the lowest part.
NeverVanishes ==
    [][Methods \cap {"Delete", "Clear"} = {} =>
          \A k \in Keys : Copies(k) # {} => Copies(k)' # {}]_vars

OpOf(p) ==
    CASE pc[p] \in {"find", "dedup", "load", "reset", "bump", "store"} -> "set"
      [] pc[p] = "idle" -> "none"
      [] OTHER -> pc[p]

\* Size counts the keys of one part after the other, and a key that its writer deletes
\* and sets again may go to a part that is still to be counted.
M == INSTANCE StrMap WITH map <- [k \in Keys |-> Value(k)], op <- [p \in Clients |-> OpOf(p)],
                          MaxSize <- Parts * Cardinality(Keys)

\* With one writer for each key the dictionary is a map: a Set takes effect at its
\* last step, and a Get that looks at the parts one by one returns a value its
\* key had during the call.
ImplementsStrMap == M!Spec
=============================================================================
