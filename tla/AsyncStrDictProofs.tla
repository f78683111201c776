------------------------- MODULE AsyncStrDictProofs -------------------------
(***************************************************************************)
(* Proofs about AsyncStrDict for any numbers of parts, clients and keys.   *)
(***************************************************************************)
EXTENDS AsyncStrDictProperties, FiniteSetTheorems, TLAPS

LEMMA Limits == Lim \in Nat /\ Mid \in Nat /\ Parts = 2 * Mid /\ Lim >= 1 /\ Lim = Parts - 1
  BY DictAssumption DEF Lim, Mid

LEMMA ProbeInPool == ASSUME NEW n \in PartIds PROVE Probe(n) \in PartIds
  BY Limits DEF Probe, PartIds

LEMMA CallTypeOK == ASSUME TypeOK, NEW p \in Clients, CallAny(p) PROVE TypeOK'
<1>1. PICK m \in AllMethods, q \in {"find", "load", "get", "delete", "clear", "size"},
           k \in Keys, v \in Values \cup {NoValue}, n \in {0, Lim} : Call(p, m, q, k, v, n)
  BY DEF CallAny, AllMethods, TypeOK
<1>2. n \in PartIds /\ n \in -1..Parts /\ -1 \in -1..Lim
  BY Limits DEF PartIds
<1> QED BY <1>1, <1>2 DEF TypeOK, Call, Goto, Places

LEMMA SetTypeOK ==
    ASSUME TypeOK, NEW p \in Clients,
           Find(p) \/ FindAgain(p) \/ Dedup(p) \/ Load(p) \/ Reset(p) \/ Bump(p) \/ Store(p)
    PROVE  TypeOK'
<1>0. i[p] \in -1..Parts /\ at[p] \in -1..Lim
  BY DEF TypeOK
<1>1. CASE Find(p)
  <2>1. i[p] \in PartIds /\ i[p] - 1 \in -1..Parts
    BY <1>1, Limits DEF TypeOK, Find, Goto, PartIds
  <2> DEFINE n == IF Holds(i[p], key[p]) THEN i[p] ELSE at[p]
  <2>2. n \in -1..Lim /\ (n >= 0 => n \in PartIds)
    BY <1>0, <2>1, Limits DEF PartIds
  <2>3. i[p] > 0 => i[p] - 1 \in PartIds
    BY <2>1, Limits DEF PartIds
  <2>4. /\ pc' = [pc EXCEPT ![p] = FindNext(p, n)] /\ at' = [at EXCEPT ![p] = n]
        /\ i' = [i EXCEPT ![p] = @ - 1] /\ UNCHANGED <<pool, seek, key, val>>
    BY <1>1 DEF Find, Goto
  <2> HIDE DEF n
  <2> QED BY <2>1, <2>2, <2>3, <2>4 DEF TypeOK, FindNext, Places
<1>2. CASE Dedup(p)
  <2>1. i[p] \in PartIds /\ i[p] - 1 \in -1..Parts /\ i[p] \in -1..Lim /\ ~(i[p] < 0)
        /\ (i[p] > 0 => i[p] - 1 \in PartIds)
    BY <1>2, Limits DEF TypeOK, Dedup, Goto, PartIds
  <2> QED BY <1>2, <2>1 DEF TypeOK, Dedup, Goto, FindNext, Places
<1>3. CASE Load(p)
  <2>1. Lim \in PartIds /\ Lim \in -1..Lim /\ (~(seek >= Lim) => seek \in PartIds /\ seek \in -1..Lim)
    BY Limits DEF TypeOK, PartIds
  <2> QED BY <1>3, <2>1 DEF TypeOK, Load, Goto, Places
<1>4. CASE FindAgain(p) \/ Reset(p) \/ Bump(p) \/ Store(p)
  <2>1. at[p] >= 0 => at[p] \in PartIds
    BY <1>0, Limits DEF PartIds
  <2>2. CASE FindAgain(p)
    BY <2>1, <2>2 DEF TypeOK, FindAgain, Goto, locals, Places
  <2>3. CASE Reset(p)
    BY <2>3 DEF TypeOK, Reset, Goto, locals, Places
  <2>4. CASE Bump(p)
    <3>1. seek + 1 \in Nat
      BY DEF TypeOK
    <3> QED BY <2>4, <3>1 DEF TypeOK, Bump, Goto, locals, Places
  <2>5. CASE Store(p)
    BY <2>5 DEF TypeOK, Store, Goto, locals, Places
  <2> QED BY <1>4, <2>2, <2>3, <2>4, <2>5
<1> QED BY <1>1, <1>2, <1>3, <1>4

LEMMA LoopTypeOK ==
    ASSUME TypeOK, NEW p \in Clients, GetPart(p) \/ DeletePart(p) \/ ClearPart(p) \/ SizePart(p)
    PROVE  TypeOK'
<1>1. PICK q \in {"get", "delete", "clear", "size"} :
          /\ pc[p] = q /\ \/ pc' = [pc EXCEPT ![p] = "idle"]
                          \/ pc' = [pc EXCEPT ![p] = q] /\ i[p] # Lim
          /\ i' = [i EXCEPT ![p] = @ + 1] /\ UNCHANGED <<seek, key, val, at>>
  BY DEF GetPart, DeletePart, ClearPart, SizePart, ProbeNext, Goto
<1>2. pool' \in [PartIds -> [Keys -> Values \cup {NoValue}]]
  BY DEF TypeOK, GetPart, DeletePart, ClearPart, SizePart
<1>3. i[p] \in PartIds /\ i[p] + 1 \in -1..Parts /\ (i[p] # Lim => i[p] + 1 \in PartIds)
  <2>1. i[p] \in 0..Lim
    BY <1>1 DEF TypeOK, PartIds
  <2> QED BY <2>1, Limits DEF PartIds
<1> QED BY <1>1, <1>2, <1>3 DEF TypeOK, Places

\* No part outside the pool is looked up, whatever the clients do.
THEOREM TypeCorrect == Spec => []TypeOK
<1>1. Init => TypeOK
  <2>1. 0 \in -1..Parts /\ -1 \in -1..Lim /\ 0 \in Nat
    BY Limits
  <2> QED BY <2>1, DictAssumption DEF Init, TypeOK, Places
<1>2. TypeOK /\ UNCHANGED vars => TypeOK'
  BY DEF TypeOK, vars, locals
<1>3. TypeOK /\ [Next]_vars => TypeOK'
  BY <1>2, CallTypeOK, SetTypeOK, LoopTypeOK DEF Next, Step
<1> QED BY <1>1, <1>3, PTL DEF Spec

-----------------------------------------------------------------------------
\* Each client that is about to add counts as one more in the counter.
BumpInv == seek + Cardinality(Bumping) <= Lim + Cardinality(Clients) - 1

LEMMA BumpingFinite ==
    ASSUME TypeOK
    PROVE  /\ IsFiniteSet(Bumping) /\ Cardinality(Bumping) \in Nat
           /\ Cardinality(Clients) \in Nat /\ Cardinality(Bumping) <= Cardinality(Clients)
  BY DictAssumption, FS_Subset, FS_CardinalityType DEF Bumping

LEMMA BumpInvStays == ASSUME TypeOK, TypeOK', BumpInv, [Next]_vars PROVE BumpInv'
<1>0. /\ IsFiniteSet(Bumping) /\ Cardinality(Bumping) \in Nat /\ Cardinality(Clients) \in Nat
      /\ IsFiniteSet(Bumping)' /\ Cardinality(Bumping)' \in Nat
      /\ Cardinality(Bumping)' <= Cardinality(Clients) /\ seek \in Nat /\ seek' \in Nat
  BY BumpingFinite, DictAssumption, FS_Subset, FS_CardinalityType DEF TypeOK, Bumping
<1>1. ASSUME NEW p \in Clients, Load(p) PROVE BumpInv'
  <2>1. CASE seek >= Lim
    <3>1. Bumping' = Bumping /\ seek' = seek
      BY <1>1, <2>1 DEF TypeOK, Load, Goto, Bumping
    <3> QED BY <3>1 DEF BumpInv
  <2>2. CASE ~(seek >= Lim)
    <3>1. seek' = seek
      BY <1>1 DEF Load
    <3> QED BY <1>0, <2>2, <3>1, Limits DEF BumpInv
  <2> QED BY <2>1, <2>2
<1>2. ASSUME NEW p \in Clients, Bump(p) PROVE BumpInv'
  <2>1. Bumping' = Bumping \ {p} /\ p \in Bumping /\ seek' = seek + 1
    BY <1>2 DEF TypeOK, Bump, Goto, Bumping
  <2>2. Cardinality(Bumping') = Cardinality(Bumping) - 1
    BY <1>0, <2>1, FS_RemoveElement
  <2> QED BY <1>0, <2>1, <2>2, Limits DEF BumpInv
<1>3. ASSUME NEW p \in Clients, Reset(p) PROVE BumpInv'
  <2>1. seek' = 0
    BY <1>3 DEF Reset
  <2> QED BY <1>0, <2>1, Limits DEF BumpInv
<1>4. ASSUME NEW p \in Clients, Step(p), ~Load(p), ~Bump(p), ~Reset(p) PROVE BumpInv'
  <2>1. UNCHANGED seek /\ \E q \in Places \ {"bump"} : pc[p] # "bump" /\ pc' = [pc EXCEPT ![p] = q]
    BY <1>4 DEF Step, CallAny, Call, Find, FindNext, FindAgain, Dedup, Store, GetPart, DeletePart,
                ProbeNext, ClearPart, SizePart, Goto, locals, Places
  <2>2. Bumping' = Bumping
    BY <2>1 DEF TypeOK, Bumping
  <2> QED BY <2>1, <2>2 DEF BumpInv
<1>5. CASE UNCHANGED vars
  BY <1>5 DEF vars, BumpInv, Bumping
<1> QED BY <1>1, <1>2, <1>3, <1>4, <1>5 DEF Next

\* The shared counter stays below the limit plus the number of clients.
THEOREM SeekBounded == Spec => []SeekBound
<1>1. Init => BumpInv
  <2> SUFFICES ASSUME Init PROVE BumpInv
    OBVIOUS
  <2>1. Bumping = {} /\ seek = 0
    BY DEF Init, Bumping
  <2> QED BY <2>1, FS_EmptySet, FS_CardinalityType, DictAssumption, Limits DEF BumpInv
<1>2. TypeOK /\ TypeOK' /\ BumpInv /\ [Next]_vars => BumpInv'
  BY BumpInvStays
<1>3. TypeOK /\ BumpInv => SeekBound
  BY BumpingFinite, Limits DEF TypeOK, BumpInv, SeekBound
<1> QED BY <1>1, <1>2, <1>3, TypeCorrect, PTL DEF Spec

-----------------------------------------------------------------------------
Setting == {"find", "dedup", "load", "reset", "bump", "store"}

\* A Set that is about to delete a copy has passed, on its way down, a lower part
\* with another one.
DedupInv ==
    \A p \in Clients :
        /\ pc[p] \in Setting => val[p] # NoValue
        /\ pc[p] = "find" => at[p] = -1 \/ at[p] > i[p]
        /\ pc[p] = "dedup" => at[p] > i[p] /\ \E n \in 0..i[p] : Holds(n, key[p])
        /\ pc[p] = "delete" => "Delete" \in Methods
        /\ pc[p] = "clear" => "Clear" \in Methods

OnlySets == Methods \cap {"Delete", "Clear"} = {}

\* No step but a Dedup takes a copy away, and it leaves the lower one.
LEMMA LowerCopyStays ==
    ASSUME TypeOK, DedupInv, OnlySets, NEW p \in Clients, Step(p),
           NEW k \in Keys, NEW n \in PartIds, Holds(n, k)
    PROVE  \E m \in 0..n : Holds(m, k)'
<1>0. n \in 0..n
  BY Limits DEF PartIds
<1>1. CASE Dedup(p)
  <2>1. /\ pool' = [pool EXCEPT ![at[p]][key[p]] = NoValue]
        /\ at[p] > i[p] /\ i[p] \in PartIds /\ at[p] \in PartIds /\ key[p] \in Keys
    BY <1>1 DEF TypeOK, DedupInv, Dedup, Goto
  <2>2. PICK m \in 0..i[p] : Holds(m, key[p])
    BY <1>1 DEF DedupInv, Dedup, Goto
  <2>3. m \in PartIds /\ m # at[p]
    BY <2>1, Limits DEF PartIds
  <2>4. CASE n = at[p] /\ k = key[p]
    <3>1. pool'[m] = pool[m]
      BY <2>1, <2>3 DEF TypeOK
    <3>2. m \in 0..n
      BY <2>1, <2>4, Limits DEF PartIds
    <3> QED BY <2>2, <2>4, <3>1, <3>2 DEF Holds
  <2>5. CASE ~(n = at[p] /\ k = key[p])
    <3>1. pool'[n][k] = pool[n][k]
      BY <2>1, <2>5 DEF TypeOK
    <3> QED BY <1>0, <3>1 DEF Holds
  <2> QED BY <2>4, <2>5
<1>2. CASE Store(p)
  <2>1. pool' = [pool EXCEPT ![at[p]][key[p]] = val[p]] /\ val[p] # NoValue
    BY <1>2 DEF DedupInv, Store, Goto, Setting
  <2>2. pool'[n][k] # NoValue
    BY <2>1 DEF TypeOK, Holds
  <2> QED BY <1>0, <2>2 DEF Holds
<1>3. CASE UNCHANGED pool
  BY <1>0, <1>3 DEF Holds
<1>4. ~DeletePart(p) /\ ~ClearPart(p)
  BY DEF DedupInv, OnlySets, DeletePart, ProbeNext, ClearPart, Goto
<1> QED BY <1>1, <1>2, <1>3, <1>4
    DEF Step, CallAny, Call, Find, FindAgain, Load, Reset, Bump, GetPart, SizePart

LEMMA DedupInvStays ==
    ASSUME TypeOK, DedupInv, OnlySets, NEW p \in Clients, Step(p)
    PROVE  DedupInv'
<1> SUFFICES ASSUME NEW q \in Clients
             PROVE  /\ pc'[q] \in Setting => val'[q] # NoValue
                    /\ pc'[q] = "find" => at'[q] = -1 \/ at'[q] > i'[q]
                    /\ pc'[q] = "dedup" => /\ at'[q] > i'[q]
                                          /\ \E n \in 0..i'[q] : pool'[n][key'[q]] # NoValue
                    /\ pc'[q] = "delete" => "Delete" \in Methods
                    /\ pc'[q] = "clear" => "Clear" \in Methods
  BY DEF DedupInv, Holds
<1>1. ASSUME q # p
      PROVE  UNCHANGED <<pc[q], key[q], val[q], i[q], at[q]>>
  BY <1>1 DEF TypeOK, Step, CallAny, Call, Find, FindAgain, Dedup, Load, Reset, Bump, Store,
     GetPart, DeletePart, ProbeNext, ClearPart, SizePart, Goto, locals
<1>2. CASE q # p
  <2>1. pc[q] = "dedup" => \E n \in 0..i[q] : pool'[n][key[q]] # NoValue
    <3> SUFFICES ASSUME pc[q] = "dedup" PROVE \E n \in 0..i[q] : pool'[n][key[q]] # NoValue
      OBVIOUS
    <3>1. i[q] \in PartIds /\ key[q] \in Keys
      BY DEF TypeOK
    <3>2. PICK n \in 0..i[q] : Holds(n, key[q])
      BY DEF DedupInv
    <3>3. n \in PartIds
      BY <3>1, Limits DEF PartIds
    <3>4. PICK m \in 0..n : pool'[m][key[q]] # NoValue
      BY <3>1, <3>2, <3>3, LowerCopyStays DEF Holds
    <3>5. m \in 0..i[q]
      BY <3>1, Limits DEF PartIds
    <3> QED BY <3>4, <3>5
  <2> QED BY <1>1, <1>2, <2>1 DEF DedupInv
<1>3. CASE q = p /\ CallAny(p)
  <2>1. /\ pc'[p] \in {"find", "load"} => val'[p] # NoValue
        /\ pc'[p] \in {"find", "load", "delete", "get", "clear", "size"} /\ at'[p] = -1
        /\ pc'[p] = "delete" => "Delete" \in Methods
        /\ pc'[p] = "clear" => "Clear" \in Methods
    BY <1>3, DictAssumption DEF TypeOK, CallAny, Call, Goto
  <2> QED BY <1>3, <2>1 DEF Setting
<1>4. CASE q = p /\ Find(p)
  <2>1. /\ pc'[p] \in {"find", "load", "store"} /\ val'[p] = val[p] /\ i'[p] = i[p] - 1
        /\ at'[p] = (IF Holds(i[p], key[p]) THEN i[p] ELSE at[p]) /\ pc[p] = "find"
    BY <1>4 DEF TypeOK, Find, FindNext, Goto
  <2>2. i[p] \in Int /\ at[p] \in Int
    BY Limits DEF TypeOK
  <2> QED BY <1>4, <2>1, <2>2 DEF DedupInv, Setting
<1>5. CASE q = p /\ FindAgain(p)
  <2>1. /\ pc[p] = "find" /\ pc'[p] = "dedup" /\ Holds(i[p], key[p]) /\ at[p] >= 0
        /\ UNCHANGED <<pool, key, val, i, at>>
    BY <1>5 DEF TypeOK, FindAgain, Goto, locals
  <2>2. i[p] \in 0..i[p]
    BY <2>1, Limits DEF TypeOK, PartIds
  <2> QED BY <1>5, <2>1, <2>2 DEF DedupInv, Setting, Holds
<1>6. CASE q = p /\ Dedup(p)
  <2>1. /\ pc[p] = "dedup" /\ pc'[p] \in {"find", "load", "store"} /\ val'[p] = val[p]
        /\ i'[p] = i[p] - 1 /\ at'[p] = i[p]
    BY <1>6 DEF TypeOK, Dedup, FindNext, Goto
  <2>2. i[p] \in Int
    BY Limits DEF TypeOK
  <2> QED BY <1>6, <2>1, <2>2 DEF DedupInv, Setting
<1>7. CASE q = p /\ ~(CallAny(p) \/ Find(p) \/ FindAgain(p) \/ Dedup(p))
  <2>1. /\ pc'[p] \in {"reset", "bump", "store", "idle", "get", "delete", "clear", "size"}
        /\ pc'[p] \in Setting => pc[p] \in Setting
        /\ pc'[p] \in {"delete", "clear"} => pc[p] = pc'[p]
        /\ val'[p] = val[p]
    BY <1>7 DEF TypeOK, Step, Load, Reset, Bump, Store, GetPart, DeletePart, ProbeNext, ClearPart,
       SizePart, Goto, locals, Setting
  <2> QED BY <1>7, <2>1 DEF DedupInv
<1> QED BY <1>2, <1>3, <1>4, <1>5, <1>6, <1>7

\* Where keys are only set, a key that has a value never loses its last copy.
THEOREM KeysStay == Spec => NeverVanishes
<1> DEFINE Stay == Methods \cap {"Delete", "Clear"} = {} =>
                       \A k \in Keys : Copies(k) # {} => Copies(k)' # {}
<1>1. CASE OnlySets
  <2>1. Init => DedupInv
    BY DEF Init, DedupInv, Setting
  <2>2. TypeOK /\ DedupInv /\ [Next]_vars => DedupInv' /\ Stay
    <3> SUFFICES ASSUME TypeOK, DedupInv, [Next]_vars PROVE DedupInv' /\ Stay
      OBVIOUS
    <3>1. ASSUME NEW p \in Clients, Step(p) PROVE DedupInv' /\ Stay
      <4>1. ASSUME NEW k \in Keys, NEW n \in Copies(k) PROVE Copies(k)' # {}
        <5>1. n \in PartIds /\ Holds(n, k)
          BY DEF Copies
        <5>2. PICK m \in 0..n : pool'[m][k] # NoValue
          BY <1>1, <3>1, <5>1, LowerCopyStays DEF Holds
        <5>3. m \in PartIds
          BY <5>1, Limits DEF PartIds
        <5> QED BY <5>2, <5>3 DEF Copies, Holds
      <4> QED BY <1>1, <3>1, <4>1, DedupInvStays
    <3>2. CASE UNCHANGED vars
      BY <3>2 DEF vars, locals, DedupInv, Copies, Holds
    <3> QED BY <3>1, <3>2 DEF Next
  <2> QED BY <2>1, <2>2, TypeCorrect, PTL DEF Spec, NeverVanishes
<1>2. CASE ~OnlySets
  <2>1. Stay
    BY <1>2 DEF OnlySets
  <2> QED BY <2>1, PTL DEF NeverVanishes
<1> QED BY <1>1, <1>2
-----------------------------------------------------------------------------
Sole(k) == \A p, q \in Writers[k] : p = q

\* What the only writer of a key knows in its Set: the key is in no part above the
\* loop counter, or nowhere but in the part it found.
Knows(p, k) ==
    pc[p] \in Setting /\ key[p] = k =>
        /\ p \in Writers[k] /\ pc[p] # "dedup"
        /\ pc[p] = "find" /\ at[p] = -1 => \A n \in Copies(k) : n <= i[p]
        /\ pc[p] = "find" /\ at[p] # -1 => Copies(k) \subseteq {at[p]} /\ at[p] > i[p]
        /\ pc[p] = "load" => Copies(k) = {}
        /\ pc[p] \in {"reset", "bump", "store"} => Copies(k) \subseteq {at[p]}

SoleInv ==
    \A k \in Keys : Sole(k) =>
        (\A m, n \in Copies(k) : m = n) /\ \A p \in Clients : Knows(p, k)

\* A step of another client that adds no copy leaves what is known true.
LEMMA OthersKeepSole ==
    ASSUME SoleInv, NEW k \in Keys, Sole(k), Copies(k)' \subseteq Copies(k),
           NEW q \in Clients, UNCHANGED <<pc[q], key[q], i[q], at[q]>>
    PROVE  Knows(q, k)'
  BY DEF SoleInv, Knows

\* Only a Store adds a copy, of its own key.
LEMMA CopiesShrink ==
    ASSUME TypeOK, NEW p \in Clients, Step(p), NEW k \in Keys, ~(Store(p) /\ key[p] = k)
    PROVE  Copies(k)' \subseteq Copies(k)
<1>1. CASE Store(p)
  BY <1>1 DEF TypeOK, Store, Copies, Holds
<1>2. CASE Dedup(p) \/ DeletePart(p) \/ ClearPart(p)
  BY <1>2 DEF TypeOK, Dedup, DeletePart, ClearPart, Copies, Holds
<1>3. CASE UNCHANGED pool
  BY <1>3 DEF Copies, Holds
<1> QED BY <1>1, <1>2, <1>3
    DEF Step, CallAny, Call, Find, FindAgain, Load, Reset, Bump, GetPart, SizePart

LEMMA SoleInvStays ==
    ASSUME "SetUnsafe" \notin Methods, TypeOK, SoleInv, NEW p \in Clients, Step(p)
    PROVE  SoleInv'
<1> SUFFICES ASSUME NEW k \in Keys, Sole(k)
             PROVE  (\A m, n \in Copies(k)' : m = n) /\ \A q \in Clients : Knows(q, k)'
  BY DEF SoleInv, Sole
<1>0. \A q \in Clients : q # p => UNCHANGED <<pc[q], key[q], i[q], at[q]>>
  BY DEF TypeOK, Step, CallAny, Call, Find, FindAgain, Dedup, Load, Reset, Bump, Store,
     GetPart, DeletePart, ProbeNext, ClearPart, SizePart, Goto, locals
<1>4. i[p] \in Int /\ at[p] \in Int /\ Copies(k) \subseteq 0..Lim /\ Lim \in Nat
  BY Limits DEF TypeOK, Copies, PartIds
<1>1. CASE Store(p) /\ key[p] = k
  <2>1. /\ p \in Writers[k] /\ Copies(k) \subseteq {at[p]} /\ pc'[p] = "idle"
        /\ pool' = [pool EXCEPT ![at[p]][k] = val[p]]
    BY <1>1 DEF SoleInv, Knows, Store, Goto, Setting, TypeOK
  <2>2. Copies(k)' \subseteq {at[p]}
    BY <2>1 DEF TypeOK, Copies, Holds
  <2>3. ASSUME NEW q \in Clients, q # p, key'[q] = k PROVE pc'[q] \notin Setting
    BY <1>0, <2>1, <2>3 DEF SoleInv, Knows, Sole
  <2>4. pc'[p] \notin Setting
    BY <2>1 DEF Setting
  <2> QED BY <2>2, <2>3, <2>4 DEF Knows
<1>2. ASSUME ~(Store(p) /\ key[p] = k) PROVE Knows(p, k)'
  <2>0. Copies(k)' \subseteq Copies(k)
    BY <1>2, CopiesShrink
  <2>1. CASE CallAny(p)
    <3>1. /\ pc'[p] \in Setting => pc'[p] = "find" /\ p \in Writers[key'[p]] /\ i'[p] = Lim
          /\ at'[p] = -1
      BY <2>1 DEF TypeOK, CallAny, Call, Goto, Setting
    <3> QED BY <1>4, <2>0, <3>1 DEF Knows
  <2>2. CASE Find(p)
    <3>1. /\ pc[p] = "find" /\ i'[p] = i[p] - 1 /\ key'[p] = key[p] /\ i[p] \in PartIds
          /\ at'[p] = (IF Holds(i[p], key[p]) THEN i[p] ELSE at[p])
          /\ pc'[p] = FindNext(p, at'[p])
          /\ Holds(i[p], key[p]) => at[p] < 0
      BY <2>2 DEF TypeOK, Find, Goto
    <3> SUFFICES ASSUME key[p] = k
                 PROVE  /\ p \in Writers[k] /\ pc'[p] # "dedup"
                        /\ pc'[p] = "find" /\ at'[p] = -1 => \A n \in Copies(k)' : n <= i'[p]
                        /\ pc'[p] = "find" /\ at'[p] # -1 =>
                              Copies(k)' \subseteq {at'[p]} /\ at'[p] > i'[p]
                        /\ pc'[p] = "load" => Copies(k)' = {}
                        /\ pc'[p] = "store" => Copies(k)' \subseteq {at'[p]}
      BY <3>1 DEF FindNext, Knows
    <3>2. /\ p \in Writers[k]
          /\ at[p] = -1 => \A n \in Copies(k) : n <= i[p]
          /\ at[p] # -1 => Copies(k) \subseteq {at[p]} /\ at[p] > i[p]
          /\ \A m, n \in Copies(k) : m = n
          /\ at[p] >= -1 /\ i[p] >= 0
      BY <3>1, Limits DEF SoleInv, Knows, Setting, TypeOK, PartIds
    <3>3. Holds(i[p], k) <=> i[p] \in Copies(k)
      BY <3>1 DEF Copies
    <3>4. CASE Holds(i[p], k)
      BY <1>4, <2>0, <3>1, <3>2, <3>3, <3>4 DEF FindNext
    <3>5. CASE ~Holds(i[p], k)
      <4>1. at[p] = -1 => \A n \in Copies(k) : n <= i[p] - 1
        BY <1>4, <3>2, <3>3, <3>5
      <4>2. i[p] = 0 /\ at[p] = -1 => Copies(k) = {}
        BY <1>4, <4>1
      <4> QED BY <1>4, <2>0, <3>1, <3>2, <3>5, <4>1, <4>2 DEF FindNext
    <3> QED BY <3>4, <3>5
  <2>3. CASE FindAgain(p)
    <3>1. /\ pc[p] = "find" /\ Holds(i[p], key[p]) /\ at[p] >= 0 /\ key'[p] = key[p]
          /\ i[p] \in PartIds
      BY <2>3 DEF TypeOK, FindAgain, Goto, locals
    <3>2. ASSUME key[p] = k PROVE FALSE
      <4>1. Copies(k) \subseteq {at[p]} /\ at[p] > i[p]
        BY <1>4, <3>1, <3>2 DEF SoleInv, Knows, Setting
      <4>2. i[p] \in Copies(k)
        BY <3>1, <3>2 DEF Copies
      <4> QED BY <1>4, <4>1, <4>2
    <3> QED BY <3>1, <3>2 DEF Knows
  <2>4. CASE Dedup(p)
    <3>1. pc[p] = "dedup" /\ key'[p] = key[p]
      BY <2>4 DEF Dedup, Goto
    <3> QED BY <3>1 DEF SoleInv, Knows, Setting
  <2>5. CASE Load(p)
    <3>1. pc[p] = "load" /\ pc'[p] \in {"reset", "bump"} /\ key'[p] = key[p]
      BY <2>5 DEF TypeOK, Load, Goto
    <3> QED BY <2>0, <3>1 DEF SoleInv, Knows, Setting
  <2>6. CASE Reset(p) \/ Bump(p)
    <3>1. /\ pc[p] \in {"reset", "bump"} /\ pc'[p] = "store"
          /\ key'[p] = key[p] /\ at'[p] = at[p]
      BY <2>6 DEF TypeOK, Reset, Bump, Goto, locals
    <3> QED BY <2>0, <3>1 DEF SoleInv, Knows, Setting
  <2>7. CASE Store(p) \/ GetPart(p) \/ DeletePart(p) \/ ClearPart(p) \/ SizePart(p)
    <3>1. pc'[p] \notin Setting
      BY <2>7 DEF TypeOK, Store, GetPart, DeletePart, ProbeNext, ClearPart, SizePart, Goto, Setting
    <3> QED BY <3>1 DEF Knows
  <2> QED BY <2>1, <2>2, <2>3, <2>4, <2>5, <2>6, <2>7 DEF Step
<1>3. CASE ~(Store(p) /\ key[p] = k)
  <2>1. Copies(k)' \subseteq Copies(k)
    BY <1>3, CopiesShrink
  <2>2. \A m, n \in Copies(k)' : m = n
    BY <2>1 DEF SoleInv, Knows
  <2> QED BY <1>0, <1>2, <1>3, <2>1, <2>2, OthersKeepSole
<1> QED BY <1>1, <1>3

\* A key that one client sets, always with a look for it first, is in one part at most.
THEOREM SoleWriterOneCopy == Spec => []OneWriterOneCopy
<1>1. ASSUME NEW k \in Keys, Cardinality(Writers[k]) <= 1 PROVE Sole(k)
  <2> SUFFICES ASSUME NEW p \in Writers[k], NEW q \in Writers[k], p # q PROVE FALSE
    BY DEF Sole
  <2>1. IsFiniteSet(Writers[k]) /\ Cardinality(Writers[k]) \in Nat
    BY DictAssumption, FS_Subset, FS_CardinalityType
  <2>2. Cardinality({p} \cup {q}) = 2
    <3>1. IsFiniteSet({p}) /\ Cardinality({p}) = 1
      BY FS_Singleton
    <3>2. Cardinality({p} \cup {q}) = Cardinality({p}) + 1
      BY <3>1, FS_AddElement
    <3> QED BY <3>1, <3>2
  <2>3. {p} \cup {q} \in SUBSET Writers[k]
    OBVIOUS
  <2> QED BY <1>1, <2>1, <2>2, <2>3, FS_Subset
<1>2. SoleInv => OneWriterOneCopy
  <2> SUFFICES ASSUME SoleInv, NEW k \in Keys, Cardinality(Writers[k]) <= 1
               PROVE  Cardinality(Copies(k)) <= 1
    BY DEF OneWriterOneCopy
  <2>1. Copies(k) = {} \/ \E n : Copies(k) = {n}
    BY <1>1 DEF SoleInv
  <2>2. Cardinality(Copies(k)) \in {0, 1}
    BY <2>1, FS_EmptySet, FS_Singleton
  <2> QED BY <2>2
<1>3. CASE "SetUnsafe" \notin Methods
  <2>1. Init => SoleInv
    BY DEF Init, SoleInv, Knows, Setting, Copies, Holds
  <2>2. TypeOK /\ SoleInv /\ [Next]_vars => SoleInv'
    <3>1. SoleInv /\ UNCHANGED vars => SoleInv'
      BY DEF vars, locals, SoleInv, Knows, Copies, Holds
    <3> QED BY <1>3, <3>1, SoleInvStays DEF Next
  <2> QED BY <1>2, <2>1, <2>2, TypeCorrect, PTL DEF Spec
<1>4. CASE "SetUnsafe" \in Methods
  <2>1. OneWriterOneCopy
    BY <1>4 DEF OneWriterOneCopy
  <2> QED BY <2>1, PTL
<1> QED BY <1>3, <1>4

-----------------------------------------------------------------------------
\* A Set that runs alone

\* What a Set without company has found on its way down: the key is in a part that the
\* loop has yet to see, or in the one that it remembers.  After SetUnsafe i is 0.
Swept(p) ==
    /\ pc[p] \in {"find", "dedup"} => \A n \in Copies(key[p]) : n <= i[p] \/ n = at[p]
    /\ pc[p] = "load" /\ i[p] < 0 => Copies(key[p]) = {}
    /\ pc[p] \in {"reset", "bump", "store"} /\ i[p] < 0 => Copies(key[p]) \subseteq {at[p]}

HealInv ==
    \A p \in Clients :
        /\ pc[p] \in Setting => val[p] # NoValue
        /\ alone[p] =>
              pc[p] # "idle" /\ Swept(p) /\ \A q \in Clients \ {p} : pc[q] = "idle"

\* Who is alone after a step was so before it, or began its call with it.
LEMMA AloneStep ==
    ASSUME History, NEW q \in Clients, alone'[q]
    PROVE /\ pc[q] = "idle" \/ alone[q]
          /\ pc'[q] # "idle" /\ \A r \in Clients \ {q} : pc'[r] = "idle"
  BY DEF History

\* A step moves one client, and begins with its call.
LEMMA OneMoves ==
    ASSUME TypeOK, NEW p \in Clients, Step(p)
    PROVE /\ pc[p] = "idle" => CallAny(p) /\ pc'[p] # "idle"
          /\ \A q \in Clients \ {p} : UNCHANGED <<pc[q], key[q], val[q], i[q], at[q]>>
<1>1. pc[p] = "idle" => CallAny(p)
  BY DEF Step, Find, FindAgain, Dedup, Load, Reset, Bump, Store, GetPart, DeletePart,
         ProbeNext, ClearPart, SizePart, Goto
<1>2. CallAny(p) => pc'[p] # "idle"
  BY DEF TypeOK, CallAny, Call, Goto
<1>3. \A q \in Clients \ {p} : UNCHANGED <<pc[q], key[q], val[q], i[q], at[q]>>
  BY DEF TypeOK, Step, CallAny, Call, Find, FindAgain, Dedup, Load, Reset, Bump, Store,
     GetPart, DeletePart, ProbeNext, ClearPart, SizePart, Goto, locals
<1> QED BY <1>1, <1>2, <1>3

LEMMA SettingHasValue ==
    ASSUME TypeOK, NEW p \in Clients, Step(p), pc[p] \in Setting => val[p] # NoValue
    PROVE pc'[p] \in Setting => val'[p] # NoValue
<1>1. CASE CallAny(p)
  BY <1>1, DictAssumption DEF TypeOK, CallAny, Call, Goto, Setting
<1>2. CASE Find(p) \/ FindAgain(p) \/ Dedup(p) \/ Load(p) \/ Reset(p) \/ Bump(p)
  BY <1>2 DEF Find, FindAgain, Dedup, Load, Reset, Bump, Goto, locals, Setting
<1>3. CASE Store(p) \/ GetPart(p) \/ DeletePart(p) \/ ClearPart(p) \/ SizePart(p)
  BY <1>3
     DEF TypeOK, Store, GetPart, DeletePart, ProbeNext, ClearPart, SizePart, Goto, Setting
<1> QED BY <1>1, <1>2, <1>3 DEF Step

\* The loop of Set leaves no copy behind it but the one it remembers.
LEMMA SweptStays ==
    ASSUME TypeOK, NEW p \in Clients, Step(p), pc[p] = "idle" \/ Swept(p)
    PROVE Swept(p)'
<1>0. /\ i[p] \in Int /\ at[p] \in -1..Lim /\ Lim \in Nat /\ key[p] \in Keys
      /\ \A k \in Keys : Copies(k) \subseteq 0..Lim
  BY Limits DEF TypeOK, Copies, PartIds
<1>1. CASE CallAny(p)
  <2>1. /\ pc'[p] \in {"find", "load", "delete", "get", "clear", "size"}
        /\ pc'[p] = "find" => i'[p] = Lim
        /\ pc'[p] = "load" => i'[p] = 0
        /\ key'[p] \in Keys /\ pool' = pool
    BY <1>1 DEF TypeOK, CallAny, Call, Goto
  <2>2. Copies(key[p])' \subseteq 0..Lim
    BY <1>0, <2>1 DEF Copies, Holds
  <2> QED BY <1>0, <2>1, <2>2 DEF Swept
<1>2. CASE Find(p)
  <2>1. /\ pc[p] = "find" /\ i'[p] = i[p] - 1 /\ key'[p] = key[p] /\ i[p] \in PartIds
        /\ at'[p] = (IF Holds(i[p], key[p]) THEN i[p] ELSE at[p])
        /\ pc'[p] = FindNext(p, at'[p])
        /\ Holds(i[p], key[p]) => at[p] < 0
        /\ pool' = pool
    BY <1>2 DEF TypeOK, Find, Goto
  <2>2. Copies(key[p])' = Copies(key[p])
    BY <2>1 DEF Copies, Holds
  <2>3. \A n \in Copies(key[p]) : n \in 0..Lim /\ (n <= i[p] \/ n = at[p])
    BY <1>0, <2>1 DEF Swept
  <2>4. Holds(i[p], key[p]) <=> i[p] \in Copies(key[p])
    BY <2>1 DEF Copies
  <2>5. \A n \in Copies(key[p]) : n <= i'[p] \/ n = at'[p]
    BY <1>0, <2>1, <2>3, <2>4
  <2>6. i[p] > 0 => pc'[p] = "find"
    BY <2>1 DEF FindNext
  <2>7. ~(i[p] > 0) => /\ i'[p] = -1
                       /\ pc'[p] = IF at'[p] < 0 THEN "load" ELSE "store"
    BY <2>1, Limits DEF FindNext, PartIds
  <2>8. at'[p] \in -1..Lim
    BY <1>0, <2>1 DEF PartIds
  <2>9. CASE i[p] > 0
    BY <2>2, <2>5, <2>6, <2>9, <2>1 DEF Swept
  <2>10. CASE ~(i[p] > 0)
    <3>1. \A n \in Copies(key[p]) : n = at'[p] /\ n >= 0
      BY <1>0, <2>3, <2>5, <2>7, <2>10
    <3>2. at'[p] < 0 => Copies(key[p]) = {}
      BY <2>8, <3>1
    <3> QED BY <2>1, <2>2, <2>7, <2>10, <3>1, <3>2 DEF Swept
  <2> QED BY <2>9, <2>10
<1>3. CASE FindAgain(p)
  <2>1. /\ pc[p] = "find" /\ pc'[p] = "dedup" /\ UNCHANGED <<pool, key, i, at>>
    BY <1>3 DEF TypeOK, FindAgain, Goto, locals
  <2>2. Copies(key[p])' = Copies(key[p])
    BY <2>1 DEF Copies, Holds
  <2> QED BY <2>1, <2>2 DEF Swept
<1>4. CASE Dedup(p)
  <2>1. /\ pc[p] = "dedup" /\ i'[p] = i[p] - 1 /\ key'[p] = key[p] /\ i[p] \in PartIds
        /\ at'[p] = i[p] /\ pc'[p] = FindNext(p, i[p]) /\ at[p] \in PartIds
        /\ pool' = [pool EXCEPT ![at[p]][key[p]] = NoValue]
    BY <1>4 DEF TypeOK, Dedup, Goto
  <2>2. Copies(key[p])' = Copies(key[p]) \ {at[p]}
    BY <1>0, <2>1 DEF TypeOK, Copies, Holds
  <2>3. \A n \in Copies(key[p]) : n \in 0..Lim /\ (n <= i[p] \/ n = at[p])
    BY <1>0, <2>1 DEF Swept
  <2>4. \A n \in Copies(key[p])' : n \in 0..Lim /\ (n <= i'[p] \/ n = at'[p])
    BY <1>0, <2>1, <2>2, <2>3
  <2>5. i[p] > 0 => pc'[p] = "find"
    BY <2>1 DEF FindNext
  <2>6. ~(i[p] > 0) => i'[p] = -1 /\ pc'[p] = "store"
    BY <2>1, Limits DEF FindNext, PartIds
  <2>7. CASE i[p] > 0
    BY <2>4, <2>5, <2>7 DEF Swept
  <2>8. CASE ~(i[p] > 0)
    <3>1. \A n \in Copies(key[p])' : n = at'[p]
      BY <2>4, <2>6, <2>8, Limits
    <3> QED BY <2>6, <2>8, <3>1 DEF Swept
  <2> QED BY <2>7, <2>8
<1>5. CASE Load(p)
  <2>1. /\ pc[p] = "load" /\ pc'[p] \in {"reset", "bump"} /\ UNCHANGED <<pool, key, i>>
    BY <1>5 DEF TypeOK, Load, Goto
  <2>2. Copies(key[p])' = Copies(key[p])
    BY <2>1 DEF Copies, Holds
  <2> QED BY <2>1, <2>2 DEF Swept
<1>6. CASE Reset(p) \/ Bump(p)
  <2>1. /\ pc[p] \in {"reset", "bump"} /\ pc'[p] = "store" /\ UNCHANGED <<pool, key, i, at>>
    BY <1>6 DEF TypeOK, Reset, Bump, Goto, locals
  <2>2. Copies(key[p])' = Copies(key[p])
    BY <2>1 DEF Copies, Holds
  <2> QED BY <2>1, <2>2 DEF Swept
<1>7. CASE Store(p) \/ GetPart(p) \/ DeletePart(p) \/ ClearPart(p) \/ SizePart(p)
  <2>1. pc'[p] \notin Setting
    BY <1>7 DEF TypeOK, Store, GetPart, DeletePart, ProbeNext, ClearPart, SizePart, Goto, Setting
  <2> QED BY <2>1 DEF Swept, Setting
<1> QED BY <1>1, <1>2, <1>3, <1>4, <1>5, <1>6, <1>7 DEF Step

LEMMA HealInvStays ==
    ASSUME TypeOK, HealInv, NEW p \in Clients, Step(p), History PROVE HealInv'
<1> SUFFICES ASSUME NEW q \in Clients
             PROVE  /\ pc'[q] \in Setting => val'[q] # NoValue
                    /\ alone'[q] => /\ pc'[q] # "idle" /\ Swept(q)'
                                    /\ \A r \in Clients \ {q} : pc'[r] = "idle"
  BY DEF HealInv
<1>1. pc'[q] \in Setting => val'[q] # NoValue
  BY SettingHasValue, OneMoves DEF HealInv
<1>2. ASSUME alone'[q]
      PROVE /\ pc'[q] # "idle" /\ Swept(q)'
            /\ \A r \in Clients \ {q} : pc'[r] = "idle"
  <2>1. /\ pc[q] = "idle" \/ alone[q]
        /\ pc'[q] # "idle" /\ \A r \in Clients \ {q} : pc'[r] = "idle"
    BY <1>2, AloneStep
  <2>2. p = q
    <3>1. SUFFICES ASSUME p # q PROVE FALSE
      OBVIOUS
    <3>2. pc[q] # "idle"
      BY <2>1, <3>1, OneMoves
    <3>3. pc[p] = "idle"
      BY <2>1, <3>1, <3>2 DEF HealInv
    <3> QED BY <2>1, <3>1, <3>3, OneMoves
  <2>3. pc[p] = "idle" \/ Swept(p)
    BY <2>1, <2>2 DEF HealInv
  <2>4. Swept(p)'
    BY <2>3, SweptStays
  <2> QED BY <2>1, <2>2, <2>4
<1> QED BY <1>1, <1>2

\* A Set that nobody else overlaps leaves its key in one part, with its value, however
\* many copies were there before, for any numbers of parts, keys and clients.
THEOREM AloneSetHeals == Spec => SetHeals
<1> DEFINE Heals == \A p \in Clients :
               pc[p] = "store" /\ pc'[p] = "idle" /\ alone[p] /\ i[p] < 0 =>
                   Cardinality(Copies(key[p]))' = 1 /\ Value(key[p])' = val[p]
<1>1. Init => HealInv
  BY DEF Init, HealInv, Setting
<1>2. TypeOK /\ HealInv /\ [Next]_vars => HealInv'
  <2>1. HealInv /\ UNCHANGED vars => HealInv'
    BY DEF vars, locals, HealInv, Swept, Copies, Holds
  <2> QED BY <2>1, HealInvStays DEF Next
<1>3. TypeOK /\ HealInv /\ [Next]_vars => Heals
  <2> SUFFICES ASSUME TypeOK, HealInv, [Next]_vars, NEW p \in Clients,
                      pc[p] = "store", pc'[p] = "idle", alone[p], i[p] < 0
               PROVE Cardinality(Copies(key[p]))' = 1 /\ Value(key[p])' = val[p]
    OBVIOUS
  <2>1. PICK q \in Clients : Step(q)
    BY DEF Next, vars
  <2>2. q = p
    BY <2>1, OneMoves
  <2>3. Store(p)
    BY <2>1, <2>2 DEF TypeOK, Step, CallAny, Call, Find, FindAgain, Dedup, Load, Reset, Bump,
       GetPart, DeletePart, ProbeNext, ClearPart, SizePart, Goto
  <2>4. /\ pool' = [pool EXCEPT ![at[p]][key[p]] = val[p]] /\ key' = key
        /\ at[p] \in PartIds /\ key[p] \in Keys
    BY <2>3 DEF TypeOK, Store, locals
  <2>5. Copies(key[p]) \subseteq {at[p]} /\ val[p] # NoValue
    BY DEF HealInv, Swept, Setting
  <2>6. Copies(key[p])' = {at[p]}
    BY <2>4, <2>5 DEF TypeOK, Copies, Holds
  <2>7. Cardinality(Copies(key[p]))' = 1
    BY <2>6, FS_Singleton
  <2>8. pool'[at[p]][key[p]] = val[p]
    BY <2>4 DEF TypeOK
  <2>9. Value(key[p])' = val[p]
    BY <2>4, <2>6, <2>8 DEF Value
  <2> QED BY <2>7, <2>9
<1> QED BY <1>1, <1>2, <1>3, TypeCorrect, PTL DEF Spec, SetHeals

-----------------------------------------------------------------------------
\* The dictionary implements StrMap

OneWriterEach == \A k \in Keys : Sole(k)

LEMMA ValueStays ==
    ASSUME NEW k, \A n \in PartIds : pool'[n][k] = pool[n][k]
    PROVE Copies(k)' = Copies(k) /\ Value(k)' = Value(k)
<1>1. Copies(k)' = Copies(k)
  BY DEF Copies, Holds
<1>2. Copies(k) # {} => (CHOOSE n \in Copies(k) : TRUE) \in PartIds
  BY DEF Copies
<1> QED BY <1>1, <1>2 DEF Value

\* Every part is looked at in the order of Get.
LEMMA ProbeMeetsAll == ASSUME NEW n \in PartIds PROVE \E m \in 0..Lim : Probe(m) = n
<1>1. n \in Nat /\ Mid \in Nat /\ Lim = 2 * Mid - 1 /\ n <= Lim
  BY Limits DEF PartIds
<1>2. CASE n < Mid
  <2>1. 2 * n + 1 \in 0..Lim /\ (2 * n + 1) % 2 # 0 /\ (2 * n + 1) \div 2 = n
    BY <1>1, <1>2
  <2> QED BY <2>1 DEF Probe
<1>3. CASE ~(n < Mid)
  <2>1. 2 * (n - Mid) \in 0..Lim /\ (2 * (n - Mid)) % 2 = 0
        /\ Mid + (2 * (n - Mid)) \div 2 = n
    BY <1>1, <1>3
  <2> QED BY <2>1 DEF Probe
<1> QED BY <1>2, <1>3

\* What a client has seen of its key, and what it has to look at: as long as its key had
\* a value all the time, the key is in a part that Get or Delete has yet to look at.
SeenInv ==
    /\ seen = [p \in Clients |-> seen[p]] /\ DOMAIN result = Clients
    /\ \A p \in Clients :
          /\ pc[p] = "idle" => seen[p] = {}
          /\ pc[p] # "idle" => Value(key[p]) \in seen[p]
          /\ pc[p] \in {"get", "delete"} =>
                NoValue \in seen[p] \/ \E m \in i[p]..Lim : Holds(Probe(m), key[p])

\* What Size has counted so far.
SizeInv ==
    \A p \in Clients : pc[p] = "size" /\ i[p] > 0 => result[p] \in 0..(i[p] * Cardinality(Keys))

ValInv == \A p \in Clients : pc[p] \in Setting => val[p] # NoValue

\* What the steps of the abstract map need.
MapInv == TypeOK /\ SoleInv /\ SeenInv /\ SizeInv /\ ValInv

LEMMA InitMap == Init => MapInv
<1> SUFFICES ASSUME Init PROVE MapInv
  OBVIOUS
<1>1. TypeOK
  <2>1. 0 \in -1..Parts /\ -1 \in -1..Lim /\ 0 \in Nat
    BY Limits
  <2> QED BY <2>1, DictAssumption DEF Init, TypeOK, Places
<1>2. SoleInv /\ SeenInv /\ SizeInv /\ ValInv
  BY DEF Init, SoleInv, Knows, Setting, Copies, Holds, SeenInv, SizeInv, ValInv
<1> QED BY <1>1, <1>2 DEF MapInv

-----------------------------------------------------------------------------
\* How the values change

\* Only Store, Delete and Clear change a part: a second copy is never found.
LEMMA OtherSteps ==
    ASSUME MapInv, OneWriterEach, NEW p \in Clients, Step(p),
           ~Store(p), ~DeletePart(p), ~ClearPart(p)
    PROVE UNCHANGED pool /\ ~Dedup(p)
<1>1. ~Dedup(p)
  BY DEF MapInv, TypeOK, SoleInv, Knows, OneWriterEach, Dedup, Goto, Setting
<1> QED
  BY <1>1 DEF Step, CallAny, Call, Find, FindAgain, Load, Reset, Bump, GetPart, SizePart

LEMMA StoreSets ==
    ASSUME MapInv, OneWriterEach, NEW p \in Clients, Store(p)
    PROVE /\ Copies(key[p])' = {at[p]} /\ Value(key[p])' = val[p]
          /\ Copies(key[p]) \subseteq {at[p]} /\ key' = key
          /\ \A k \in Keys \ {key[p]} : Value(k)' = Value(k)
<1>1. /\ pool' = [pool EXCEPT ![at[p]][key[p]] = val[p]] /\ key' = key
      /\ at[p] \in PartIds /\ key[p] \in Keys /\ val[p] # NoValue /\ pc[p] = "store"
  BY DEF MapInv, ValInv, TypeOK, Store, Goto, locals, Setting
<1>2. Copies(key[p]) \subseteq {at[p]}
  BY <1>1 DEF MapInv, SoleInv, Knows, OneWriterEach, Setting
<1>3. Copies(key[p])' = {at[p]}
  BY <1>1, <1>2 DEF MapInv, TypeOK, Copies, Holds
<1>4. pool'[at[p]][key[p]] = val[p]
  BY <1>1 DEF MapInv, TypeOK
<1>5. Value(key[p])' = val[p]
  BY <1>1, <1>3, <1>4 DEF Value
<1>6. ASSUME NEW k \in Keys \ {key[p]} PROVE Value(k)' = Value(k)
  <2>1. \A n \in PartIds : pool'[n][k] = pool[n][k]
    BY <1>1 DEF MapInv, TypeOK
  <2> QED BY <2>1, ValueStays
<1> QED BY <1>1, <1>2, <1>3, <1>5, <1>6

\* One part loses the keys of gone.
LEMMA PartLoses ==
    ASSUME MapInv, OneWriterEach, NEW part \in PartIds, NEW gone \in SUBSET Keys,
           \A n \in PartIds, k \in Keys :
               pool'[n][k] = IF n = part /\ k \in gone THEN NoValue ELSE pool[n][k],
           NEW k \in Keys
    PROVE Value(k)' = IF k \in gone /\ Holds(part, k) THEN NoValue ELSE Value(k)
<1>1. CASE k \in gone /\ Holds(part, k)
  <2>1. \A n \in Copies(k) : n = part
    BY <1>1 DEF MapInv, SoleInv, OneWriterEach, Copies
  <2>2. Copies(k)' = {}
    BY <1>1, <2>1 DEF Copies, Holds
  <2> QED BY <1>1, <2>2 DEF Value
<1>2. CASE ~(k \in gone /\ Holds(part, k))
  <2>1. \A n \in PartIds : pool'[n][k] = pool[n][k]
    BY <1>2 DEF Holds
  <2> QED BY <1>2, <2>1, ValueStays
<1> QED BY <1>1, <1>2

LEMMA DeletePartLoses ==
    ASSUME MapInv, OneWriterEach, NEW p \in Clients, DeletePart(p), NEW k \in Keys
    PROVE Value(k)' = IF k = key[p] /\ Holds(Probe(i[p]), k) THEN NoValue ELSE Value(k)
<1>1. /\ i[p] \in PartIds /\ key[p] \in Keys
      /\ pool' = [pool EXCEPT ![Probe(i[p])][key[p]] = NoValue]
  BY DEF MapInv, TypeOK, DeletePart, ProbeNext, Goto
<1>2. Probe(i[p]) \in PartIds /\ {key[p]} \in SUBSET Keys
  BY <1>1, ProbeInPool
<1>3. \A n \in PartIds, j \in Keys :
          pool'[n][j] = IF n = Probe(i[p]) /\ j \in {key[p]} THEN NoValue ELSE pool[n][j]
  BY <1>1, <1>2 DEF MapInv, TypeOK
<1>4. PICK gone \in SUBSET Keys, part \in PartIds : gone = {key[p]} /\ part = Probe(i[p])
  BY <1>2
<1>5. \A n \in PartIds, j \in Keys :
          pool'[n][j] = IF n = part /\ j \in gone THEN NoValue ELSE pool[n][j]
  BY <1>3, <1>4
<1>6. Value(k)' = IF k \in gone /\ Holds(part, k) THEN NoValue ELSE Value(k)
  BY <1>5, PartLoses
<1> QED BY <1>4, <1>6

LEMMA ClearPartLoses ==
    ASSUME MapInv, OneWriterEach, NEW p \in Clients, ClearPart(p), NEW k \in Keys
    PROVE Value(k)' = IF Holds(i[p], k) THEN NoValue ELSE Value(k)
<1>1. i[p] \in PartIds /\ pool' = [pool EXCEPT ![i[p]] = [j \in Keys |-> NoValue]]
  BY DEF MapInv, TypeOK, ClearPart, Goto
<1>2. \A n \in PartIds, j \in Keys :
          pool'[n][j] = IF n = i[p] /\ j \in Keys THEN NoValue ELSE pool[n][j]
  BY <1>1 DEF MapInv, TypeOK
<1>3. Value(k)' = IF k \in Keys /\ Holds(i[p], k) THEN NoValue ELSE Value(k)
  BY <1>1, <1>2, PartLoses
<1> QED BY <1>3

\* A key moves to another part only by way of none.
LEMMA CopyStaysOrGoes ==
    ASSUME MapInv, OneWriterEach, NEW p \in Clients, Step(p), NEW k \in Keys
    PROVE Copies(k) = {} \/ Copies(k)' = {} \/ Copies(k)' = Copies(k)
<1>1. CASE Store(p) /\ key[p] = k
  BY <1>1, StoreSets
<1>2. CASE ~(Store(p) /\ key[p] = k)
  <2>1. Copies(k)' \subseteq Copies(k)
    BY <1>2, CopiesShrink DEF MapInv
  <2>2. \A m, n \in Copies(k) : m = n
    BY DEF MapInv, SoleInv, OneWriterEach
  <2> QED BY <2>1, <2>2
<1> QED BY <1>1, <1>2

-----------------------------------------------------------------------------
\* What the clients see

\* The history, one client at a time.
LEMMA SeenPoint ==
    ASSUME MapInv, NEW p \in Clients, Step(p), History, NEW q \in Clients
    PROVE /\ pc'[q] = "idle" => seen'[q] = {}
          /\ pc[q] = "idle" /\ pc'[q] # "idle" =>
                q = p /\ CallAny(p) /\ UNCHANGED pool /\ seen'[q] = {Value(key[q])'}
          /\ pc[q] # "idle" /\ pc'[q] # "idle" =>
                key'[q] = key[q] /\ seen'[q] = seen[q] \cup {Value(key[q])'}
<1>1. seen'[q] = CASE pc'[q] = "idle" -> {}
                   [] pc[q] = "idle" /\ pc'[q] # "idle" -> {Value(key'[q])}
                   [] OTHER -> seen[q] \cup {Value(key[q])'}
  BY DEF History
<1>2. pc'[q] = "idle" => seen'[q] = {}
  BY <1>1
<1>3. ASSUME pc[q] = "idle", pc'[q] # "idle"
      PROVE q = p /\ CallAny(p) /\ UNCHANGED pool /\ seen'[q] = {Value(key[q])'}
  <2>1. q = p /\ CallAny(p)
    BY <1>3, OneMoves DEF MapInv
  <2>2. pool' = pool
    BY <2>1 DEF CallAny, Call
  <2>3. Value(key'[q]) = Value(key[q])'
    BY <2>2 DEF Value, Copies, Holds
  <2> QED BY <1>1, <1>3, <2>1, <2>2, <2>3
<1>4. ASSUME pc[q] # "idle", pc'[q] # "idle"
      PROVE key'[q] = key[q] /\ seen'[q] = seen[q] \cup {Value(key[q])'}
  <2>1. CASE q = p
    <3>1. ~CallAny(p)
      BY <1>4, <2>1 DEF CallAny, Call, Goto
    <3>2. key' = key
      BY <3>1 DEF Step, Find, FindAgain, Dedup, Load, Reset, Bump, Store, GetPart, DeletePart,
         ProbeNext, ClearPart, SizePart, locals
    <3> QED BY <1>1, <1>4, <3>2
  <2>2. CASE q # p
    BY <1>1, <1>4, <2>2, OneMoves DEF MapInv
  <2> QED BY <2>1, <2>2
<1> QED BY <1>2, <1>3, <1>4

\* Get and Delete: what their loop did to their counter.
LEMMA LoopMoves ==
    ASSUME MapInv, NEW p \in Clients, Step(p), pc[p] \in {"get", "delete"}
    PROVE /\ i[p] \in PartIds /\ i'[p] = i[p] + 1
          /\ pc'[p] = IF Holds(Probe(i[p]), key[p]) \/ i[p] = Lim THEN "idle" ELSE pc[p]
<1>1. ProbeNext(p, pc[p])
  BY DEF Step, CallAny, Call, Find, FindAgain, Dedup, Load, Reset, Bump, Store, GetPart,
     DeletePart, ProbeNext, ClearPart, SizePart, Goto
<1> QED BY <1>1 DEF MapInv, TypeOK, ProbeNext, Goto

LEMMA SeenStays ==
    ASSUME MapInv, OneWriterEach, NEW p \in Clients, Step(p), History PROVE SeenInv'
<1>1. seen' = [q \in Clients |-> seen'[q]] /\ DOMAIN result' = Clients
  <2>1. seen' = [q \in Clients |-> seen'[q]]
    BY DEF History
  <2>2. DOMAIN result' = DOMAIN result
    BY DEF Step, CallAny, Call, Find, FindAgain, Dedup, Load, Reset, Bump, Store, GetPart,
       DeletePart, ProbeNext, ClearPart, SizePart
  <2> QED BY <2>1, <2>2 DEF MapInv, SeenInv
<1>2. ASSUME NEW q \in Clients
      PROVE /\ pc'[q] = "idle" => seen'[q] = {}
            /\ pc'[q] # "idle" => Value(key[q])' \in seen'[q]
  BY SeenPoint
<1>3. ASSUME NEW q \in Clients, pc'[q] \in {"get", "delete"}
      PROVE NoValue \in seen'[q] \/ \E m \in i'[q]..Lim : Holds(Probe(m), key[q])'
  <2>0. key[q] \in Keys /\ key'[q] \in Keys
    <3>1. TypeOK'
      BY CallTypeOK, SetTypeOK, LoopTypeOK DEF MapInv, Step
    <3> QED BY <3>1 DEF MapInv, TypeOK
  <2>1. CASE pc[q] = "idle"
    <3>1. q = p /\ CallAny(p) /\ seen'[q] = {Value(key[q])'}
      BY <1>3, <2>1, SeenPoint
    <3>2. i'[q] = 0
      BY <1>3, <3>1 DEF MapInv, TypeOK, CallAny, Call, Goto
    <3>3. CASE Copies(key[q])' = {}
      BY <3>1, <3>3 DEF Value
    <3>4. CASE Copies(key[q])' # {}
      <4>1. PICK n \in PartIds : Holds(n, key[q])'
        BY <3>4 DEF Copies
      <4>2. PICK m \in 0..Lim : Probe(m) = n
        BY ProbeMeetsAll
      <4> QED BY <3>2, <4>1, <4>2
    <3> QED BY <3>3, <3>4
  <2>2. CASE pc[q] # "idle"
    <3>1. key'[q] = key[q] /\ seen'[q] = seen[q] \cup {Value(key[q])'}
      BY <1>3, <2>2, SeenPoint
    <3>2. pc'[q] = pc[q]
      <4>1. CASE q = p
        <5>1. pc[p] \in {"get", "delete"}
          BY <1>3, <2>2, <4>1
             DEF MapInv, TypeOK, Step, CallAny, Call, Find, FindAgain, FindNext, Dedup, Load,
                 Reset, Bump, Store, GetPart, DeletePart, ProbeNext, ClearPart, SizePart, Goto
        <5> QED BY <1>3, <4>1, <5>1, LoopMoves
      <4>2. CASE q # p
        BY <4>2, OneMoves DEF MapInv
      <4> QED BY <4>1, <4>2
    <3>3. CASE NoValue \in seen[q]
      BY <3>1, <3>3
    <3>4. CASE NoValue \notin seen[q]
      <4>1. PICK m \in i[q]..Lim : Holds(Probe(m), key[q])
        BY <1>3, <3>2, <3>4 DEF MapInv, SeenInv
      <4>2. i[q] \in PartIds
        BY <1>3, <3>2 DEF MapInv, TypeOK
      <4>3. m \in PartIds /\ Probe(m) \in PartIds
        BY <4>2, Limits, ProbeInPool DEF PartIds
      <4>4. Probe(m) \in Copies(key[q])
        BY <4>1, <4>3 DEF Copies
      <4>5. PICK k \in Keys : k = key[q]
        BY <2>0
      <4>6. Copies(k)' = {} \/ Copies(k)' = Copies(k)
        BY <4>4, <4>5, CopyStaysOrGoes
      <4>7. CASE Copies(k)' = {}
        <5>1. Value(k)' = NoValue
          BY <4>7 DEF Value
        <5>2. Value(key[q])' = Value(k)'
          BY <3>1, <4>5
        <5> QED BY <3>1, <5>1, <5>2
      <4>8. CASE Copies(k)' = Copies(k)
        <5>1. Holds(Probe(m), key[q])'
          <6>1. Probe(m) \in Copies(k)'
            BY <4>4, <4>5, <4>8
          <6>2. pool'[Probe(m)][k] # NoValue
            BY <6>1 DEF Copies, Holds
          <6> QED BY <3>1, <4>5, <6>2 DEF Holds
        <5>2. m \in i'[q]..Lim
          <6>1. CASE q # p
            BY <6>1, OneMoves DEF MapInv
          <6>2. CASE q = p
            <7>1. i'[q] = i[q] + 1 /\ ~Holds(Probe(i[q]), key[q])
              BY <1>3, <3>2, <6>2, LoopMoves
            <7>2. m # i[q]
              BY <4>1, <7>1
            <7> QED BY <4>2, <7>1, <7>2, Limits DEF PartIds
          <6> QED BY <6>1, <6>2
        <5> QED BY <5>1, <5>2
      <4> QED BY <4>6, <4>7, <4>8
    <3> QED BY <3>3, <3>4
  <2> QED BY <2>1, <2>2
<1> QED BY <1>1, <1>2, <1>3 DEF SeenInv

LEMMA Times ==
    ASSUME NEW a \in Nat, NEW c \in Nat
    PROVE /\ a * c \in Nat /\ (a + 1) * c = a * c + c
          /\ \A b \in Nat : a <= b => a * c <= b * c
  OBVIOUS

\* A part adds all keys at most.
LEMMA PartSize ==
    ASSUME MapInv, NEW p \in Clients, SizePart(p)
    PROVE /\ pc[p] = "size" /\ i[p] \in PartIds /\ i'[p] = i[p] + 1
          /\ result'[p] \in 0..((i[p] + 1) * Cardinality(Keys))
          /\ result' = [result EXCEPT ![p] = result'[p]]
<1> DEFINE sum == IF i[p] = 0 THEN 0 ELSE result[p]
           size == Cardinality({k \in Keys : Holds(i[p], k)})
           all == Cardinality(Keys)
<1>1. /\ pc[p] = "size" /\ i[p] \in PartIds /\ i'[p] = i[p] + 1
      /\ result' = [result EXCEPT ![p] = sum + size]
  BY DEF MapInv, TypeOK, SizePart, Goto
<1>2. all \in Nat /\ size \in Nat /\ size <= all
  BY DictAssumption, FS_CardinalityType, FS_Subset
<1>3. i[p] \in Nat
  BY <1>1, Limits DEF PartIds
<1>4. i[p] * all \in Nat /\ (i[p] + 1) * all = i[p] * all + all
  BY <1>2, <1>3, Times
<1>5. sum \in 0..(i[p] * all)
  BY <1>1, <1>2, <1>3, <1>4 DEF MapInv, SizeInv
<1>6. result'[p] = sum + size
  BY <1>1 DEF MapInv, SeenInv
<1> HIDE DEF sum, size, all
<1>7. sum + size \in 0..((i[p] + 1) * all)
  BY <1>2, <1>4, <1>5
<1> QED BY <1>1, <1>6, <1>7 DEF all, sum, size

LEMMA SizeStays ==
    ASSUME MapInv, NEW p \in Clients, Step(p) PROVE SizeInv'
<1> SUFFICES ASSUME NEW q \in Clients, pc'[q] = "size", i'[q] > 0
             PROVE result'[q] \in 0..(i'[q] * Cardinality(Keys))
  BY DEF SizeInv
<1>1. CASE q = p
  <2>1. SizePart(p)
    <3>1. ~CallAny(p)
      BY <1>1 DEF MapInv, TypeOK, CallAny, Call, Goto
    <3> QED BY <1>1, <3>1
       DEF MapInv, TypeOK, Step, Find, FindAgain, FindNext, Dedup, Load, Reset, Bump, Store,
           GetPart, DeletePart, ProbeNext, ClearPart, Goto
  <2> QED BY <1>1, <2>1, PartSize
<1>2. CASE q # p
  <2>1. UNCHANGED <<pc[q], i[q]>>
    BY <1>2, OneMoves DEF MapInv
  <2>2. result'[q] = result[q]
    BY <1>2
       DEF MapInv, SeenInv, Step, CallAny, Call, Find, FindAgain, Dedup, Load, Reset, Bump, Store,
           GetPart, DeletePart, ProbeNext, ClearPart, SizePart
  <2> QED BY <2>1, <2>2 DEF MapInv, SizeInv
<1> QED BY <1>1, <1>2

LEMMA MapInvStays ==
    ASSUME "SetUnsafe" \notin Methods, OneWriterEach, MapInv, [Next]_vars PROVE MapInv'
<1>1. CASE UNCHANGED vars
  BY <1>1
     DEF vars, locals, MapInv, TypeOK, SoleInv, Knows, SeenInv, SizeInv, ValInv, Value, Copies,
         Holds
<1>2. ASSUME NEW p \in Clients, Step(p), History PROVE MapInv'
  <2>1. TypeOK'
    BY <1>2, CallTypeOK, SetTypeOK, LoopTypeOK DEF MapInv, Step
  <2>2. SoleInv'
    BY <1>2, SoleInvStays DEF MapInv
  <2>3. SeenInv' /\ SizeInv'
    BY <1>2, SeenStays, SizeStays
  <2>4. ValInv'
    BY <1>2, SettingHasValue, OneMoves DEF MapInv, ValInv
  <2> QED BY <2>1, <2>2, <2>3, <2>4 DEF MapInv
<1> QED BY <1>1, <1>2 DEF Next

-----------------------------------------------------------------------------
\* The steps of the map

LEMMA OpIdle == ASSUME TypeOK, NEW q \in Clients PROVE OpOf(q) = "none" <=> pc[q] = "idle"
  BY DEF TypeOK, Places, OpOf

LEMMA InitImplements == ASSUME Init PROVE M!Init
<1>1. \A k \in Keys : Value(k) = NoValue
  BY DEF Init, Value, Copies, Holds
<1>2. \A q \in Clients : OpOf(q) = "none"
  BY DEF Init, OpOf
<1>3. key \in [Clients -> Keys]
  BY InitMap DEF MapInv, TypeOK
<1> QED BY <1>1, <1>2, <1>3 DEF Init, M!Init

\* The histories are the same.
LEMMA SeenImplements ==
    ASSUME MapInv, NEW p \in Clients, Step(p), History PROVE M!Seen
<1>1. TypeOK /\ TypeOK'
  BY CallTypeOK, SetTypeOK, LoopTypeOK DEF MapInv, Step
<1> DEFINE op == [q \in Clients |-> OpOf(q)]
           map == [k \in Keys |-> Value(k)]
<1>2. ASSUME NEW q \in Clients
      PROVE seen'[q] = CASE op'[q] = "none" -> {}
                         [] op[q] = "none" /\ op'[q] # "none" -> {map'[key'[q]]}
                         [] OTHER -> seen[q] \cup {map'[key[q]]}
  <2>1. (op[q] = "none" <=> pc[q] = "idle") /\ (op'[q] = "none" <=> pc'[q] = "idle")
    <3>1. OpOf(q) = "none" <=> pc[q] = "idle"
      BY <1>1, OpIdle
    <3>2. (OpOf(q) = "none" <=> pc[q] = "idle")'
      BY <1>1 DEF TypeOK, Places, OpOf
    <3> QED BY <3>1, <3>2
  <2>2. map'[key'[q]] = Value(key[q])'
    <3>1. PICK k \in Keys : k = key'[q]
      BY <1>1 DEF TypeOK
    <3>2. map'[k] = Value(k)'
      OBVIOUS
    <3> QED BY <3>1, <3>2
  <2> HIDE DEF op, map
  <2> QED BY <2>1, <2>2, SeenPoint
<1>3. seen' = [q \in Clients |-> seen'[q]]
  BY DEF History
<1> HIDE DEF op, map
<1>4. seen' = [q \in Clients |-> CASE op'[q] = "none" -> {}
                                   [] op[q] = "none" /\ op'[q] # "none" -> {map'[key'[q]]}
                                   [] OTHER -> seen[q] \cup {map'[key[q]]}]
  BY <1>2, <1>3
<1> QED BY <1>4 DEF M!Seen, op, map

\* A step moves the method of its client only, and the map key by key.
LEMMA Moves ==
    ASSUME MapInv, NEW p \in Clients, Step(p), History
    PROVE /\ [q \in Clients |-> OpOf(q)]' = [[q \in Clients |-> OpOf(q)] EXCEPT ![p] = OpOf(p)']
          /\ [q \in Clients |-> OpOf(q)][p] = OpOf(p)
          /\ [k \in Keys |-> Value(k)]' = [k \in Keys |-> Value(k)']
<1>1. ASSUME NEW q \in Clients \ {p} PROVE OpOf(q)' = OpOf(q)
  BY OneMoves DEF MapInv, OpOf
<1> QED BY <1>1

\* A step that moves neither the method nor the map is no step of it: the value of each
\* key was seen before.
LEMMA Stutters ==
    ASSUME MapInv, NEW p \in Clients, Step(p), History,
           OpOf(p)' = OpOf(p), \A k \in Keys : Value(k)' = Value(k), UNCHANGED <<key, val, result>>
    PROVE UNCHANGED M!vars
<1>1. [q \in Clients |-> OpOf(q)]' = [q \in Clients |-> OpOf(q)]
  <2>1. \A q \in Clients : OpOf(q)' = OpOf(q)
    BY OneMoves DEF MapInv, OpOf
  <2> QED BY <2>1
<1>2. [k \in Keys |-> Value(k)]' = [k \in Keys |-> Value(k)]
  OBVIOUS
<1>3. ASSUME NEW q \in Clients PROVE seen'[q] = seen[q]
  <2>1. pc[q] = "idle" <=> pc'[q] = "idle"
    <3>1. OpOf(q)' = OpOf(q)
      BY OneMoves DEF MapInv, OpOf
    <3>2. TypeOK /\ TypeOK'
      BY CallTypeOK, SetTypeOK, LoopTypeOK DEF MapInv, Step
    <3> QED BY <3>1, <3>2 DEF TypeOK, Places, OpOf
  <2>2. CASE pc[q] = "idle"
    BY <2>1, <2>2, SeenPoint DEF MapInv, SeenInv
  <2>3. CASE pc[q] # "idle"
    <3>1. PICK k \in Keys : k = key[q]
      BY DEF MapInv, TypeOK
    <3>2. Value(key[q])' = Value(k)' /\ Value(key[q]) = Value(k)
      BY <3>1
    <3>3. Value(k) \in seen[q] /\ Value(k)' = Value(k)
      BY <2>3, <3>2 DEF MapInv, SeenInv
    <3>4. seen'[q] = seen[q] \cup {Value(key[q])'}
      BY <2>1, <2>3, SeenPoint
    <3> QED BY <3>2, <3>3, <3>4
  <2> QED BY <2>2, <2>3
<1>4. seen' = seen
  BY <1>3 DEF History, MapInv, SeenInv
<1> QED BY <1>1, <1>2, <1>4 DEF M!vars

LEMMA CallImplements ==
    ASSUME MapInv, NEW p \in Clients, Step(p), History, CallAny(p) PROVE M!Call(p)
<1>1. PICK m \in AllMethods, o \in {"find", "load", "get", "delete", "clear", "size"}, k \in Keys,
           v \in Values \cup {NoValue}, n \in {0, Lim} :
          Call(p, m, o, k, v, n) /\ (o \in {"find", "load", "delete"} => p \in Writers[k])
  BY DEF CallAny, AllMethods, MapInv, TypeOK
<1>2. /\ pc[p] = "idle" /\ pc'[p] = o /\ key' = [key EXCEPT ![p] = k] /\ val' = [val EXCEPT ![p] = v]
      /\ key'[p] = k /\ UNCHANGED <<pool, result>>
  BY <1>1 DEF Call, Goto, MapInv, TypeOK
<1>3. PICK a \in {"set", "delete", "get", "clear", "size"} :
          OpOf(p)' = a /\ (a \in {"set", "delete"} => p \in Writers[k])
  BY <1>1, <1>2 DEF OpOf
<1>4. OpOf(p) = "none"
  BY <1>2 DEF OpOf
<1>5. [j \in Keys |-> Value(j)]' = [j \in Keys |-> Value(j)]
  <2>1. \A j \in Keys : Value(j)' = Value(j)
    BY <1>2, ValueStays
  <2> QED BY <2>1
<1>6. [q \in Clients |-> OpOf(q)]' = [[q \in Clients |-> OpOf(q)] EXCEPT ![p] = a]
  BY <1>3, Moves
<1>7. [q \in Clients |-> OpOf(q)][p] = "none"
  BY <1>4
<1> QED BY <1>2, <1>3, <1>5, <1>6, <1>7 DEF M!Call

LEMMA SetImplements ==
    ASSUME MapInv, OneWriterEach, NEW p \in Clients, Step(p), History,
           Find(p) \/ FindAgain(p) \/ Dedup(p) \/ Load(p) \/ Reset(p) \/ Bump(p) \/ Store(p)
    PROVE  M!Set(p) \/ UNCHANGED M!vars
<1>1. CASE Store(p)
  <2>1. /\ Value(key[p])' = val[p] /\ key' = key /\ key[p] \in Keys
        /\ \A k \in Keys \ {key[p]} : Value(k)' = Value(k)
    BY <1>1, StoreSets DEF MapInv, TypeOK
  <2>2. OpOf(p) = "set" /\ OpOf(p)' = "none" /\ UNCHANGED <<key, val, result>>
    BY <1>1 DEF MapInv, TypeOK, Store, Goto, locals, OpOf
  <2>3. [k \in Keys |-> Value(k)]' = [[k \in Keys |-> Value(k)] EXCEPT ![key[p]] = val[p]]
    <3>1. PICK j \in Keys : j = key[p]
      BY <2>1
    <3>2. Value(j)' = val[p] /\ \A k \in Keys \ {j} : Value(k)' = Value(k)
      BY <2>1, <3>1
    <3>3. [k \in Keys |-> Value(k)]' = [[k \in Keys |-> Value(k)] EXCEPT ![j] = val[p]]
      BY <3>2
    <3> QED BY <3>1, <3>3
  <2>4. [q \in Clients |-> OpOf(q)]' = [[q \in Clients |-> OpOf(q)] EXCEPT ![p] = "none"]
        /\ [q \in Clients |-> OpOf(q)][p] = "set"
    BY <2>2, Moves
  <2> QED BY <2>2, <2>3, <2>4 DEF M!Set, M!Return
<1>2. CASE ~Store(p)
  <2>1. Find(p) \/ FindAgain(p) \/ Load(p) \/ Reset(p) \/ Bump(p)
    <3>1. ~DeletePart(p) /\ ~ClearPart(p)
      BY DEF MapInv, TypeOK, Find, FindAgain, Dedup, Load, Reset, Bump, Store, Goto, DeletePart,
         ProbeNext, ClearPart
    <3> QED BY <1>2, <3>1, OtherSteps
  <2>2. pc[p] \in Setting /\ pc'[p] \in Setting /\ UNCHANGED <<pool, key, val, result>>
    BY <2>1 DEF MapInv, TypeOK, Find, FindAgain, Load, Reset, Bump, Goto, FindNext, locals, Setting
  <2>3. OpOf(p)' = OpOf(p)
    BY <2>2 DEF OpOf, Setting
  <2>4. \A k \in Keys : Value(k)' = Value(k)
    BY <2>2, ValueStays
  <2> QED BY <2>2, <2>3, <2>4, Stutters
<1> QED BY <1>1, <1>2

\* Get and Delete return when they found the key, or when their loop is over: then the key
\* was without a value at some moment of the call.
LEMMA LoopEnds ==
    ASSUME MapInv, NEW p \in Clients, Step(p), pc[p] \in {"get", "delete"},
           ~Holds(Probe(i[p]), key[p]), pc'[p] = "idle"
    PROVE  NoValue \in seen[p]
<1>1. i[p] = Lim
  BY LoopMoves
<1>2. \A m \in i[p]..Lim : m = i[p]
  BY <1>1, Limits
<1> QED BY <1>2 DEF MapInv, SeenInv

LEMMA GetImplements ==
    ASSUME MapInv, OneWriterEach, NEW p \in Clients, Step(p), History, GetPart(p)
    PROVE  M!Get(p) \/ UNCHANGED M!vars
<1>1. pc[p] = "get" /\ UNCHANGED <<pool, key, val>>
  BY DEF GetPart, ProbeNext, Goto
<1>2. \A k \in Keys : Value(k)' = Value(k)
  BY <1>1, ValueStays
<1>3. CASE pc'[p] = "idle"
  <2>1. result' = [result EXCEPT ![p] = pool[Probe(i[p])][key[p]]]
    BY <1>3 DEF GetPart
  <2>2. pool[Probe(i[p])][key[p]] \in seen[p]
    <3>1. CASE Holds(Probe(i[p]), key[p])
      <4>1. key[p] \in Keys /\ Probe(i[p]) \in PartIds
        BY <1>1, ProbeInPool DEF MapInv, TypeOK
      <4>2. Copies(key[p]) = {Probe(i[p])}
        BY <3>1, <4>1 DEF MapInv, SoleInv, OneWriterEach, Copies
      <4>3. Value(key[p]) = pool[Probe(i[p])][key[p]]
        BY <4>2 DEF Value
      <4> QED BY <1>1, <4>3 DEF MapInv, SeenInv
    <3>2. CASE ~Holds(Probe(i[p]), key[p])
      BY <1>1, <1>3, <3>2, LoopEnds DEF Holds
    <3> QED BY <3>1, <3>2
  <2>3. OpOf(p) = "get" /\ OpOf(p)' = "none"
    BY <1>1, <1>3 DEF OpOf
  <2>4. [q \in Clients |-> OpOf(q)]' = [[q \in Clients |-> OpOf(q)] EXCEPT ![p] = "none"]
        /\ [q \in Clients |-> OpOf(q)][p] = "get"
    BY <2>3, Moves
  <2>5. [k \in Keys |-> Value(k)]' = [k \in Keys |-> Value(k)]
    BY <1>2
  <2> QED BY <1>1, <2>1, <2>2, <2>4, <2>5 DEF M!Get, M!Return
<1>4. CASE pc'[p] # "idle"
  <2>1. pc'[p] = pc[p] /\ result' = result
    BY <1>1, <1>4, LoopMoves DEF GetPart
  <2>2. OpOf(p)' = OpOf(p)
    BY <2>1 DEF OpOf
  <2> QED BY <1>1, <1>2, <2>1, <2>2, Stutters
<1> QED BY <1>3, <1>4

LEMMA DeleteImplements ==
    ASSUME MapInv, OneWriterEach, NEW p \in Clients, Step(p), History, DeletePart(p)
    PROVE  M!Delete(p) \/ UNCHANGED M!vars
<1>1. pc[p] = "delete" /\ UNCHANGED <<key, val, result>> /\ key[p] \in Keys
  BY DEF DeletePart, ProbeNext, Goto, MapInv, TypeOK
<1>2. PICK j \in Keys : j = key[p]
  BY <1>1
<1>3. \A k \in Keys : Value(k)' = IF k = j /\ Holds(Probe(i[p]), j) THEN NoValue ELSE Value(k)
  BY <1>2, DeletePartLoses
<1>4. CASE pc'[p] = "idle"
  <2>1. OpOf(p) = "delete" /\ OpOf(p)' = "none"
    BY <1>1, <1>4 DEF OpOf
  <2>2. [q \in Clients |-> OpOf(q)]' = [[q \in Clients |-> OpOf(q)] EXCEPT ![p] = "none"]
        /\ [q \in Clients |-> OpOf(q)][p] = "delete"
    BY <2>1, Moves
  <2>3. \/ [k \in Keys |-> Value(k)]' = [[k \in Keys |-> Value(k)] EXCEPT ![key[p]] = NoValue]
        \/ NoValue \in seen[p] /\ [k \in Keys |-> Value(k)]' = [k \in Keys |-> Value(k)]
    <3>1. CASE Holds(Probe(i[p]), j)
      <4>1. [k \in Keys |-> Value(k)]' = [[k \in Keys |-> Value(k)] EXCEPT ![j] = NoValue]
        BY <1>3, <3>1
      <4> QED BY <1>2, <4>1
    <3>2. CASE ~Holds(Probe(i[p]), j)
      <4>1. NoValue \in seen[p]
        BY <1>1, <1>2, <1>4, <3>2, LoopEnds
      <4>2. [k \in Keys |-> Value(k)]' = [k \in Keys |-> Value(k)]
        BY <1>3, <3>2
      <4> QED BY <4>1, <4>2
    <3> QED BY <3>1, <3>2
  <2> QED BY <1>1, <2>2, <2>3 DEF M!Delete, M!Return
<1>5. CASE pc'[p] # "idle"
  <2>1. pc'[p] = pc[p] /\ ~Holds(Probe(i[p]), j)
    BY <1>1, <1>2, <1>5, LoopMoves
  <2>2. OpOf(p)' = OpOf(p)
    BY <2>1 DEF OpOf
  <2>3. \A k \in Keys : Value(k)' = Value(k)
    BY <1>3, <2>1
  <2> QED BY <1>1, <2>2, <2>3, Stutters
<1> QED BY <1>4, <1>5

\* What Clear and Size, which go through the parts in order, do to their method.
LEMMA GoesOn ==
    ASSUME MapInv, NEW p \in Clients, Step(p), History, NEW o \in {"clear", "size"},
           Goto(p, o, IF i[p] = Lim THEN "idle" ELSE o)
    PROVE  /\ [q \in Clients |-> OpOf(q)][p] = o
           /\ \/ [q \in Clients |-> OpOf(q)]' = [q \in Clients |-> OpOf(q)]
              \/ [q \in Clients |-> OpOf(q)]' = [[q \in Clients |-> OpOf(q)] EXCEPT ![p] = "none"]
<1>1. OpOf(p) = o /\ OpOf(p)' \in {o, "none"}
  BY DEF Goto, OpOf, MapInv, TypeOK
<1>2. [q \in Clients |-> OpOf(q)]' = [[q \in Clients |-> OpOf(q)] EXCEPT ![p] = OpOf(p)']
  BY Moves
<1>3. CASE OpOf(p)' = o
  <2>1. [q \in Clients |-> OpOf(q)]' = [[q \in Clients |-> OpOf(q)] EXCEPT ![p] = o]
    BY <1>2, <1>3
  <2> QED BY <1>1, <2>1
<1> QED BY <1>1, <1>2, <1>3

LEMMA ClearImplements ==
    ASSUME MapInv, OneWriterEach, NEW p \in Clients, Step(p), History, ClearPart(p)
    PROVE  M!Clear(p)
<1> DEFINE lost == {k \in Keys : Holds(i[p], k)}
<1>1. PICK gone \in SUBSET Keys : gone = lost
  OBVIOUS
<1>2. \A k \in Keys : Value(k)' = IF k \in gone THEN NoValue ELSE Value(k)
  BY <1>1, ClearPartLoses
<1>3. [k \in Keys |-> Value(k)]'
         = [k \in Keys |-> IF k \in gone THEN NoValue ELSE [j \in Keys |-> Value(j)][k]]
  BY <1>2
<1>4. Goto(p, "clear", IF i[p] = Lim THEN "idle" ELSE "clear") /\ UNCHANGED <<key, val, result>>
  BY DEF ClearPart
<1> QED BY <1>3, <1>4, GoesOn DEF M!Clear

LEMMA SizeImplements ==
    ASSUME MapInv, NEW p \in Clients, Step(p), History, SizePart(p)
    PROVE  M!Size(p)
<1>1. /\ Goto(p, "size", IF i[p] = Lim THEN "idle" ELSE "size")
      /\ UNCHANGED <<pool, key, val>>
  BY DEF SizePart
<1>2. [k \in Keys |-> Value(k)]' = [k \in Keys |-> Value(k)]
  <2>1. \A k \in Keys : Value(k)' = Value(k)
    BY <1>1, ValueStays
  <2> QED BY <2>1
<1>3. i[p] \in PartIds /\ result'[p] \in 0..((i[p] + 1) * Cardinality(Keys))
      /\ result' = [result EXCEPT ![p] = result'[p]]
  BY PartSize
<1>4. \E n \in 0..(Parts * Cardinality(Keys)) : result' = [result EXCEPT ![p] = n]
  <2>1. Cardinality(Keys) \in Nat
    BY DictAssumption, FS_CardinalityType
  <2>2. i[p] + 1 \in Nat /\ Parts \in Nat /\ i[p] + 1 <= Parts
    BY <1>3, Limits, DictAssumption DEF PartIds
  <2>3. (i[p] + 1) * Cardinality(Keys) <= Parts * Cardinality(Keys)
        /\ (i[p] + 1) * Cardinality(Keys) \in Nat /\ Parts * Cardinality(Keys) \in Nat
    BY <2>1, <2>2, Times
  <2>4. result'[p] \in 0..(Parts * Cardinality(Keys))
    BY <1>3, <2>3
  <2> QED BY <1>3, <2>4
<1> QED BY <1>1, <1>2, <1>4, GoesOn DEF M!Size

\* With one writer for each key, and no SetUnsafe, every step of the dictionary is a step
\* of StrMap or none of it: the parts, their locks and the counter (helpers.AsyncStrDict)
\* are not to be noticed.
THEOREM DictIsMap ==
    ASSUME "SetUnsafe" \notin Methods, OneWriterEach PROVE Spec => ImplementsStrMap
<1>1. ASSUME MapInv, [Next]_vars PROVE [M!Next]_(M!vars)
  <2>1. CASE UNCHANGED vars
    <3>1. \A k \in Keys : Value(k)' = Value(k)
      BY <2>1, ValueStays DEF vars
    <3>2. \A q \in Clients : OpOf(q)' = OpOf(q)
      BY <2>1 DEF vars, OpOf
    <3> QED BY <2>1, <3>1, <3>2 DEF vars, locals, M!vars
  <2>2. ASSUME NEW p \in Clients, Step(p), History PROVE [M!Next]_(M!vars)
    <3>1. M!Seen
      BY <1>1, <2>2, SeenImplements
    <3>2. M!Step(p) \/ UNCHANGED M!vars
      BY <1>1, <2>2, CallImplements, SetImplements, GetImplements, DeleteImplements,
         ClearImplements, SizeImplements DEF Step, M!Step
    <3> QED BY <3>1, <3>2 DEF M!Next
  <2> QED BY <1>1, <2>1, <2>2 DEF Next
<1>2. Init => MapInv /\ M!Init
  BY InitMap, InitImplements
<1>3. MapInv /\ [Next]_vars => MapInv'
  BY MapInvStays
<1> QED BY <1>1, <1>2, <1>3, PTL DEF Spec, ImplementsStrMap, M!Spec
=============================================================================
