----------------------------- MODULE UtilsProofs -----------------------------
(***************************************************************************)
(* Proofs about Pools, Dictionary, HashSet and Snowflake: the object       *)
(* pools, the collections and the ids of utils/, for any goroutines, keys, *)
(* values, pools and widths.                                               *)
(***************************************************************************)
EXTENDS Pools, Dictionary, HashSet, Snowflake, FiniteSetTheorems, TLAPS

-----------------------------------------------------------------------------
(* Object pools (Pools.tla).                                               *)

\* The service in _svc has been spawned and was not told to end, a service that
\* was not spawned neither; a listed pool was made and has a service.
WInv ==
    /\ PoolsTypeOK
    /\ svc # NoService => ~ended[svc] /\ svcAt[svc] \notin {"none", "left"}
    /\ \A s \in Services : svcAt[s] = "none" => ~ended[s]
    /\ \A n \in PoolNames : table[n] # NoPool => svc # NoService
    /\ \A s \in Services : svcAt[s] \in {"collect", "dispose"} => visited[s] \in PoolIds
-----------------------------------------------------------------------------
LEMMA WInvInit == PoolsInit => WInv
BY PoolsAssumption DEF PoolsInit, WInv, PoolsTypeOK

LEMMA OpenPool == ASSUME PoolsTypeOK, NEW n \in PoolNames, table[n] # NoPool
                  PROVE  table[n] \in PoolIds
BY DEF PoolsTypeOK

\* Delete keeps the types of the tables it writes.
LEMMA DeleteType ==
    ASSUME PoolsTypeOK, NEW p \in PoolIds, NEW D, Delete(p, D)
    PROVE  /\ objs' \in [PoolIds -> SUBSET Objects]
           /\ due' \in [PoolIds -> [Objects -> Nat]]
<1>1. objs' \in [PoolIds -> SUBSET Objects]
  BY DEF PoolsTypeOK, Delete
<1>2. [o \in Objects |-> IF o \in D THEN 0 ELSE due[p][o]] \in [Objects -> Nat]
  BY DEF PoolsTypeOK
<1>3. due' = [due EXCEPT ![p] = [o \in Objects |-> IF o \in D THEN 0 ELSE due[p][o]]]
  BY DEF PoolsTypeOK, Delete
<1>4. due' \in [PoolIds -> [Objects -> Nat]]
  BY <1>2, <1>3 DEF PoolsTypeOK
<1> QED BY <1>1, <1>4

\* So does the disposal of all the objects of a pool, panicking or not.
LEMMA DisposeObjectsType ==
    ASSUME PoolsTypeOK, NEW p \in PoolIds, DisposeObjects(p)
    PROVE  /\ objs' \in [PoolIds -> SUBSET Objects]
           /\ due' \in [PoolIds -> [Objects -> Nat]]
           /\ owed' \in SUBSET (PoolIds \X Objects)
<1>1. CASE Panics(p)
  BY <1>1 DEF DisposeObjects, DisposeSome, Disposed, PoolsTypeOK
<1>2. CASE ~Panics(p)
  BY <1>2, DeleteType DEF DisposeObjects, Disposed, PoolsTypeOK
<1> QED BY <1>1, <1>2

LEMMA SpawnStep ==
    ASSUME WInv, Spawn
    PROVE  /\ svc' \in Services /\ ~ended'[svc'] /\ svcAt'[svc'] \notin {"none", "left"}
           /\ ended' \in [Services -> BOOLEAN]
           /\ svcAt' \in [Services -> {"none", "boot", "sleep", "pass", "collect",
                                       "dispose", "left"}]
           /\ \A s \in Services : svcAt'[s] = "none" => ~ended'[s]
           /\ \A s \in Services : svcAt'[s] \in {"collect", "dispose"} =>
                                    svcAt[s] \in {"collect", "dispose"}
<1>1. CASE svc # NoService
  BY <1>1 DEF Spawn, WInv, PoolsTypeOK, service
<1>2. CASE svc = NoService
  <2>1. NewService \in Services /\ svcAt[NewService] = "none"
    BY <1>2 DEF Spawn, NewService
  <2> QED BY <1>2, <2>1 DEF Spawn, WInv, PoolsTypeOK
<1> QED BY <1>1, <1>2

LEMMA WInvStep == WInv /\ [PoolsNext]_poolsVars => WInv'
<1> SUFFICES ASSUME WInv, [PoolsNext]_poolsVars PROVE WInv'
  OBVIOUS
<1> USE PoolsAssumption
<1>1. ASSUME Second PROVE WInv'
  BY <1>1 DEF Second, WInv, PoolsTypeOK, poolState, service, pass
<1>2. ASSUME NEW p \in PoolIds, DisposeAll(p) PROVE WInv'
  BY <1>2, DisposeObjectsType DEF DisposeAll, WInv, PoolsTypeOK, service, pass
<1>3. ASSUME NEW p \in PoolIds, NEW o \in Objects, DisposeObject(p, o) PROVE WInv'
  <2>1. CASE o \in Faulty
    BY <1>3, <2>1 DEF DisposeObject, Disposed, WInv, PoolsTypeOK, service, pass
  <2>2. CASE o \notin Faulty
    BY <1>3, <2>2, DeleteType DEF DisposeObject, Disposed, WInv, PoolsTypeOK, service, pass
  <2> QED BY <2>1, <2>2
<1>4. ASSUME NEW p \in PoolIds, NEW o \in Objects, NEW l \in Lives, Put(p, o, l)
      PROVE  WInv'
  <2>1. objs' \in [PoolIds -> SUBSET Objects] /\ clock + l \in Nat
    BY <1>4 DEF Put, WInv, PoolsTypeOK
  <2>2. [due[p] EXCEPT ![o] = clock + l] \in [Objects -> Nat]
    BY <2>1 DEF WInv, PoolsTypeOK
  <2>3. due' = [due EXCEPT ![p] = [due[p] EXCEPT ![o] = clock + l]]
    BY <1>4 DEF Put, WInv, PoolsTypeOK
  <2>4. due' \in [PoolIds -> [Objects -> Nat]]
    BY <2>2, <2>3 DEF WInv, PoolsTypeOK
  <2> QED BY <1>4, <2>1, <2>4 DEF Put, WInv, PoolsTypeOK, service, pass
<1>5. ASSUME NEW n \in PoolNames, Fetch(n) PROVE WInv'
  <2>1. NewPool \in PoolIds
    BY <1>5 DEF Fetch, NewPool, WInv, PoolsTypeOK
  <2> QED BY <1>5, <2>1, SpawnStep DEF Fetch, WInv, PoolsTypeOK, pass
<1>6. ASSUME NEW n \in PoolNames, DisposePool(n) PROVE WInv'
  <2>1. table[n] \in PoolIds
    BY <1>6, OpenPool DEF DisposePool, WInv
  <2>2. CASE Panics(table[n])
    BY <1>6, <2>1, <2>2, DisposeObjectsType
    DEF DisposePool, WInv, PoolsTypeOK, service, pass
  <2>3. CASE ~Panics(table[n]) /\ \A m \in PoolNames \ {n} : table[m] = NoPool
    <3>1. svc \in Services /\ svcAt[svc] # "none"
      BY <1>6 DEF DisposePool, WInv, PoolsTypeOK
    <3>2. /\ ended' = [ended EXCEPT ![svc] = TRUE]
          /\ svc' = NoService /\ svcAt' = svcAt
      BY <1>6, <2>3, <3>1, PoolsAssumption DEF DisposePool, Terminate
    <3>3. /\ objs' \in [PoolIds -> SUBSET Objects]
          /\ due' \in [PoolIds -> [Objects -> Nat]]
          /\ owed' \in SUBSET (PoolIds \X Objects)
      BY <1>6, <2>1, DisposeObjectsType DEF DisposePool, WInv
    <3>4. table' = [table EXCEPT ![n] = NoPool] /\ UNCHANGED <<made, pass, clock>>
      BY <1>6, <2>3 DEF DisposePool
    <3>5. \A m \in PoolNames : table'[m] = NoPool
      BY <2>3, <3>4 DEF WInv, PoolsTypeOK
    <3>6. PoolsTypeOK'
      BY <3>2, <3>3, <3>4 DEF WInv, PoolsTypeOK, pass
    <3>7. \A s \in Services : svcAt'[s] = "none" => ~ended'[s]
      BY <3>1, <3>2 DEF WInv, PoolsTypeOK
    <3> QED BY <3>2, <3>4, <3>5, <3>6, <3>7 DEF WInv, pass
  <2>4. CASE ~Panics(table[n]) /\ ~(\A m \in PoolNames \ {n} : table[m] = NoPool)
    BY <1>6, <2>1, <2>4, DisposeObjectsType
    DEF DisposePool, WInv, PoolsTypeOK, service, pass
  <2> QED BY <2>2, <2>3, <2>4
<1>7. ASSUME NEW s \in Services, Checking(s) PROVE WInv'
  <2>1. CASE BootCheck(s)
    BY <2>1 DEF BootCheck, At, WInv, PoolsTypeOK, poolState, pass
  <2>2. CASE Wake(s)
    BY <2>2 DEF Wake, At, WInv, PoolsTypeOK, poolState
  <2>3. ASSUME NEW p \in PoolIds, Visit(s, p) PROVE WInv'
    BY <2>3 DEF Visit, At, WInv, PoolsTypeOK, poolState
  <2>4. CASE Collect(s)
    <3> DEFINE D == Overdue(visited[s], passNow[s])
    <3>1. visited[s] \in PoolIds /\ D \in SUBSET Objects
      BY <2>4 DEF Collect, Overdue, WInv, PoolsTypeOK
    <3>2. CASE D = {} /\ At(s, "collect", "pass") /\ PoolLeft(s)
      BY <2>4, <3>2 DEF Collect, At, PoolLeft, WInv, PoolsTypeOK, poolState
    <3>3. CASE D # {} /\ At(s, "collect", "dispose")
               /\ dirtys' = [dirtys EXCEPT ![s] = D]
               /\ UNCHANGED <<visited, passNow>>
      <4> HIDE DEF D
      <4> QED BY <2>4, <3>1, <3>3 DEF Collect, At, WInv, PoolsTypeOK, poolState
    <3> QED BY <2>4, <3>2, <3>3 DEF Collect
  <2>5. CASE DisposeDirtys(s)
    <3>1. visited[s] \in PoolIds
      BY <2>5 DEF DisposeDirtys, At, WInv
    <3> QED BY <2>5, <3>1, DeleteType
            DEF DisposeDirtys, Disposed, At, PoolLeft, WInv, PoolsTypeOK
  <2>6. CASE PassEnds(s)
    BY <2>6 DEF PassEnds, At, WInv, PoolsTypeOK, poolState, pass
  <2> QED BY <1>7, <2>1, <2>2, <2>3, <2>4, <2>5, <2>6 DEF Checking
<1>8. CASE UNCHANGED poolsVars
  BY <1>8 DEF poolsVars, WInv, PoolsTypeOK
<1> QED BY <1>1, <1>2, <1>3, <1>4, <1>5, <1>6, <1>7, <1>8 DEF PoolsNext

LEMMA WInvCorrect == PoolsSpec => []WInv
<1>1. PoolsInit => WInv
  BY WInvInit
<1>2. WInv /\ [PoolsNext]_poolsVars => WInv'
  BY WInvStep
<1> QED BY <1>1, <1>2, PTL DEF PoolsSpec

\* PoolsTypeOK: the table, the pools and the services keep their types.
THEOREM PoolsTypeCorrect == PoolsSpec => []PoolsTypeOK
<1>1. WInv => PoolsTypeOK
  BY DEF WInv
<1> QED BY <1>1, WInvCorrect, PTL

\* PoolsWatched: a listed pool has a service that was not told to end, however
\* pools come and go and old services linger.
THEOREM PoolsWatchedCorrect == PoolsSpec => []PoolsWatched
<1>1. WInv => PoolsWatched
  BY PoolsAssumption DEF WInv, PoolsWatched, Listed
<1> QED BY <1>1, WInvCorrect, PTL
-----------------------------------------------------------------------------
\* What is deleted from a pool has been disposed of before.
LEMMA DeletedKept ==
    ASSUME PoolsTypeOK, DisposedOf, NEW p \in PoolIds, NEW D, Disposed(p, D), Delete(p, D)
    PROVE  DisposedOf'
BY DEF PoolsTypeOK, DisposedOf, Disposed, Delete

LEMMA DisposedKept ==
    ASSUME DisposedOf, NEW p, NEW D, Disposed(p, D), UNCHANGED objs
    PROVE  DisposedOf'
BY DEF DisposedOf, Disposed

LEMMA DisposeObjectsKept ==
    ASSUME PoolsTypeOK, DisposedOf, NEW p \in PoolIds, DisposeObjects(p)
    PROVE  DisposedOf'
<1>1. CASE Panics(p)
  BY <1>1, DisposedKept DEF DisposeObjects, DisposeSome
<1>2. CASE ~Panics(p)
  BY <1>2, DeletedKept DEF DisposeObjects
<1> QED BY <1>1, <1>2

LEMMA DisposedOfStep == WInv /\ DisposedOf /\ [PoolsNext]_poolsVars => DisposedOf'
<1> SUFFICES ASSUME WInv, DisposedOf, [PoolsNext]_poolsVars PROVE DisposedOf'
  OBVIOUS
<1>t. PoolsTypeOK
  BY DEF WInv
<1>1. ASSUME UNCHANGED <<objs, owed>> PROVE DisposedOf'
  BY <1>1 DEF DisposedOf
<1>2. ASSUME NEW p \in PoolIds, DisposeAll(p) PROVE DisposedOf'
  BY <1>2, <1>t, DisposeObjectsKept DEF DisposeAll
<1>3. ASSUME NEW p \in PoolIds, NEW o \in Objects, DisposeObject(p, o)
      PROVE  DisposedOf'
  BY <1>3, <1>t, DeletedKept, DisposedKept DEF DisposeObject
<1>4. ASSUME NEW p \in PoolIds, NEW o \in Objects, NEW l \in Lives, Put(p, o, l)
      PROVE  DisposedOf'
  BY <1>4, <1>t DEF Put, DisposedOf, PoolsTypeOK
<1>5. ASSUME NEW n \in PoolNames, DisposePool(n) PROVE DisposedOf'
  BY <1>5, <1>t, OpenPool, DisposeObjectsKept DEF DisposePool
<1>6. ASSUME NEW s \in Services, DisposeDirtys(s) PROVE DisposedOf'
  <2>1. visited[s] \in PoolIds
    BY <1>6 DEF DisposeDirtys, At, WInv
  <2> QED BY <1>6, <1>t, <2>1, DeletedKept DEF DisposeDirtys
<1>7. ASSUME NEW s \in Services, Checking(s) PROVE DisposedOf'
  BY <1>1, <1>6, <1>7
  DEF Checking, BootCheck, Wake, Visit, Collect, PassEnds, poolState
<1>8. ASSUME Second PROVE DisposedOf'
  BY <1>1, <1>8 DEF Second, poolState
<1>9. ASSUME NEW n \in PoolNames, Fetch(n) PROVE DisposedOf'
  BY <1>1, <1>9 DEF Fetch
<1>10. CASE UNCHANGED poolsVars
  BY <1>1, <1>10 DEF poolsVars
<1> QED BY <1>2, <1>3, <1>4, <1>5, <1>7, <1>8, <1>9, <1>10 DEF PoolsNext

\* DisposedOf: whatever leaves a pool has been disposed of, for any objects that
\* panic and any passes that overlap.
THEOREM DisposedOfCorrect == PoolsSpec => []DisposedOf
<1>1. PoolsInit => DisposedOf
  BY DEF PoolsInit, DisposedOf
<1> QED BY <1>1, WInvCorrect, DisposedOfStep, PTL DEF PoolsSpec
-----------------------------------------------------------------------------
(* A dictionary (Dictionary.tla).                                          *)

\* Enumerable is inductive, with the types.
DInv == DictTypeOK /\ Enumerable

LEMMA EmptySeq ==
  ASSUME NEW S
  PROVE  <<>> \in Seq(S) /\ Len(<<>>) = 0
OBVIOUS

\* Two places of the list hold different keys before a first key is removed.
LEMMA ListedOnce ==
  ASSUME DictTypeOK, Enumerable, ~headRemoved,
         NEW a \in 1 .. Len(keys), NEW b \in 1 .. Len(keys), a # b
  PROVE  keys[a] # keys[b]
<1>1. Len(keys) \in Nat
  BY DEF DictTypeOK
<1>2. CASE a < b
  <2>1. a \in 1 .. b - 1
    BY <1>1, <1>2
  <2> QED BY <2>1 DEF Enumerable
<1>3. CASE b < a
  <2>1. b \in 1 .. a - 1
    BY <1>1, <1>3
  <2> QED BY <2>1 DEF Enumerable
<1> QED BY <1>1, <1>2, <1>3

LEMMA WithoutType ==
  ASSUME NEW S, NEW s \in Seq(S), NEW i \in 1 .. Len(s)
  PROVE  /\ Without(s, i) \in Seq(S)
         /\ Len(Without(s, i)) = Len(s) - 1
         /\ \A j \in 1 .. Len(s) - 1 :
               Without(s, i)[j] = IF j < i THEN s[j] ELSE s[j + 1]
<1>1. Len(s) \in Nat \ {0} /\ i \in Nat
  OBVIOUS
<1>2. \A j \in 1 .. Len(s) - 1 : (IF j < i THEN s[j] ELSE s[j + 1]) \in S
  BY <1>1
<1> QED BY <1>1, <1>2 DEF Without

LEMMA DInvInit == DictInit => DInv
<1> SUFFICES ASSUME DictInit PROVE DInv
  OBVIOUS
<1>1. DOMAIN map = {}
  BY DEF DictInit
<1>2. map \in [DOMAIN map -> DictValues]
  BY DEF DictInit
<1>3. keys \in Seq(DictKeys) /\ Len(keys) = 0
  BY EmptySeq DEF DictInit
<1>4. Enumerable
  BY <1>1, <1>3 DEF Enumerable
<1> QED BY <1>1, <1>2, <1>3, <1>4 DEF DictInit, DInv, DictTypeOK
-----------------------------------------------------------------------------
\* A step keeps the types.
LEMMA TypeStep ==
  ASSUME DictTypeOK, DictNext
  PROVE  DictTypeOK'
<1> USE DEF DictTypeOK
<1>1. ASSUME NEW k \in DictKeys, NEW v \in DictValues, AddKey(k, v) \/ Replace(k, v)
      PROVE  DictTypeOK'
  BY <1>1 DEF AddKey, Replace, SetValue
<1>2. ASSUME NEW k \in DictKeys, RemoveKey(k) PROVE DictTypeOK'
  <2>1. keys' \in Seq(DictKeys)
    <3>1. CASE \E i \in Found(k) : i > 1
      <4>1. (CHOOSE i \in Found(k) : TRUE) \in 1 .. Len(keys)
        BY <3>1 DEF Found
      <4> QED BY <1>2, <3>1, <4>1, WithoutType DEF RemoveKey, KeysWithout
    <3>2. CASE ~ \E i \in Found(k) : i > 1
      BY <1>2, <3>2 DEF RemoveKey, KeysWithout
    <3> QED BY <3>1, <3>2
  <2>2. (1 \in Found(k)) \in BOOLEAN
    OBVIOUS
  <2>3. headRemoved' \in BOOLEAN
    BY <1>2, <2>2 DEF RemoveKey
  <2>4. DOMAIN map' \subseteq DictKeys /\ map' \in [DOMAIN map' -> DictValues]
    BY <1>2 DEF RemoveKey
  <2> QED BY <2>1, <2>3, <2>4
<1>3. ASSUME Clear PROVE DictTypeOK'
  <2>1. DOMAIN map' = {} /\ map' \in [DOMAIN map' -> DictValues]
    BY <1>3 DEF Clear
  <2> QED BY <1>3, <2>1, EmptySeq DEF Clear
<1>4. ASSUME NEW i \in 1 .. Len(keys), NEW j \in 1 .. Len(keys), Swap(i, j)
      PROVE  DictTypeOK'
  BY <1>4 DEF Swap
<1> QED BY <1>1, <1>2, <1>3, <1>4 DEF DictNext

\* Every entry stays listed, and no key is listed twice or without an entry
\* until the first one has been removed.
LEMMA EnumerableStep ==
  ASSUME DInv, DictNext
  PROVE  Enumerable'
<1> USE DEF DInv, DictTypeOK
<1>0. Len(keys) \in Nat
  OBVIOUS
<1>1. ASSUME NEW k \in DictKeys, NEW v \in DictValues, AddKey(k, v)
      PROVE  Enumerable'
  <2>1. /\ Len(keys') = Len(keys) + 1
        /\ keys'[Len(keys) + 1] = k
        /\ \A i \in 1 .. Len(keys) : keys'[i] = keys[i]
    BY <1>1 DEF AddKey
  <2>2. DOMAIN map' = DOMAIN map \cup {k} /\ k \notin DOMAIN map
    BY <1>1 DEF AddKey, SetValue
  <2>3. headRemoved' = headRemoved
    BY <1>1 DEF AddKey
  <2>4. ASSUME NEW j \in DOMAIN map'
        PROVE  \E i \in 1 .. Len(keys') : keys'[i] = j
    <3>1. CASE j = k
      BY <1>0, <2>1, <3>1
    <3>2. CASE j # k
      <4>1. PICK i \in 1 .. Len(keys) : keys[i] = j
        BY <2>2, <2>4, <3>2 DEF Enumerable
      <4> QED BY <1>0, <2>1, <4>1
    <3> QED BY <3>1, <3>2
  <2>5. ASSUME ~headRemoved', NEW i \in 1 .. Len(keys')
        PROVE  /\ keys'[i] \in DOMAIN map'
               /\ \A j \in 1 .. i - 1 : keys'[j] # keys'[i]
    <3>1. \A j \in 1 .. Len(keys) : keys[j] \in DOMAIN map
      BY <2>3, <2>5 DEF Enumerable
    <3>2. CASE i = Len(keys) + 1
      <4>1. \A j \in 1 .. i - 1 : j \in 1 .. Len(keys) /\ keys'[j] = keys[j]
        BY <1>0, <2>1, <3>2
      <4> QED BY <2>1, <2>2, <3>1, <3>2, <4>1
    <3>3. CASE i \in 1 .. Len(keys)
      <4>1. \A j \in 1 .. i - 1 : j \in 1 .. Len(keys) /\ keys'[j] = keys[j]
        BY <1>0, <2>1, <3>3
      <4> QED BY <2>1, <2>2, <2>3, <2>5, <3>1, <3>3, <4>1 DEF Enumerable
    <3> QED BY <1>0, <2>1, <2>5, <3>2, <3>3
  <2> QED BY <2>4, <2>5 DEF Enumerable
<1>2. ASSUME NEW k \in DictKeys, NEW v \in DictValues, Replace(k, v)
      PROVE  Enumerable'
  <2>1. DOMAIN map' = DOMAIN map
    BY <1>2 DEF Replace, SetValue
  <2> QED BY <1>2, <2>1 DEF Replace, Enumerable
<1>3. ASSUME NEW k \in DictKeys, RemoveKey(k) PROVE Enumerable'
  <2>1. DOMAIN map' = DOMAIN map \ {k} /\ k \in DOMAIN map
    BY <1>3 DEF RemoveKey
  <2>2. CASE \E i \in Found(k) : i > 1
    <3> DEFINE n == CHOOSE i \in Found(k) : TRUE
    <3>1. n \in Found(k) /\ n \in 1 .. Len(keys) /\ keys[n] = k
      BY <2>2 DEF Found
    <3>2. keys' = Without(keys, n)
      BY <1>3, <2>2 DEF RemoveKey, KeysWithout
    <3>3. /\ Len(keys') = Len(keys) - 1
          /\ \A j \in 1 .. Len(keys) - 1 :
                keys'[j] = IF j < n THEN keys[j] ELSE keys[j + 1]
      BY <3>1, <3>2, WithoutType
    <3> HIDE DEF n
    <3>4. ASSUME NEW j \in DOMAIN map'
          PROVE  \E i \in 1 .. Len(keys') : keys'[i] = j
      <4>1. PICK i \in 1 .. Len(keys) : keys[i] = j
        BY <2>1, <3>4 DEF Enumerable
      <4>2. i # n
        BY <2>1, <3>1, <4>1
      <4>3. CASE i < n
        BY <1>0, <3>1, <3>3, <4>1, <4>3
      <4>4. CASE i > n
        <5>1. i - 1 \in 1 .. Len(keys) - 1 /\ ~(i - 1 < n) /\ (i - 1) + 1 = i
          BY <1>0, <3>1, <4>4
        <5> QED BY <3>3, <4>1, <5>1
      <4> QED BY <1>0, <3>1, <4>2, <4>3, <4>4
    <3>5. ASSUME ~headRemoved', NEW i \in 1 .. Len(keys')
          PROVE  /\ keys'[i] \in DOMAIN map'
                 /\ \A j \in 1 .. i - 1 : keys'[j] # keys'[i]
      <4>1. ~headRemoved
        BY <1>3, <3>5 DEF RemoveKey
      <4>2. \A a, b \in 1 .. Len(keys) : a # b => keys[a] # keys[b]
        BY <4>1, ListedOnce
      <4> DEFINE Old(j) == IF j < n THEN j ELSE j + 1
      <4>3. \A j \in 1 .. Len(keys') :
              /\ Old(j) \in 1 .. Len(keys) /\ Old(j) # n
              /\ keys'[j] = keys[Old(j)]
        BY <1>0, <3>1, <3>3
      <4>4. \A j \in 1 .. i - 1 : j \in 1 .. Len(keys') /\ Old(j) # Old(i)
        BY <1>0, <3>1, <3>3
      <4>5. keys'[i] # k /\ keys[Old(i)] \in DOMAIN map
        BY <3>1, <4>1, <4>2, <4>3 DEF Enumerable
      <4> HIDE DEF Old
      <4> QED BY <2>1, <4>2, <4>3, <4>4, <4>5
    <3> QED BY <3>4, <3>5 DEF Enumerable
  <2>3. CASE ~ \E i \in Found(k) : i > 1
    <3>1. keys' = keys
      BY <1>3, <2>3 DEF RemoveKey, KeysWithout
    <3>2. PICK m \in 1 .. Len(keys) : keys[m] = k
      BY <2>1 DEF Enumerable
    <3>3. ASSUME ~headRemoved' PROVE FALSE
      <4>1. ~headRemoved /\ 1 \notin Found(k)
        BY <1>3, <3>3 DEF RemoveKey
      <4>2. m \in Found(k)
        BY <3>2, <4>1 DEF Enumerable, Found
      <4> QED BY <1>0, <2>3, <4>1, <4>2 DEF Found
    <3> QED BY <2>1, <3>1, <3>3 DEF Enumerable
  <2> QED BY <2>2, <2>3
<1>4. ASSUME Clear PROVE Enumerable'
  BY <1>4 DEF Clear, Enumerable
<1>5. ASSUME NEW i \in 1 .. Len(keys), NEW j \in 1 .. Len(keys), Swap(i, j)
      PROVE  Enumerable'
  <2> DEFINE Old(m) == IF m = i THEN j ELSE IF m = j THEN i ELSE m
  <2>1. /\ Len(keys') = Len(keys)
        /\ \A m \in 1 .. Len(keys) : keys'[m] = keys[Old(m)]
    BY <1>5 DEF Swap
  <2>2. \A m \in 1 .. Len(keys) : Old(m) \in 1 .. Len(keys) /\ Old(Old(m)) = m
    BY <1>0
  <2>3. \A a, b \in 1 .. Len(keys) : a # b => Old(a) # Old(b)
    BY <1>0
  <2>4. map' = map /\ headRemoved' = headRemoved
    BY <1>5 DEF Swap
  <2> HIDE DEF Old
  <2>5. \A k \in DOMAIN map : \E m \in 1 .. Len(keys) : keys'[m] = k
    BY <2>1, <2>2 DEF Enumerable
  <2>6. ASSUME ~headRemoved, NEW m \in 1 .. Len(keys)
        PROVE  /\ keys'[m] \in DOMAIN map
               /\ \A a \in 1 .. m - 1 : keys'[a] # keys'[m]
    <3>1. \A a, b \in 1 .. Len(keys) : a # b => keys[a] # keys[b]
      BY <2>6, ListedOnce
    <3>2. \A a \in 1 .. m - 1 : a \in 1 .. Len(keys) /\ a # m
      BY <1>0
    <3> QED BY <2>1, <2>2, <2>3, <2>6, <3>1, <3>2 DEF Enumerable
  <2> QED BY <2>1, <2>4, <2>5, <2>6 DEF Enumerable
<1> QED BY <1>1, <1>2, <1>3, <1>4, <1>5 DEF DictNext
-----------------------------------------------------------------------------
\* However entries are added, removed, replaced and sorted, each is found by an
\* index, and until the first key is removed the list is exactly the map's keys
\* (dictionary.go, GetKey, GetValue and ForEach).
THEOREM EnumerableCorrect == DictSpec => []Enumerable
<1>1. DictInit => DInv
  BY DInvInit
<1>2. DInv /\ [DictNext]_dictVars => DInv'
  <2> SUFFICES ASSUME DInv, [DictNext]_dictVars PROVE DInv'
    OBVIOUS
  <2>1. CASE DictNext
    BY <2>1, TypeStep, EnumerableStep DEF DInv
  <2>2. CASE UNCHANGED dictVars
    BY <2>2 DEF dictVars, DInv, DictTypeOK, Enumerable
  <2> QED BY <2>1, <2>2
<1>3. DInv => Enumerable
  BY DEF DInv
<1> QED BY <1>1, <1>2, <1>3, PTL DEF DictSpec
-----------------------------------------------------------------------------
(* Sets with locks (HashSet.tla).                                          *)

\* Who is where does what: a read lock that is held belongs to a UnionWith or
\* an IsSubset under way in that set; the write lock to a call that has taken
\* or announced it, or that filters.
LocksHeld ==
    /\ \A s \in HashSets : \A u \in readers[s] :
          /\ goAt[u] \in {"each", "add"} /\ Op(u) \in {"UnionWith", "IsSubset"}
          /\ Walked(u) = s
    /\ \A s \in HashSets : writer[s] # NoGoer =>
          /\ H(writer[s]) = s
          /\ \/ NeedsWrite(writer[s])
             \/ goAt[writer[s]] = "each" /\ Op(writer[s]) \in {"IntersectWith", "ExceptWith"}

\* A call that has gone past its first lock is of the kind that takes that path.
CallsUnderWay ==
    \A u \in Goers :
        /\ goAt[u] # "idle" => call[u] \in SetOps
        /\ goAt[u] = "each" => Op(u) \in Combining
        /\ goAt[u] \in {"sizes", "walk"} => Op(u) = "IsSubset"
        /\ goAt[u] = "add" => Op(u) = "UnionWith" /\ item[u] \in Elements

HInv == HashSetTypeOK /\ CallsUnderWay /\ LocksHeld
-----------------------------------------------------------------------------
\* The sets a call is about are sets, and different operations are different.
LEMMA CallTypes ==
    ASSUME NEW c \in SetOps
    PROVE  /\ c.h \in HashSets /\ c.op \in Simple \cup Combining
           /\ c.op \in Combining => c.another \in HashSets
  BY DEF SetOps, Simple, Combining

LEMMA HInvInit == HashSetInit => HInv
  BY HashSetAssumption
  DEF HashSetInit, HInv, HashSetTypeOK, CallsUnderWay, LocksHeld

LEMMA HInvStep == HInv /\ [HashSetNext]_hashSetVars => HInv'
<1> SUFFICES ASSUME HInv, HashSetNext \/ UNCHANGED hashSetVars PROVE HInv'
  OBVIOUS
<1> USE HashSetAssumption, CallTypes
    DEF HInv, HashSetTypeOK, CallsUnderWay, LocksHeld, Op, H, Another, GoerAt, locks,
        NeedsWrite, Finish, Walked, Asked, Readable, Simple, Combining
<1>1. ASSUME NEW u \in Goers, NEW c \in SetOps, Begin(u, c) PROVE HInv'
  BY <1>1 DEF Begin
<1>2. ASSUME NEW u \in Goers, Announce(u) PROVE HInv'
  BY <1>2 DEF Announce
<1>3. ASSUME NEW u \in Goers, Change(u) PROVE HInv'
  BY <1>3 DEF Change, Owns, Unlock
<1>4. ASSUME NEW u \in Goers, ClearItems(u) PROVE HInv'
  BY <1>4 DEF ClearItems, Owns, Unlock
<1>5. ASSUME NEW u \in Goers, EnterFilter(u) PROVE HInv'
  BY <1>5 DEF EnterFilter, Owns
<1>6. ASSUME NEW u \in Goers, Filter(u) PROVE HInv'
  BY <1>6 DEF Filter
<1>7. ASSUME NEW u \in Goers, LeaveFilter(u) PROVE HInv'
  BY <1>7 DEF LeaveFilter, Unlock
<1>8. ASSUME NEW u \in Goers, OwnSize(u) PROVE HInv'
  BY <1>8 DEF OwnSize
<1>9. ASSUME NEW u \in Goers, OtherSize(u) PROVE HInv'
  BY <1>9 DEF OtherSize
<1>10. ASSUME NEW u \in Goers, EnterWalk(u) PROVE HInv'
  BY <1>10 DEF EnterWalk
<1>11. ASSUME NEW u \in Goers, AskItem(u) PROVE HInv'
  BY <1>11 DEF AskItem
<1>12. ASSUME NEW u \in Goers, AddMissing(u) PROVE HInv'
  BY <1>12 DEF AddMissing, Owns, Unlock
<1>13. ASSUME NEW u \in Goers, LeaveWalk(u) PROVE HInv'
  BY <1>13 DEF LeaveWalk
<1>14. CASE UNCHANGED hashSetVars
  BY <1>14 DEF hashSetVars
<1> QED
  BY <1>1, <1>2, <1>3, <1>4, <1>5, <1>6, <1>7, <1>8, <1>9, <1>10, <1>11, <1>12,
     <1>13, <1>14 DEF HashSetNext, Working

LEMMA HInvCorrect == HashSetSpec => []HInv
  BY HInvInit, HInvStep, PTL DEF HashSetSpec

\* The calls that hold the lock of a set while they take another one.
Combiners == {u \in Goers : goAt[u] \in {"each", "add"}}

\* The lock such a call waits for is held by another one of them, or announced
\* by a writer that waits for one of them.
LEMMA HolderAhead ==
    ASSUME HInv, \A w \in Busy : Waits(w), NEW u \in Combiners
    PROVE  Op(u) \in Combining /\ \E v \in Combiners : Walked(v) = Asked(u)
<1> USE HashSetAssumption, CallTypes
    DEF HInv, HashSetTypeOK, CallsUnderWay, LocksHeld, Combiners, Busy, Op, H, Another
<1>1. Op(u) \in Combining /\ u \in Busy /\ Asked(u) \in HashSets
  BY DEF Asked, Combining
<1>2. writer[Asked(u)] # NoGoer
  BY <1>1 DEF Waits, NeedsWrite, Readable, Asked, Simple, Combining
<1> DEFINE w == writer[Asked(u)]
<1>3. w \in Busy /\ H(w) = Asked(u)
  BY <1>1, <1>2 DEF NeedsWrite
<1>4. CASE NeedsWrite(w)
  <2>1. readers[Asked(u)] # {}
    BY <1>1, <1>2, <1>3, <1>4 DEF Waits, Owns
  <2>2. PICK v \in readers[Asked(u)] : TRUE
    BY <2>1
  <2>3. v \in Combiners /\ Walked(v) = Asked(u)
    BY <1>1, <2>2
  <2> QED BY <1>1, <2>3
<1>5. CASE goAt[w] = "each" /\ Op(w) \in {"IntersectWith", "ExceptWith"}
  BY <1>1, <1>3, <1>5 DEF Walked
<1> QED BY <1>1, <1>2, <1>4, <1>5

\* When no call holds the lock of a set for longer, whoever has announced a
\* write lock gets it.
LEMMA SomebodyGoes ==
    ASSUME HInv, Combiners = {}, NEW u \in Busy, Waits(u)
    PROVE  \E v \in Busy : ~Waits(v)
<1> USE HashSetAssumption, CallTypes
    DEF HInv, HashSetTypeOK, CallsUnderWay, LocksHeld, Combiners, Busy, Op, H, Another
<1>1. \A s \in HashSets : readers[s] = {}
  OBVIOUS
<1>2. \E s \in HashSets : writer[s] # NoGoer
  BY DEF Waits, NeedsWrite, Readable, Walked, Asked, Simple, Combining
<1>3. PICK s \in HashSets : writer[s] # NoGoer
  BY <1>2
<1>4. NeedsWrite(writer[s]) /\ H(writer[s]) = s /\ writer[s] \in Busy
  BY <1>3 DEF NeedsWrite
<1>5. ~Waits(writer[s])
  BY <1>1, <1>3, <1>4 DEF Waits, Owns
<1> QED BY <1>4, <1>5

\* NoStandstill: any number of calls that combine any number of sets stand
\* still only when some of them go round in a circle.
THEOREM NoStandstillCorrect == HashSetSpec => []NoStandstill
<1>1. ASSUME HInv PROVE NoStandstill
  <2> SUFFICES ASSUME NEW u \in Busy, \A w \in Busy : Waits(w) PROVE Opposed
    BY DEF NoStandstill
  <2>1. Combiners # {}
    BY <1>1, SomebodyGoes
  <2>2. Combiners \in SUBSET Busy
    BY DEF Combiners, Busy
  <2> QED BY <1>1, <2>1, <2>2, HolderAhead DEF Opposed
<1> QED BY <1>1, HInvCorrect, PTL

\* HashSetTypeOK: the contents, the locks and the calls under way keep their
\* types, for any number of goroutines and sets.
THEOREM HashSetTypeCorrect == HashSetSpec => []HashSetTypeOK
<1>1. HInv => HashSetTypeOK
  BY DEF HInv
<1> QED BY <1>1, HInvCorrect, PTL
-----------------------------------------------------------------------------
(* Snowflake ids (Snowflake.tla).                                          *)

\* Where the three parts of an id are found in it.
LEMMA IdParts ==
    ASSUME NEW s \in Takers, seedNo[s] \in 0..seedMax,
           NEW ms \in 0..LastMs, NEW n \in 0..lowMax
    PROVE  /\ Bits(ms) = {k \in Nat : k + (SeedBits + StepBits) \in Id(s, ms, n)}
           /\ n <= stepMax =>
                /\ Bits(n) = {k \in Id(s, ms, n) : k < StepBits}
                /\ Bits(seedNo[s]) =
                     {k \in Nat : k < SeedBits /\ k + StepBits \in Id(s, ms, n)}
<1> USE SnowflakeAssumption
<1>1. Bits(ms) \subseteq Nat
  BY BitsAssumption
<1>2. /\ \A k \in Bits(n) : k \in Nat /\ k < SeedBits + StepBits
      /\ n <= stepMax => \A k \in Bits(n) : k < StepBits
  BY BitsAssumption
<1>3. \A k \in Bits(seedNo[s]) : k \in Nat /\ k < SeedBits
  BY BitsAssumption
<1>4. \A k : k \in Id(s, ms, n) <=>
               \/ \E i \in Bits(ms) : k = i + (SeedBits + StepBits)
               \/ \E i \in Bits(seedNo[s]) : k = i + StepBits
               \/ k \in Bits(n)
  BY DEF Id, Shifted
<1>5. Bits(ms) = {k \in Nat : k + (SeedBits + StepBits) \in Id(s, ms, n)}
  BY <1>1, <1>2, <1>3, <1>4
<1>6. ASSUME n <= stepMax
      PROVE  Bits(n) = {k \in Id(s, ms, n) : k < StepBits}
  BY <1>1, <1>2, <1>3, <1>4, <1>6
<1>7. ASSUME n <= stepMax
      PROVE  Bits(seedNo[s]) = {k \in Nat : k < SeedBits /\ k + StepBits \in Id(s, ms, n)}
  BY <1>1, <1>2, <1>3, <1>4, <1>7
<1> QED BY <1>5, <1>6, <1>7

\* An id tells its millisecond, and its step and seed if the step has not run over.
LEMMA IdTells ==
    ASSUME NEW s \in Takers, NEW t \in Takers,
           seedNo[s] \in 0..seedMax, seedNo[t] \in 0..seedMax,
           NEW a \in 0..LastMs, NEW b \in 0..LastMs,
           NEW m \in 0..lowMax, NEW n \in 0..lowMax,
           Id(s, a, m) = Id(t, b, n)
    PROVE  /\ a = b
           /\ m <= stepMax /\ n <= stepMax => m = n /\ seedNo[s] = seedNo[t]
<1>1. /\ Bits(a) = {k \in Nat : k + (SeedBits + StepBits) \in Id(s, a, m)}
      /\ m <= stepMax => /\ Bits(m) = {k \in Id(s, a, m) : k < StepBits}
                         /\ Bits(seedNo[s]) =
                              {k \in Nat : k < SeedBits /\ k + StepBits \in Id(s, a, m)}
  BY IdParts
<1>2. /\ Bits(b) = {k \in Nat : k + (SeedBits + StepBits) \in Id(t, b, n)}
      /\ n <= stepMax => /\ Bits(n) = {k \in Id(t, b, n) : k < StepBits}
                         /\ Bits(seedNo[t]) =
                              {k \in Nat : k < SeedBits /\ k + StepBits \in Id(t, b, n)}
  BY IdParts
<1>3. Bits(a) = Bits(b)
  BY <1>1, <1>2
<1>4. m <= stepMax /\ n <= stepMax => Bits(m) = Bits(n) /\ Bits(seedNo[s]) = Bits(seedNo[t])
  BY <1>1, <1>2
<1> QED BY <1>3, <1>4, BitsAssumption

SnowflakeTypes ==
    /\ now \in 1..LastMs
    /\ seedVar \in Takers \cup {NoSeed}
    /\ seedNo \in [Takers -> 0..seedMax]
    /\ timestamp \in [Takers -> 0..LastMs]
    /\ step \in [Takers -> Nat] /\ peak \in [Takers -> Nat]
    /\ takerAt \in [Takers -> {"idle", "make", "return", "generate", "spin"}]
    /\ mine \in [Takers -> Takers \cup {NoSeed}]
    /\ given \in [Takers -> Nat]
    /\ ids = [s \in Takers |-> ids[s]]

\* A seed is in use only once it is made, and is made once.
SeedsMade ==
    /\ seedVar = NoSeed => \A s \in Takers : mine[s] = NoSeed /\ ids[s] = {}
    /\ \A g \in Takers :
         /\ takerAt[g] = "return" => seedVar # NoSeed
         /\ takerAt[g] \in {"generate", "spin"} => mine[g] # NoSeed
         /\ takerAt[g] = "make" =>
              seedVar # g /\ ids[g] = {} /\ \A h \in Takers : mine[h] # g

\* Ids are from the past; in the present millisecond of the seed from steps that
\* it has taken.
IdsPast ==
    \A s \in Takers :
        /\ timestamp[s] <= now /\ step[s] <= peak[s]
        /\ \A i \in ids[s] :
             \E ms \in 0..timestamp[s], n \in 0..peak[s] :
                 i = Id(s, ms, n) /\ (ms = timestamp[s] => n <= step[s])

IdsCounted ==
    \A s \in Takers : /\ IsFiniteSet(ids[s])
                      /\ peak[s] <= lowMax => Cardinality(ids[s]) = given[s]

UInv == SnowflakeTypes /\ SeedsMade /\ IdsPast /\ IdsCounted

LEMMA UInvInit == SnowflakeInit => UInv
  BY SnowflakeAssumption, FS_EmptySet
  DEF SnowflakeInit, UInv, SnowflakeTypes, SeedsMade, IdsPast, IdsCounted

\* A new millisecond, or a step the seed has not taken in this one, makes a new id.
LEMMA NewId ==
    ASSUME UInv, NEW s \in Takers, NEW n \in 0..lowMax, peak[s] <= lowMax,
           \/ timestamp[s] < now
           \/ timestamp[s] = now /\ step[s] < n /\ n <= stepMax
    PROVE  Id(s, now, n) \notin ids[s]
<1> SUFFICES ASSUME Id(s, now, n) \in ids[s] PROVE FALSE
  OBVIOUS
<1>1. PICK ms \in 0..timestamp[s], m \in 0..peak[s] :
        Id(s, now, n) = Id(s, ms, m) /\ (ms = timestamp[s] => m <= step[s])
  BY DEF UInv, IdsPast
<1>2. /\ timestamp[s] \in Nat /\ timestamp[s] <= LastMs /\ peak[s] \in Nat
      /\ step[s] \in Nat /\ now \in 0..LastMs /\ seedNo[s] \in 0..seedMax
      /\ timestamp[s] <= now
  BY DEF UInv, SnowflakeTypes, IdsPast
<1>3. ms \in 0..LastMs /\ m \in 0..lowMax
  BY <1>1, <1>2, SnowflakeAssumption
<1>4. now = ms /\ (n <= stepMax /\ m <= stepMax => n = m)
  BY <1>1, <1>2, <1>3, IdTells
<1> QED BY <1>1, <1>2, <1>3, <1>4, SnowflakeAssumption

\* Giving out an id which no step of the seed has made yet.
LEMMA GiveStep ==
    ASSUME UInv, NEW g \in Takers, NEW s \in Takers, NEW n \in Nat, Give(g, s, n),
           s = mine[g], takerAt' = [takerAt EXCEPT ![g] = "idle"],
           UNCHANGED <<now, seedVar, seedNo, mine>>,
           \/ timestamp[s] < now
           \/ timestamp[s] = now /\ step[s] < n /\ n <= stepMax
    PROVE  UInv'
<1>t. SnowflakeTypes
  BY DEF UInv
<1>1. /\ timestamp' = [timestamp EXCEPT ![s] = now]
      /\ step' = [step EXCEPT ![s] = n]
      /\ peak' = [peak EXCEPT ![s] = IF n > peak[s] THEN n ELSE peak[s]]
      /\ ids' = [ids EXCEPT ![s] = ids[s] \cup {Id(s, now, n)}]
      /\ given' = [given EXCEPT ![s] = given[s] + 1]
  BY DEF Give, SetStep
<1>2. \A t \in Takers \ {s} : /\ timestamp'[t] = timestamp[t] /\ step'[t] = step[t]
                             /\ peak'[t] = peak[t] /\ ids'[t] = ids[t]
                             /\ given'[t] = given[t]
  BY <1>1, <1>t DEF SnowflakeTypes
<1>3. /\ timestamp'[s] = now /\ step'[s] = n /\ given'[s] = given[s] + 1
      /\ peak'[s] = (IF n > peak[s] THEN n ELSE peak[s])
      /\ ids'[s] = ids[s] \cup {Id(s, now, n)}
  BY <1>1, <1>t DEF SnowflakeTypes
<1>n. /\ now \in 0..LastMs /\ now \in Nat /\ timestamp[s] \in Nat /\ peak[s] \in Nat
      /\ step[s] \in Nat /\ timestamp[s] <= now /\ step[s] <= peak[s]
      /\ given[s] \in Nat
  BY <1>t, SnowflakeAssumption DEF SnowflakeTypes, UInv, IdsPast
<1>4. /\ peak'[s] \in Nat /\ n <= peak'[s] /\ peak[s] <= peak'[s]
  BY <1>3, <1>n
<1>5. SnowflakeTypes'
  <2>1. ids' = [t \in Takers |-> ids'[t]]
    BY <1>1, <1>t DEF SnowflakeTypes
  <2>2. /\ timestamp' \in [Takers -> 0..LastMs] /\ step' \in [Takers -> Nat]
        /\ peak' \in [Takers -> Nat] /\ given' \in [Takers -> Nat]
    BY <1>1, <1>n, <1>t DEF SnowflakeTypes
  <2> QED BY <2>1, <2>2, <1>t DEF SnowflakeTypes
<1>6. SeedsMade'
  BY <1>2, <1>t, SnowflakeAssumption DEF UInv, SeedsMade, SnowflakeTypes
<1>id. ASSUME NEW t, NEW ms, NEW m PROVE Id(t, ms, m)' = Id(t, ms, m)
  BY DEF Id
<1>7. IdsPast'
  <2> SUFFICES ASSUME NEW t \in Takers
               PROVE  /\ timestamp'[t] <= now /\ step'[t] <= peak'[t]
                      /\ \A i \in ids'[t] :
                           \E ms \in 0..timestamp'[t], m \in 0..peak'[t] :
                             i = Id(t, ms, m) /\ (ms = timestamp'[t] => m <= step'[t])
    BY <1>id DEF IdsPast
  <2>1. CASE t # s
    BY <1>2, <2>1 DEF UInv, IdsPast
  <2>2. CASE t = s
    <3> SUFFICES ASSUME NEW i \in ids'[s]
                 PROVE  \E ms \in 0..now, m \in 0..peak'[s] :
                          i = Id(s, ms, m) /\ (ms = now => m <= n)
      BY <1>3, <1>4, <1>n, <2>2
    <3>1. CASE i = Id(s, now, n)
      BY <1>4, <1>n, <3>1
    <3>2. CASE i \in ids[s]
      <4>1. PICK ms \in 0..timestamp[s], m \in 0..peak[s] :
              i = Id(s, ms, m) /\ (ms = timestamp[s] => m <= step[s])
        BY <3>2 DEF UInv, IdsPast
      <4>2. ms \in 0..now /\ m \in 0..peak'[s]
        BY <1>4, <1>n
      <4>3. ms = now => m <= n
        BY <1>n, <4>1
      <4> QED BY <4>1, <4>2, <4>3
    <3> QED BY <1>3, <3>1, <3>2
  <2> QED BY <2>1, <2>2
<1>8. IdsCounted'
  <2> SUFFICES ASSUME NEW t \in Takers
               PROVE  /\ IsFiniteSet(ids'[t])
                      /\ peak'[t] <= lowMax => Cardinality(ids'[t]) = given'[t]
    BY DEF IdsCounted
  <2>1. CASE t # s
    BY <1>2, <2>1 DEF UInv, IdsCounted
  <2>2. CASE t = s
    <3>1. IsFiniteSet(ids[s])
      BY DEF UInv, IdsCounted
    <3>2. /\ IsFiniteSet(ids'[s])
          /\ Id(s, now, n) \notin ids[s] => Cardinality(ids'[s]) = Cardinality(ids[s]) + 1
      <4>1. /\ IsFiniteSet(ids[s] \cup {Id(s, now, n)})
            /\ Cardinality(ids[s] \cup {Id(s, now, n)}) =
                 IF Id(s, now, n) \in ids[s] THEN Cardinality(ids[s])
                                             ELSE Cardinality(ids[s]) + 1
        BY <3>1, FS_AddElement
      <4> QED BY <1>3, <4>1
    <3>3. ASSUME peak'[s] <= lowMax PROVE Cardinality(ids'[s]) = given'[s]
      <4>1. n \in 0..lowMax /\ peak[s] <= lowMax
        BY <1>4, <1>n, <3>3, SnowflakeAssumption
      <4>2. Cardinality(ids[s]) = given[s]
        BY <4>1 DEF UInv, IdsCounted
      <4> QED BY <1>3, <3>2, <4>1, <4>2, NewId
    <3> QED BY <2>2, <3>2, <3>3
  <2> QED BY <2>1, <2>2
<1> QED BY <1>5, <1>6, <1>7, <1>8 DEF UInv

LEMMA UInvStep == UInv /\ [SnowflakeNext]_snowflakeVars => UInv'
<1> SUFFICES ASSUME UInv, [SnowflakeNext]_snowflakeVars PROVE UInv'
  OBVIOUS
<1> USE SnowflakeAssumption DEF seeds, takers, TakerGo
<1>t. SnowflakeTypes /\ SeedsMade
  BY DEF UInv
<1>id. ASSUME UNCHANGED seedNo, NEW t, NEW ms, NEW m PROVE Id(t, ms, m)' = Id(t, ms, m)
  BY <1>id DEF Id
<1>1. CASE Millisecond
  <2>1. now' \in 1..LastMs /\ now < now' /\ UNCHANGED <<seedVar, seeds, takers>>
    BY <1>1, <1>t DEF Millisecond, SnowflakeTypes
  <2>2. SnowflakeTypes' /\ SeedsMade' /\ IdsCounted'
    BY <2>1 DEF UInv, SnowflakeTypes, SeedsMade, IdsCounted
  <2>3. IdsPast'
    <3>1. \A s \in Takers : timestamp[s] <= now'
      BY <1>t, <2>1 DEF UInv, SnowflakeTypes, IdsPast
    <3> QED BY <1>id, <2>1, <3>1 DEF UInv, IdsPast
  <2> QED BY <2>2, <2>3 DEF UInv
<1>2. ASSUME NEW g \in Takers, GenerateRaw(g) PROVE UInv'
  <2>1. SnowflakeTypes' /\ SeedsMade' /\ IdsCounted'
    BY <1>2, <1>t DEF GenerateRaw, UInv, SnowflakeTypes, SeedsMade, IdsCounted
  <2>2. IdsPast'
    BY <1>2, <1>id DEF GenerateRaw, UInv, IdsPast
  <2> QED BY <2>1, <2>2 DEF UInv
<1>3. ASSUME NEW g \in Takers, MakeSeed(g) PROVE UInv'
  <2>1. now % (seedMax + 1) \in 0..seedMax
    BY <1>t DEF SnowflakeTypes
  <2>2. SnowflakeTypes' /\ SeedsMade' /\ IdsCounted'
    BY <1>3, <1>t, <2>1 DEF MakeSeed, UInv, SnowflakeTypes, SeedsMade, IdsCounted
  <2>3. IdsPast'
    <3>1. ASSUME NEW s \in Takers, s # g, NEW ms, NEW m PROVE Id(s, ms, m)' = Id(s, ms, m)
      BY <1>3, <1>t, <3>1 DEF MakeSeed, Id, SnowflakeTypes
    <3>2. ids[g] = {}
      BY <1>3, <1>t DEF MakeSeed, SeedsMade
    <3> QED BY <1>3, <3>1, <3>2 DEF MakeSeed, UInv, IdsPast
  <2> QED BY <2>2, <2>3 DEF UInv
<1>4. ASSUME NEW g \in Takers, ReturnSeed(g) PROVE UInv'
  <2>1. SnowflakeTypes' /\ SeedsMade' /\ IdsCounted'
    BY <1>4, <1>t DEF ReturnSeed, UInv, SnowflakeTypes, SeedsMade, IdsCounted
  <2>2. IdsPast'
    BY <1>4, <1>id DEF ReturnSeed, UInv, IdsPast
  <2> QED BY <2>1, <2>2 DEF UInv
<1>5. ASSUME NEW g \in Takers, Generate(g) PROVE UInv'
  <2> DEFINE s == mine[g]
             n == IF timestamp[s] = now THEN step[s] + 1 ELSE 0
  <2>1. s \in Takers
    BY <1>5, <1>t DEF Generate, SeedsMade, SnowflakeTypes
  <2>2. /\ n \in Nat /\ n <= stepMax /\ Give(g, s, n)
        /\ takerAt' = [takerAt EXCEPT ![g] = "idle"]
        /\ UNCHANGED <<now, seedVar, seedNo, mine>>
    BY <1>5, <1>t, <2>1 DEF Generate, SnowflakeTypes
  <2>3. \/ timestamp[s] < now
        \/ timestamp[s] = now /\ step[s] < n /\ n <= stepMax
    BY <1>t, <2>1, <2>2 DEF UInv, IdsPast, SnowflakeTypes
  <2> QED BY <2>1, <2>2, <2>3, GiveStep
<1>6. ASSUME NEW g \in Takers, Overflow(g) PROVE UInv'
  <2> DEFINE s == mine[g]
  <2>1. s \in Takers
    BY <1>6, <1>t DEF Overflow, SeedsMade, SnowflakeTypes
  <2>2. /\ step' = [step EXCEPT ![s] = step[s] + 1]
        /\ peak' = [peak EXCEPT ![s] = IF step[s] + 1 > peak[s] THEN step[s] + 1
                                       ELSE peak[s]]
        /\ takerAt[g] = "generate" /\ takerAt' = [takerAt EXCEPT ![g] = "spin"]
        /\ UNCHANGED <<now, seedVar, seedNo, timestamp, mine, ids, given>>
    BY <1>6 DEF Overflow, SetStep
  <2>3. ASSUME NEW t \in Takers
        PROVE  /\ step'[t] \in Nat /\ peak'[t] \in Nat
               /\ step[t] <= step'[t] /\ step'[t] <= peak'[t] /\ peak[t] <= peak'[t]
    BY <1>t, <2>1, <2>2 DEF UInv, IdsPast, SnowflakeTypes
  <2>4. step' \in [Takers -> Nat] /\ peak' \in [Takers -> Nat]
    BY <1>t, <2>1, <2>2, <2>3 DEF SnowflakeTypes
  <2>5. SnowflakeTypes' /\ SeedsMade'
    BY <1>t, <2>2, <2>4 DEF SnowflakeTypes, SeedsMade
  <2>6. IdsCounted'
    BY <1>t, <2>2, <2>3 DEF UInv, IdsCounted, SnowflakeTypes
  <2>7. IdsPast'
    <3> SUFFICES ASSUME NEW t \in Takers, NEW i \in ids[t]
                 PROVE  \E ms \in 0..timestamp[t], m \in 0..peak'[t] :
                          i = Id(t, ms, m) /\ (ms = timestamp[t] => m <= step'[t])
      BY <1>id, <2>2, <2>3 DEF UInv, IdsPast
    <3>1. PICK ms \in 0..timestamp[t], m \in 0..peak[t] :
            i = Id(t, ms, m) /\ (ms = timestamp[t] => m <= step[t])
      BY DEF UInv, IdsPast
    <3>2. m \in 0..peak'[t] /\ (m <= step[t] => m <= step'[t])
      BY <1>t, <2>3 DEF SnowflakeTypes
    <3> QED BY <3>1, <3>2
  <2> QED BY <2>5, <2>6, <2>7 DEF UInv
<1>7. ASSUME NEW g \in Takers, Spin(g) PROVE UInv'
  <2> DEFINE s == mine[g]
  <2>1. s \in Takers
    BY <1>7, <1>t DEF Spin, SeedsMade, SnowflakeTypes
  <2>2. /\ step[s] \in Nat /\ Give(g, s, step[s]) /\ timestamp[s] < now
        /\ takerAt' = [takerAt EXCEPT ![g] = "idle"]
        /\ UNCHANGED <<now, seedVar, seedNo, mine>>
    BY <1>7, <1>t, <2>1 DEF Spin, SnowflakeTypes
  <2> QED BY <2>1, <2>2, GiveStep
<1>8. CASE UNCHANGED snowflakeVars
  <2>1. SnowflakeTypes' /\ SeedsMade' /\ IdsCounted'
    BY <1>8 DEF snowflakeVars, UInv, SnowflakeTypes, SeedsMade, IdsCounted
  <2>2. IdsPast'
    BY <1>8, <1>id DEF snowflakeVars, UInv, IdsPast
  <2> QED BY <2>1, <2>2 DEF UInv
<1> QED
  BY <1>1, <1>2, <1>3, <1>4, <1>5, <1>6, <1>7, <1>8 DEF SnowflakeNext

LEMMA UInvUnique == UInv => UniqueIds
<1> SUFFICES ASSUME UInv, NEW s \in Takers, NEW t \in Takers,
                    seedNo[s] # seedNo[t], peak[s] <= stepMax, peak[t] <= stepMax,
                    NEW i \in ids[s], i \in ids[t]
             PROVE  FALSE
  BY DEF UInv, IdsCounted, UniqueIds
<1>1. PICK a \in 0..timestamp[s], m \in 0..peak[s] : i = Id(s, a, m)
  BY DEF UInv, IdsPast
<1>2. PICK b \in 0..timestamp[t], n \in 0..peak[t] : i = Id(t, b, n)
  BY DEF UInv, IdsPast
<1>3. /\ timestamp[s] \in 0..LastMs /\ timestamp[t] \in 0..LastMs
      /\ peak[s] \in Nat /\ peak[t] \in Nat
      /\ seedNo[s] \in 0..seedMax /\ seedNo[t] \in 0..seedMax
  BY DEF UInv, SnowflakeTypes
<1>4. /\ a \in 0..LastMs /\ b \in 0..LastMs /\ m \in 0..lowMax /\ n \in 0..lowMax
      /\ m <= stepMax /\ n <= stepMax
  BY <1>3, SnowflakeAssumption
<1>5. Id(s, a, m) = Id(t, b, n)
  BY <1>1, <1>2
<1> QED BY <1>3, <1>4, <1>5, IdTells

\* One seed gives no id twice before its step reaches the time bits, not even
\* in the milliseconds after it has run over, and two seeds that came about in
\* one process give different ids while none has run over: for any widths, any
\* clock that does not step back and any goroutines.
THEOREM UniqueIdsCorrect == SnowflakeSpec => []UniqueIds
  BY UInvInit, UInvStep, UInvUnique, PTL DEF SnowflakeSpec
=============================================================================
