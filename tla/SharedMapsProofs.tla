-------------------------- MODULE SharedMapsProofs ---------------------------
(***************************************************************************)
(* Theorems about the two maps that goroutines share behind a lock, Cache  *)
(* and Container, for any keys, goroutines and lifetimes: their types,     *)
(* which interleavings can leave a value in the cache that is behind its   *)
(* row, and that a key of the container has one instance unless two uses   *)
(* of it overlapped.                                                       *)
(***************************************************************************)
EXTENDS Cache, Container, TLAPS

------------------------------------------------------------------------------
(* The cache *)

LEMMA NewItemType ==
    ASSUME TypeOK, NEW k \in Keys, NEW v \in 0..MaxVersion, NEW ttl \in TTLs
    PROVE  /\ NewItem(k, v, ttl) \in Item
           /\ NewItem(k, v, ttl) # NoItem
           /\ NewItem(k, v, ttl).ver = v
           /\ NewItem(k, v, ttl).late <=> v # version[k]
<1>1. NewItem(k, v, ttl) \in [ver : Nat, expiresAt : Nat, late : BOOLEAN]
    BY CacheAssumption DEF NewItem, TypeOK
<1> QED
    BY <1>1, CacheAssumption DEF NewItem, Item

LEMMA TypeInit == Init => TypeOK
<1> SUFFICES ASSUME Init PROVE TypeOK
    OBVIOUS
<1>1. 0 \in 0..MaxTime /\ 0 \in 0..MaxVersion
    BY CacheAssumption
<1>2. \A p \in Procs : pc[p] = "idle"
    BY DEF Init
<1> QED
    BY <1>1, <1>2 DEF Init, TypeOK, PC

LEMMA TypeNext == TypeOK /\ [Next]_vars => TypeOK'
<1> SUFFICES ASSUME TypeOK, [Next]_vars PROVE TypeOK'
    OBVIOUS
<1> USE CacheAssumption DEF call, PC
<1>1. CASE Tick \/ Purge \/ CleanerEnd
    BY <1>1 DEF Tick, Purge, CleanerEnd, TypeOK
<1>2. ASSUME NEW p \in Procs, NEW k \in Keys, NEW ttl \in TTLs, Set(p, k, ttl)
      PROVE  TypeOK'
  <2>1. NewItem(k, version[k], ttl) \in Item
      BY NewItemType DEF TypeOK
  <2> QED
      BY <1>2, <2>1 DEF Set, Store, TypeOK
<1>3. ASSUME NEW p \in Procs, NEW k \in Keys,
             Lookup(p, k, "getTest") \/ Lookup(p, k, "remTest")
      PROVE  TypeOK'
    BY <1>3 DEF Lookup, TypeOK
<1>4. ASSUME NEW p \in Procs,
             \/ Test(p, "getTest", "getDelete", "idle")
             \/ Test(p, "remTest", "remDelete", "compute")
      PROVE  TypeOK'
    BY <1>4 DEF Test, Return, TypeOK
<1>5. ASSUME NEW p \in Procs,
             \/ ExpireDelete(p, "getDelete", "idle")
             \/ ExpireDelete(p, "remDelete", "compute")
      PROVE  TypeOK'
    BY <1>5 DEF ExpireDelete, Return, TypeOK
<1>6. ASSUME NEW p \in Procs, Compute(p) PROVE TypeOK'
    BY <1>6 DEF Compute, Return, TypeOK
<1>7. ASSUME NEW p \in Procs, NEW ttl \in TTLs, RememberStore(p, ttl) PROVE TypeOK'
  <2>1. key[p] \in Keys /\ NewItem(key[p], value[p], ttl) \in Item
      BY <1>7, NewItemType DEF RememberStore, TypeOK
  <2> QED
      BY <1>7, <2>1 DEF RememberStore, Store, Return, TypeOK
<1>8. ASSUME NEW p \in Procs, NEW k \in Keys, UpdateRow(p, k) PROVE TypeOK'
    BY <1>8 DEF UpdateRow, TypeOK
<1>9. ASSUME NEW p \in Procs, Invalidate(p) \/ Flush(p) PROVE TypeOK'
    BY <1>9 DEF Invalidate, Delete, Flush, Return, TypeOK
<1>10. ASSUME NEW p \in Procs, CloseTest(p) \/ CloseStop(p) PROVE TypeOK'
  <2>1. CASE CloseTest(p)
      BY <2>1 DEF CloseTest, TypeOK
  <2>2. CASE CloseStop(p)
      BY <2>2 DEF CloseStop, TypeOK
  <2> QED
      BY <1>10, <2>1, <2>2
<1>11. CASE UNCHANGED vars
    BY <1>11 DEF vars, TypeOK
<1> QED
    BY <1>1, <1>2, <1>3, <1>4, <1>5, <1>6, <1>7, <1>8, <1>9, <1>10, <1>11
       DEF Next, Use, Get, Remember

\* Every variable keeps its type; a call that needs a key has one.
THEOREM CacheType == Spec => []TypeOK
BY TypeInit, TypeNext, PTL DEF Spec

------------------------------------------------------------------------------

LEMMA StaleNext == TypeOK /\ StaleExplained /\ [Next]_vars => StaleExplained'
<1> SUFFICES ASSUME TypeOK, StaleExplained, [Next]_vars PROVE StaleExplained'
    OBVIOUS
<1> USE CacheAssumption DEF call, StaleExplained
\* A step that at most removes entries, and ends no update, changes nothing.
<1>1. ASSUME \A k \in Keys : items'[k] = NoItem \/ items'[k] = items[k],
             UNCHANGED version,
             \A p \in Procs : pc[p] = "invalidate" =>
                                  pc'[p] = "invalidate" /\ key'[p] = key[p]
      PROVE  StaleExplained'
    BY <1>1
<1>2. CASE Tick \/ Purge \/ CleanerEnd
    BY <1>1, <1>2 DEF Tick, Purge, CleanerEnd, TypeOK
<1>3. ASSUME NEW k \in Keys, NEW v \in 0..MaxVersion, NEW ttl \in TTLs,
             Store(k, v, ttl), UNCHANGED version,
             \A p \in Procs : pc[p] = "invalidate" =>
                                  pc'[p] = "invalidate" /\ key'[p] = key[p]
      PROVE  StaleExplained'
  <2>1. \A l \in Keys : items'[l] = IF l = k THEN NewItem(k, v, ttl) ELSE items[l]
      BY <1>3 DEF Store, TypeOK
  <2> QED
      BY <1>3, <2>1, NewItemType
<1>4. ASSUME NEW p \in Procs, NEW k \in Keys, NEW ttl \in TTLs, Set(p, k, ttl)
      PROVE  StaleExplained'
    BY <1>3, <1>4 DEF Set, TypeOK
<1>5. ASSUME NEW p \in Procs, NEW ttl \in TTLs, RememberStore(p, ttl)
      PROVE  StaleExplained'
    BY <1>3, <1>5 DEF RememberStore, Return, TypeOK
<1>6. ASSUME NEW p \in Procs, NEW k \in Keys,
             Lookup(p, k, "getTest") \/ Lookup(p, k, "remTest")
      PROVE  StaleExplained'
    BY <1>1, <1>6 DEF Lookup, TypeOK
<1>7. ASSUME NEW p \in Procs,
             \/ Test(p, "getTest", "getDelete", "idle")
             \/ Test(p, "remTest", "remDelete", "compute")
      PROVE  StaleExplained'
    BY <1>1, <1>7 DEF Test, Return, TypeOK
<1>8. ASSUME NEW p \in Procs,
             \/ ExpireDelete(p, "getDelete", "idle")
             \/ ExpireDelete(p, "remDelete", "compute")
      PROVE  StaleExplained'
    BY <1>1, <1>8 DEF ExpireDelete, Return, TypeOK
<1>9. ASSUME NEW p \in Procs, Compute(p) PROVE StaleExplained'
    BY <1>1, <1>9 DEF Compute, Return, TypeOK
<1>10. ASSUME NEW p \in Procs, NEW k \in Keys, UpdateRow(p, k) PROVE StaleExplained'
  <2>1. /\ pc'[p] = "invalidate" /\ key'[p] = k /\ UNCHANGED items
        /\ \A l \in Keys \ {k} : version'[l] = version[l]
        /\ \A q \in Procs : pc[q] = "invalidate" =>
                                pc'[q] = "invalidate" /\ key'[q] = key[q]
      BY <1>10 DEF UpdateRow, TypeOK
  <2> QED
      BY <2>1
<1>11. ASSUME NEW p \in Procs, Invalidate(p) PROVE StaleExplained'
  <2>1. /\ items'[key[p]] = NoItem /\ UNCHANGED version
        /\ \A l \in Keys \ {key[p]} : items'[l] = items[l]
        /\ \A q \in Procs \ {p} : pc'[q] = pc[q] /\ key'[q] = key[q]
      BY <1>11 DEF Invalidate, Delete, Return, TypeOK
  <2> QED
      BY <2>1
<1>12. ASSUME NEW p \in Procs, Flush(p) PROVE StaleExplained'
    BY <1>1, <1>12 DEF Flush, TypeOK
<1>13. ASSUME NEW p \in Procs, CloseTest(p) \/ CloseStop(p) PROVE StaleExplained'
    BY <1>1, <1>13 DEF CloseTest, CloseStop, TypeOK
<1>14. CASE UNCHANGED vars
    BY <1>1, <1>14 DEF vars
<1> QED
    BY <1>2, <1>4, <1>5, <1>6, <1>7, <1>8, <1>9, <1>10, <1>11, <1>12, <1>13, <1>14
       DEF Next, Use, Get, Remember

\* A value behind its row stays in the cache only if the callback of a Remember ran
\* before an update of the row and its Set after it.
THEOREM StaleEntriesExplained == Spec => []StaleExplained
<1>1. Init => StaleExplained
    BY DEF Init, StaleExplained
<1> QED
    BY <1>1, StaleNext, CacheType, PTL DEF Spec

------------------------------------------------------------------------------
(* Entries without an expiration. *)

\* Such an entry has the zero time, and who deletes an expired entry has seen one.
ForeverInv ==
    /\ \A k \in forever : items[k] = NoItem \/ items[k].expiresAt = 0
    /\ \A p \in Procs : pc[p] \in {"getDelete", "remDelete"} => Expired(seen[p])

LEMMA ForeverNext == TypeOK /\ ForeverInv /\ [Next]_vars => ForeverInv'
<1> SUFFICES ASSUME TypeOK, ForeverInv, [Next]_vars PROVE ForeverInv'
    OBVIOUS
<1> USE CacheAssumption DEF call
\* A step that stores nothing, and after which a goroutine at a delete was there
\* before or has looked at its entry.
<1>1. ASSUME \A k \in forever' : k \in forever /\ (items'[k] = items[k] \/ items'[k] = NoItem),
             now' = now,
             \A p \in Procs : pc'[p] \in {"getDelete", "remDelete"} =>
                 seen'[p] = seen[p] /\ (pc'[p] = pc[p] \/ Expired(seen[p]))
      PROVE  ForeverInv'
    BY <1>1 DEF ForeverInv, Expired
<1>2. ASSUME NEW k \in Keys, NEW v \in 0..MaxVersion, NEW ttl \in TTLs, Store(k, v, ttl),
             now' = now,
             \A p \in Procs : pc'[p] \in {"getDelete", "remDelete"} =>
                                  pc'[p] = pc[p] /\ seen'[p] = seen[p]
      PROVE  ForeverInv'
  <2>1. \A l \in Keys : items'[l] = IF l = k THEN NewItem(k, v, ttl) ELSE items[l]
      BY <1>2 DEF Store, TypeOK
  <2>2. k \in forever' => ttl = 0
      BY <1>2 DEF Store
  <2>3. ttl = 0 => NewItem(k, v, ttl).expiresAt = 0
      BY DEF NewItem
  <2>4. \A l \in forever' \ {k} : l \in forever /\ l \in Keys
      BY <1>2 DEF Store, TypeOK
  <2>5. \A l \in forever' : items'[l] = NoItem \/ items'[l].expiresAt = 0
      BY <2>1, <2>2, <2>3, <2>4 DEF ForeverInv
  <2> QED
      BY <1>2, <2>5 DEF ForeverInv, Expired
<1>3. CASE Tick
  <2>1. /\ now \in Nat /\ now' = now + 1 /\ UNCHANGED <<items, pc, seen, forever>>
        /\ \A p \in Procs : seen[p] = NoItem \/ seen[p].expiresAt \in Nat
      BY <1>3 DEF Tick, TypeOK, Item
  <2>2. \A p \in Procs : Expired(seen[p]) => Expired(seen[p])'
      BY <2>1 DEF Expired
  <2> QED
      BY <2>1, <2>2 DEF ForeverInv
<1>4. CASE Purge
    BY <1>1, <1>4 DEF Purge, TypeOK
<1>5. CASE CleanerEnd
    BY <1>1, <1>5 DEF CleanerEnd
<1>6. ASSUME NEW p \in Procs, NEW k \in Keys, NEW ttl \in TTLs, Set(p, k, ttl)
      PROVE  ForeverInv'
    BY <1>2, <1>6 DEF Set, TypeOK
<1>7. ASSUME NEW p \in Procs, NEW ttl \in TTLs, RememberStore(p, ttl) PROVE ForeverInv'
  <2>1. key[p] \in Keys /\ value[p] \in 0..MaxVersion
      BY <1>7 DEF RememberStore, TypeOK, PC
  <2> QED
      BY <1>2, <1>7, <2>1 DEF RememberStore, Return, TypeOK
<1>8. ASSUME NEW p \in Procs, NEW k \in Keys,
             Lookup(p, k, "getTest") \/ Lookup(p, k, "remTest")
      PROVE  ForeverInv'
    BY <1>1, <1>8 DEF Lookup, TypeOK
<1>9. ASSUME NEW p \in Procs,
             \/ Test(p, "getTest", "getDelete", "idle")
             \/ Test(p, "remTest", "remDelete", "compute")
      PROVE  ForeverInv'
    BY <1>1, <1>9 DEF Test, Return, TypeOK
<1>10. ASSUME NEW p \in Procs,
              \/ ExpireDelete(p, "getDelete", "idle")
              \/ ExpireDelete(p, "remDelete", "compute")
       PROVE  ForeverInv'
    BY <1>1, <1>10 DEF ExpireDelete, Return, TypeOK
<1>11. ASSUME NEW p \in Procs, Compute(p) PROVE ForeverInv'
    BY <1>1, <1>11 DEF Compute, Return, TypeOK
<1>12. ASSUME NEW p \in Procs, NEW k \in Keys, UpdateRow(p, k) PROVE ForeverInv'
    BY <1>1, <1>12 DEF UpdateRow, TypeOK
<1>13. ASSUME NEW p \in Procs, Invalidate(p) PROVE ForeverInv'
    BY <1>1, <1>13 DEF Invalidate, Delete, Return, TypeOK
<1>14. ASSUME NEW p \in Procs, Flush(p) \/ CloseTest(p) \/ CloseStop(p) PROVE ForeverInv'
    BY <1>1, <1>14 DEF Flush, CloseTest, CloseStop, TypeOK
<1>15. CASE UNCHANGED vars
    BY <1>1, <1>15 DEF vars
<1> QED
    BY <1>3, <1>4, <1>5, <1>6, <1>7, <1>8, <1>9, <1>10, <1>11, <1>12, <1>13, <1>14, <1>15
       DEF Next, Use, Get, Remember

\* An entry that was stored without an expiration disappears only in a Delete or a
\* Flush, or in a Get or Remember that had read an expired entry of its key before.
THEOREM ForeverEntriesStay == Spec => ForeverLostExplained
<1>1. Init => ForeverInv
    BY DEF Init, ForeverInv
<1>2. TypeOK /\ ForeverInv /\ [Next]_vars =>
         [\A k \in forever \cap forever' :
             items[k] # NoItem /\ items'[k] = NoItem =>
                 \E p \in Procs : /\ pc[p] \in {"getDelete", "remDelete"} /\ key[p] = k
                                  /\ Expired(seen[p]) /\ pc'[p] # pc[p]]_vars
  <2> SUFFICES ASSUME TypeOK, ForeverInv, [Next]_vars,
                      NEW k \in forever \cap forever', items[k] # NoItem, items'[k] = NoItem
               PROVE  \E p \in Procs : /\ pc[p] \in {"getDelete", "remDelete"} /\ key[p] = k
                                       /\ Expired(seen[p]) /\ pc'[p] # pc[p]
      OBVIOUS
  <2> USE CacheAssumption DEF call
  <2>1. k \in Keys /\ ~Expired(items[k])
      BY DEF ForeverInv, Expired, TypeOK
  <2>2. items' # items
      OBVIOUS
  <2>3. ~Purge
      BY <2>1 DEF Purge
  <2>4. ASSUME NEW l \in Keys, NEW v \in 0..MaxVersion, NEW ttl \in TTLs, Store(l, v, ttl)
        PROVE  FALSE
    <3>1. items'[k] = IF k = l THEN NewItem(l, v, ttl) ELSE items[k]
        BY <2>1, <2>4 DEF Store, TypeOK
    <3> QED
        BY <3>1, NewItemType
  <2>5. \A p \in Procs, ttl \in TTLs : ~RememberStore(p, ttl) /\ \A l \in Keys : ~Set(p, l, ttl)
      BY <2>4 DEF RememberStore, Set, TypeOK, PC
  <2>6. \A p \in Procs : ~Flush(p)
      BY DEF Flush
  <2>7. \A p \in Procs : ~Invalidate(p)
      BY <2>1 DEF Invalidate, Delete, TypeOK
  <2>8. PICK p \in Procs : \/ ExpireDelete(p, "getDelete", "idle")
                           \/ ExpireDelete(p, "remDelete", "compute")
      BY <2>2, <2>3, <2>5, <2>6, <2>7
         DEF Next, Use, Get, Remember, Tick, CleanerEnd, Lookup, Test, Compute, UpdateRow,
             CloseTest, CloseStop, vars
  <2>9. key[p] = k
      BY <2>1, <2>8 DEF ExpireDelete, TypeOK
  <2>10. pc[p] \in {"getDelete", "remDelete"} /\ pc'[p] # pc[p]
      BY <2>8 DEF ExpireDelete, Return, TypeOK
  <2> QED
      BY <2>9, <2>10 DEF ForeverInv
<1> QED
    BY <1>1, <1>2, ForeverNext, CacheType, PTL DEF Spec, ForeverLostExplained

------------------------------------------------------------------------------
(* The container *)

LEMMA InstancesTypeInit == NewContainer => ContainerTypeOK
BY ContainerAssumption DEF ContainerAssumption, NewContainer, ContainerTypeOK, None

\* A number that is handed out is new, within the bound and not None.
LEMMA FreshType ==
    ASSUME ContainerTypeOK, Fresh
    PROVE  last' \in 1..MaxInstances /\ last' # None
BY ContainerAssumption DEF ContainerAssumption, ContainerTypeOK, Fresh, None

LEMMA InstancesTypeNext == ContainerTypeOK /\ [ContainerNext]_containerVars => ContainerTypeOK'
<1> SUFFICES ASSUME ContainerTypeOK, [ContainerNext]_containerVars PROVE ContainerTypeOK'
    OBVIOUS
<1> USE ContainerAssumption DEF ContainerAssumption, ContainerTypeOK
<1>1. ASSUME NEW k \in Services, Bind(k) PROVE ContainerTypeOK'
    BY <1>1, FreshType DEF Bind
<1>2. ASSUME NEW k \in Services, Singleton(k) PROVE ContainerTypeOK'
    BY <1>2 DEF Singleton
<1>3. ASSUME NEW g \in Goroutines, Factory(g) PROVE ContainerTypeOK'
  <2>1. last' \in 1..MaxInstances /\ make[g].key \in Services
      BY <1>3, FreshType DEF Factory, Idle
  <2> QED
      BY <1>3, <2>1 DEF Factory
<1>4. ASSUME NEW g \in Goroutines, MakeStore(g) PROVE ContainerTypeOK'
  <2>1. make[g].key \in Services /\ make[g].inst \in 1..MaxInstances
      BY <1>4 DEF MakeStore, Idle
  <2> QED
      BY <1>4, <2>1 DEF MakeStore, Returns
<1>5. ASSUME NEW g \in Goroutines, NEW k \in Services, MakeRead(g, k) PROVE ContainerTypeOK'
    BY <1>5 DEF MakeRead, Returns, None
<1>6. ASSUME NEW g \in Goroutines, FactoryPanics(g) PROVE ContainerTypeOK'
  <2>1. make[g].key \in Services
      BY <1>6 DEF FactoryPanics, Idle
  <2> QED
      BY <1>6, <2>1 DEF FactoryPanics
<1>7. CASE UNCHANGED containerVars
    BY <1>7 DEF containerVars
<1> QED
    BY <1>1, <1>2, <1>3, <1>4, <1>5, <1>6, <1>7 DEF ContainerNext

\* Every variable keeps its type; an instance that is stored or returned was
\* numbered before.
THEOREM ContainerType == ContainerSpec => []ContainerTypeOK
BY InstancesTypeInit, InstancesTypeNext, PTL DEF ContainerSpec

------------------------------------------------------------------------------

\* g is in a Make of k that has found no instance and not stored one yet.
MakingBy(g, k) == make[g].at \in {"missing", "built"} /\ make[g].key = k

\* A key nobody raced for has at most one such call, and as long as there is one
\* no instance is stored and none has been returned.
FirstUse ==
    \A k \in Services \ raced :
        /\ \A g, h \in Goroutines : MakingBy(g, k) /\ MakingBy(h, k) => g = h
        /\ Making(k) => instances[k] = None
        /\ got[k] \subseteq {instances[k]}

LEMMA FirstUseNext == ContainerTypeOK /\ FirstUse /\ [ContainerNext]_containerVars => FirstUse'
<1> SUFFICES ASSUME ContainerTypeOK, FirstUse, [ContainerNext]_containerVars PROVE FirstUse'
    OBVIOUS
<1>a. \A k \in Services : Making(k) <=> \E g \in Goroutines : MakingBy(g, k)
    BY DEF Making, MakingBy
<1>b. \A k \in Services : Making(k)' <=> \E g \in Goroutines : MakingBy(g, k)'
    BY DEF Making, MakingBy
<1>1. ASSUME NEW k \in Services, Bind(k) PROVE FirstUse'
    BY <1>1, FreshType DEF Bind, FirstUse, Making, MakingBy, ContainerTypeOK
<1>2. ASSUME NEW k \in Services, Singleton(k) PROVE FirstUse'
    BY <1>2 DEF Singleton, FirstUse, Making, MakingBy
<1>3. ASSUME NEW g \in Goroutines, Factory(g) PROVE FirstUse'
  <2>1. \A h \in Goroutines, k \in Services : MakingBy(h, k)' <=> MakingBy(h, k)
      BY <1>3 DEF Factory, MakingBy, ContainerTypeOK
  <2>2. UNCHANGED <<instances, got, raced>>
      BY <1>3 DEF Factory
  <2> QED
      BY <1>a, <1>b, <2>1, <2>2 DEF FirstUse
<1>4. ASSUME NEW g \in Goroutines, MakeStore(g) PROVE FirstUse'
  <2> PICK k \in Services : k = make[g].key
      BY <1>4 DEF MakeStore, ContainerTypeOK, Idle
  <2>1. MakingBy(g, k) /\ make[g].inst # None
      BY <1>4 DEF MakeStore, MakingBy, ContainerTypeOK, Idle, None
  <2>2. k \notin raced => got[k] = {}
      BY <1>a, <2>1 DEF FirstUse, ContainerTypeOK, None
  <2>3. /\ instances'[k] = make[g].inst /\ got'[k] = got[k] \cup {make[g].inst}
        /\ \A l \in Services \ {k} : instances'[l] = instances[l] /\ got'[l] = got[l]
        /\ raced' = raced
      BY <1>4, <2>1 DEF MakeStore, Returns, ContainerTypeOK
  <2>4. \A h \in Goroutines, l \in Services : MakingBy(h, l)' <=> MakingBy(h, l) /\ h # g
      BY <1>4 DEF MakeStore, MakingBy, ContainerTypeOK, Idle
  <2>5. k \notin raced => ~Making(k)'
      BY <1>b, <2>1, <2>4 DEF FirstUse
  <2>6. \A l \in Services \ {k} : Making(l)' => Making(l)
      BY <1>a, <1>b, <2>4
  <2> QED
      BY <2>2, <2>3, <2>4, <2>5, <2>6 DEF FirstUse
<1>5. ASSUME NEW g \in Goroutines, NEW k \in Services, MakeRead(g, k) PROVE FirstUse'
  <2>1. CASE instances[k] # None
    <3>1. UNCHANGED <<instances, make, raced>>
        BY <1>5, <2>1 DEF MakeRead
    <3>2. \A l \in Services : got'[l] \subseteq got[l] \cup {instances[l]}
        BY <1>5, <2>1 DEF MakeRead, Returns, ContainerTypeOK
    <3> QED
        BY <3>1, <3>2 DEF FirstUse, Making, MakingBy
  <2>2. CASE instances[k] = None /\ k \in factories
    <3>1. /\ UNCHANGED <<instances, got>>
          /\ raced' = IF Making(k) THEN raced \cup {k} ELSE raced
        BY <1>5, <2>2 DEF MakeRead
    <3>2. \A h \in Goroutines, l \in Services :
              MakingBy(h, l)' <=> MakingBy(h, l) \/ (h = g /\ l = k)
        BY <1>5, <2>2 DEF MakeRead, MakingBy, ContainerTypeOK, Idle
    <3> QED
        BY <1>a, <1>b, <2>2, <3>1, <3>2 DEF FirstUse
  <2>3. CASE instances[k] = None /\ k \notin factories
    <3>1. UNCHANGED <<instances, got, raced>>
        BY <1>5, <2>3 DEF MakeRead
    <3>2. \A h \in Goroutines, l \in Services : MakingBy(h, l)' <=> MakingBy(h, l)
        BY <1>5, <2>3 DEF MakeRead, MakingBy, ContainerTypeOK, Idle
    <3> QED
        BY <1>a, <1>b, <3>1, <3>2 DEF FirstUse
  <2> QED
      BY <2>1, <2>2, <2>3
<1>6. ASSUME NEW g \in Goroutines, FactoryPanics(g) PROVE FirstUse'
  <2>1. \A h \in Goroutines, k \in Services : MakingBy(h, k)' => MakingBy(h, k)
      BY <1>6 DEF FactoryPanics, MakingBy, ContainerTypeOK
  <2>2. UNCHANGED <<instances, got, raced>>
      BY <1>6 DEF FactoryPanics
  <2> QED
      BY <1>a, <1>b, <2>1, <2>2 DEF FirstUse
<1>7. CASE UNCHANGED containerVars
    BY <1>7 DEF containerVars, FirstUse, Making, MakingBy
<1> QED
    BY <1>1, <1>2, <1>3, <1>4, <1>5, <1>6, <1>7 DEF ContainerNext

\* Every Make of a key returns one instance, unless two first uses of the key, or a
\* first use and a Bind, overlapped, however many goroutines call Make, Bind and
\* Singleton.
THEOREM OneInstancePerKey == ContainerSpec => []OneInstanceUnlessRaced
<1>1. NewContainer => FirstUse
  <2> SUFFICES ASSUME NewContainer PROVE FirstUse
      OBVIOUS
  <2>1. \A g \in Goroutines : make[g].at = "idle"
      BY DEF NewContainer, Idle
  <2> QED
      BY <2>1 DEF NewContainer, FirstUse, Making, MakingBy
<1>2. FirstUse => OneInstanceUnlessRaced
    BY DEF FirstUse, OneInstanceUnlessRaced
<1> QED
    BY <1>1, <1>2, FirstUseNext, ContainerType, PTL DEF ContainerSpec
==============================================================================
