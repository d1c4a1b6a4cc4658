-------------------------------- MODULE Cache --------------------------------
(***************************************************************************)
(* core/cache.go: the in-memory cache with expiry, its cleaner goroutine   *)
(* and the goroutines that call it.                                        *)
(*                                                                         *)
(* Set, Delete, Flush and a purge hold the lock from end to end.  Get      *)
(* releases it before it looks at the expiry, and Remember is a Get, a     *)
(* callback and a Set, so other calls come in between.  The cache is used  *)
(* in front of a database, as the README does it: a cached value stands    *)
(* for the version of the row it was read from, and code that changes a    *)
(* row deletes its key afterwards.                                         *)
(***************************************************************************)
EXTENDS Naturals

CONSTANTS Keys,
          Procs,        \* the goroutines that use the cache
          TTLs,         \* the lifetimes Set is called with; 0 is no expiration
          MaxTime,      \* bound: the clock stops here
          MaxVersion,   \* bound: a row is changed this often
          NoItem, NoKey

ASSUME CacheAssumption == /\ TTLs \subseteq Nat
                          /\ MaxTime \in Nat
                          /\ MaxVersion \in Nat
                          /\ NoKey \notin Keys
                          /\ NoItem \notin [ver : Nat, expiresAt : Nat, late : BOOLEAN]

VARIABLES now,          \* time.Now()
          version,      \* external: the current version of each row
          items,        \* c.items
          pc,           \* what each goroutine is doing
          key,          \* the key of its call
          seen,         \* the item its Get read under the lock
          value,        \* the version its Remember callback returned
          stopped,      \* c.stopCh is closed
          cleaner,      \* startCleanup: "running" or "ended"
          forever       \* history: keys whose last Set had no expiration

call == <<pc, key, seen, value>>
vars == <<now, version, items, call, stopped, cleaner, forever>>

\* late is history: the value was behind its row when it was stored.
Item == [ver : 0..MaxVersion, expiresAt : Nat, late : BOOLEAN]

\* A call of Get stands at getTest or getDelete, a Remember at remTest, remDelete,
\* compute or store, an update of a row at invalidate, a Close at close.
PC == {"idle", "getTest", "getDelete", "remTest", "remDelete", "compute", "store",
       "invalidate", "close", "panicked"}

TypeOK ==
    /\ now \in 0..MaxTime
    /\ version \in [Keys -> 0..MaxVersion]
    /\ items \in [Keys -> Item \cup {NoItem}]
    /\ pc \in [Procs -> PC]
    /\ key \in [Procs -> Keys \cup {NoKey}]
    /\ \A p \in Procs : pc[p] \in PC \ {"idle", "close", "panicked"} => key[p] # NoKey
    /\ seen \in [Procs -> Item \cup {NoItem}]
    /\ value \in [Procs -> 0..MaxVersion]
    /\ stopped \in BOOLEAN
    /\ cleaner \in {"running", "ended"}
    /\ forever \in SUBSET Keys

Init ==
    /\ now = 0
    /\ version = [k \in Keys |-> 0]
    /\ items = [k \in Keys |-> NoItem]
    /\ pc = [p \in Procs |-> "idle"]
    /\ key = [p \in Procs |-> NoKey]
    /\ seen = [p \in Procs |-> NoItem]
    /\ value = [p \in Procs |-> 0]
    /\ stopped = FALSE
    /\ cleaner = "running"
    /\ forever = {}

Expired(item) == item # NoItem /\ item.expiresAt # 0 /\ now > item.expiresAt

\* What Set stores: a lifetime of zero leaves expiresAt the zero time.
NewItem(k, v, ttl) == [ver |-> v,
                       expiresAt |-> IF ttl > 0 THEN now + ttl ELSE 0,
                       late |-> v # version[k]]

Store(k, v, ttl) ==
    /\ items' = [items EXCEPT ![k] = NewItem(k, v, ttl)]
    /\ forever' = IF ttl = 0 THEN forever \cup {k} ELSE forever \ {k}

\* The call of p is over.
Return(p) ==
    /\ pc' = [pc EXCEPT ![p] = "idle"]
    /\ key' = [key EXCEPT ![p] = NoKey]
    /\ seen' = [seen EXCEPT ![p] = NoItem]
    /\ value' = [value EXCEPT ![p] = 0]

------------------------------------------------------------------------------
(* Faulty variants of definitions below, each what a slip in cache.go would make *)
(* of one of them.  No specification uses them: they serve to show that the      *)
(* properties at the end of the module can fail.                                 *)

\* Remember without the err test: what a failed callback left is stored.
ComputeUnchecked(p) ==
    /\ pc[p] = "compute"
    /\ pc' = [pc EXCEPT ![p] = "store"]
    /\ value' \in {[value EXCEPT ![p] = v] : v \in {version[key[p]], NoItem}}
    /\ UNCHANGED <<now, version, items, key, seen, stopped, cleaner, forever>>

\* A Delete that leaves a live entry.
DeleteExpired(k) ==
    /\ items' = [items EXCEPT ![k] = IF Expired(@) THEN NoItem ELSE @]
    /\ forever' = forever \ {k}

\* A purge whose comparison is the wrong way round.
PurgeLive ==
    /\ cleaner = "running"
    /\ items' = [k \in Keys |-> IF items[k] # NoItem /\ items[k].expiresAt # 0
                                    /\ now < items[k].expiresAt
                                 THEN NoItem ELSE items[k]]
    /\ UNCHANGED <<now, version, call, stopped, cleaner, forever>>

\* A purge that takes the zero time for a time gone by.
PurgeZeroTime ==
    /\ cleaner = "running"
    /\ items' = [k \in Keys |-> IF items[k] # NoItem /\ now > items[k].expiresAt
                                 THEN NoItem ELSE items[k]]
    /\ UNCHANGED <<now, version, call, stopped, cleaner, forever>>

\* A stop case that leaves the select but not the loop.
CleanerBreak ==
    /\ cleaner = "running"
    /\ stopped
    /\ UNCHANGED vars

------------------------------------------------------------------------------

Tick ==
    /\ now < MaxTime
    /\ now' = now + 1
    /\ UNCHANGED <<version, items, call, stopped, cleaner, forever>>

\* Set, of a value read from the row in the same instant.
Set(p, k, ttl) ==
    /\ pc[p] = "idle"
    /\ Store(k, version[k], ttl)
    /\ UNCHANGED <<now, version, call, stopped, cleaner>>

\* Get and Remember begin alike: read the item under the read lock.
Lookup(p, k, test) ==
    /\ pc[p] = "idle"
    /\ pc' = [pc EXCEPT ![p] = test]
    /\ key' = [key EXCEPT ![p] = k]
    /\ seen' = [seen EXCEPT ![p] = items[k]]
    /\ UNCHANGED <<now, version, items, value, stopped, cleaner, forever>>

\* The lock released, look at what was read: a hit returns it, a miss goes on, by
\* way of Delete if the item has expired.
Test(p, test, delete, miss) ==
    /\ pc[p] = test
    /\ IF Expired(seen[p])
       THEN pc' = [pc EXCEPT ![p] = delete] /\ UNCHANGED <<key, seen, value>>
       ELSE IF seen[p] = NoItem /\ miss # "idle"
            THEN pc' = [pc EXCEPT ![p] = miss] /\ UNCHANGED <<key, seen, value>>
            ELSE Return(p)
    /\ UNCHANGED <<now, version, items, stopped, cleaner, forever>>

\* Get deletes the key whose item it saw expired, whatever is there by now.
ExpireDelete(p, delete, miss) ==
    /\ pc[p] = delete
    /\ items' = [items EXCEPT ![key[p]] = NoItem]
    /\ IF miss = "idle" THEN Return(p)
       ELSE pc' = [pc EXCEPT ![p] = miss] /\ UNCHANGED <<key, seen, value>>
    /\ UNCHANGED <<now, version, stopped, cleaner, forever>>

Get(p) == \/ \E k \in Keys : Lookup(p, k, "getTest")
          \/ Test(p, "getTest", "getDelete", "idle")
          \/ ExpireDelete(p, "getDelete", "idle")

\* The callback of Remember reads the row, or fails.
Compute(p) ==
    /\ pc[p] = "compute"
    /\ \/ /\ pc' = [pc EXCEPT ![p] = "store"]
          /\ value' = [value EXCEPT ![p] = version[key[p]]]
          /\ UNCHANGED <<key, seen>>
       \/ Return(p)
    /\ UNCHANGED <<now, version, items, stopped, cleaner, forever>>

RememberStore(p, ttl) ==
    /\ pc[p] = "store"
    /\ Store(key[p], value[p], ttl)
    /\ Return(p)
    /\ UNCHANGED <<now, version, stopped, cleaner>>

Remember(p) == \/ \E k \in Keys : Lookup(p, k, "remTest")
               \/ Test(p, "remTest", "remDelete", "compute")
               \/ ExpireDelete(p, "remDelete", "compute")
               \/ Compute(p)
               \/ \E ttl \in TTLs : RememberStore(p, ttl)

\* External: an update of the row; Invalidate then deletes the key.
UpdateRow(p, k) ==
    /\ pc[p] = "idle"
    /\ version[k] < MaxVersion
    /\ version' = [version EXCEPT ![k] = @ + 1]
    /\ pc' = [pc EXCEPT ![p] = "invalidate"]
    /\ key' = [key EXCEPT ![p] = k]
    /\ UNCHANGED <<now, items, seen, value, stopped, cleaner, forever>>

\* Delete
Delete(k) ==
    /\ items' = [items EXCEPT ![k] = NoItem]
    /\ forever' = forever \ {k}

Invalidate(p) ==
    /\ pc[p] = "invalidate"
    /\ Delete(key[p])
    /\ Return(p)
    /\ UNCHANGED <<now, version, stopped, cleaner>>

Flush(p) ==
    /\ pc[p] = "idle"
    /\ items' = [k \in Keys |-> NoItem]
    /\ forever' = {}
    /\ UNCHANGED <<now, version, call, stopped, cleaner>>

\* Close looks whether stopCh is closed, and closes it in a second step.
CloseTest(p) ==
    /\ pc[p] = "idle"
    /\ ~stopped
    /\ pc' = [pc EXCEPT ![p] = "close"]
    /\ UNCHANGED <<now, version, items, key, seen, value, stopped, cleaner,
                   forever>>

CloseStop(p) ==
    /\ pc[p] = "close"
    /\ stopped' = TRUE
    /\ pc' = [pc EXCEPT ![p] = IF stopped THEN "panicked" ELSE "idle"]
    /\ UNCHANGED <<now, version, items, key, seen, value, cleaner, forever>>

\* The cleaner's select: a tick purges under the lock, the stop ends the goroutine.
Purge ==
    /\ cleaner = "running"
    /\ items' = [k \in Keys |-> IF Expired(items[k]) THEN NoItem ELSE items[k]]
    /\ UNCHANGED <<now, version, call, stopped, cleaner, forever>>

CleanerEnd ==
    /\ cleaner = "running"
    /\ stopped
    /\ cleaner' = "ended"
    /\ UNCHANGED <<now, version, items, call, stopped, forever>>

------------------------------------------------------------------------------

Use(p) == \/ Get(p) \/ Remember(p) \/ Invalidate(p) \/ Flush(p)
          \/ CloseTest(p) \/ CloseStop(p)
          \/ \E k \in Keys : UpdateRow(p, k) \/ \E ttl \in TTLs : Set(p, k, ttl)

Next == Tick \/ Purge \/ CleanerEnd \/ \E p \in Procs : Use(p)

Spec == Init /\ [][Next]_vars

\* The ticker keeps ticking, and a select whose stop case stays ready takes it.
FairSpec == Spec /\ WF_vars(Purge) /\ WF_vars(CleanerEnd)

------------------------------------------------------------------------------

\* An entry behind its row is about to be deleted by the update that made it so,
\* or a Remember stored it although its callback had run before the update: no
\* other interleaving of the calls lets a stale value stay.
StaleExplained ==
    \A k \in Keys :
        items[k] # NoItem /\ items[k].ver # version[k] =>
            \/ items[k].late
            \/ \E p \in Procs : pc[p] = "invalidate" /\ key[p] = k

\* Until the cache is closed, an entry that has expired leaves it even if nobody
\* asks for its key again.
ExpiredPurged ==
    \A k \in Keys : Expired(items[k]) ~> stopped \/ ~Expired(items[k])

\* After Close the cleaner goroutine ends.
CleanerStops == stopped ~> cleaner = "ended"

\* "Use 0 for no expiration": such an entry is there until it is deleted or replaced,
\* unless a Get deletes it that had read the expired entry the key had before it.
ForeverLostExplained ==
    [][\A k \in forever \cap forever' :
          items[k] # NoItem /\ items'[k] = NoItem =>
              \E p \in Procs : /\ pc[p] \in {"getDelete", "remDelete"} /\ key[p] = k
                               /\ Expired(seen[p]) /\ pc'[p] # pc[p]]_vars
==============================================================================
