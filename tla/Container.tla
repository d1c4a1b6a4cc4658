------------------------------ MODULE Container ------------------------------
(***************************************************************************)
(* core/container.go: the registry of services.  Make looks a key up under *)
(* the read lock, runs the factory without a lock and stores the result    *)
(* under the write lock, so it is three steps here, and goroutines may     *)
(* Bind or Make the same key between them.                                 *)
(***************************************************************************)
EXTENDS Naturals

CONSTANTS Services,       \* the keys: what a factory or an instance is filed under
          Goroutines,
          MaxInstances    \* bound on the instances built or bound

ASSUME ContainerAssumption == MaxInstances \in Nat

None == 0

VARIABLES instances,   \* c.instances, None where there is no entry
          factories,   \* the keys in c.factories
          make,        \* the key and, once built, the instance of each call
          last,        \* instances numbered so far
          got,         \* history: what Make returned since the last Bind
          raced        \* history: keys bound or made while a factory ran

containerVars == <<instances, factories, make, last, got, raced>>

Idle == [at |-> "idle"]

ContainerTypeOK ==
    /\ instances \in [Services -> 0..MaxInstances]
    /\ factories \in SUBSET Services
    /\ make \in [Goroutines ->
                    {Idle} \cup [at : {"missing", "panicked"}, key : Services]
                           \cup [at : {"built"}, key : Services, inst : 1..MaxInstances]]
    /\ last \in 0..MaxInstances
    /\ got \in [Services -> SUBSET (1..MaxInstances)]
    /\ raced \in SUBSET Services

NewContainer ==
    /\ instances = [k \in Services |-> None]
    /\ factories = {}
    /\ make = [g \in Goroutines |-> Idle]
    /\ last = 0
    /\ got = [k \in Services |-> {}]
    /\ raced = {}

\* A call of Make for k has found no instance and not stored one yet.
Making(k) == \E g \in Goroutines : make[g].at \in {"missing", "built"} /\ make[g].key = k

Fresh == last < MaxInstances /\ last' = last + 1

Returns(k, inst) == got' = [got EXCEPT ![k] = @ \cup {inst}]

\* Faulty variant: Make returns what the factory built but does not keep it.
StoreForgotten(g) ==
    /\ make[g].at = "built"
    /\ make' = [make EXCEPT ![g] = Idle]
    /\ Returns(make[g].key, make[g].inst)
    /\ UNCHANGED <<instances, factories, last, raced>>

Bind(k) ==
    /\ Fresh
    /\ instances' = [instances EXCEPT ![k] = last']
    /\ got' = [got EXCEPT ![k] = {}]
    /\ raced' = IF Making(k) THEN raced \cup {k} ELSE raced
    /\ UNCHANGED <<factories, make>>

Singleton(k) ==
    /\ factories' = factories \cup {k}
    /\ UNCHANGED <<instances, make, last, got, raced>>

\* Make under the read lock: an instance, a factory, or a panic of the caller.
MakeRead(g, k) ==
    /\ make[g] = Idle
    /\ IF instances[k] # None
       THEN Returns(k, instances[k]) /\ UNCHANGED <<make, raced>>
       ELSE /\ make' = [make EXCEPT ![g] =
                  [at |-> IF k \in factories THEN "missing" ELSE "panicked", key |-> k]]
            /\ raced' = IF k \in factories /\ Making(k) THEN raced \cup {k} ELSE raced
            /\ UNCHANGED got
    /\ UNCHANGED <<instances, factories, last>>

Factory(g) ==
    /\ make[g].at = "missing"
    /\ Fresh
    /\ make' = [make EXCEPT ![g] = [at |-> "built", key |-> @.key, inst |-> last']]
    /\ UNCHANGED <<instances, factories, got, raced>>

\* The factory panics, and the call of Make with it, which holds no lock then.
FactoryPanics(g) ==
    /\ make[g].at = "missing"
    /\ make' = [make EXCEPT ![g] = [at |-> "panicked", key |-> @.key]]
    /\ UNCHANGED <<instances, factories, last, got, raced>>

\* Make stores and returns what it built, whatever c.instances holds by now.
MakeStore(g) ==
    /\ make[g].at = "built"
    /\ instances' = [instances EXCEPT ![make[g].key] = make[g].inst]
    /\ make' = [make EXCEPT ![g] = Idle]
    /\ Returns(make[g].key, make[g].inst)
    /\ UNCHANGED <<factories, last, raced>>

ContainerNext == \/ \E k \in Services : Bind(k) \/ Singleton(k)
        \/ \E g \in Goroutines : \/ Factory(g) \/ FactoryPanics(g) \/ MakeStore(g)
                                 \/ \E k \in Services : MakeRead(g, k)

ContainerSpec == NewContainer /\ [][ContainerNext]_containerVars

\* Every Make of a key returns the one instance that was bound or built first,
\* unless two first uses of the key, or a first use and a Bind, overlapped.
OneInstanceUnlessRaced ==
    \A k \in Services \ raced : got[k] \subseteq {instances[k]}
==============================================================================
