----------------------------- MODULE RateLimiter -----------------------------
(***************************************************************************)
(* core/middleware.go: RateLimiter, a bucket per client address that counts *)
(* the requests of a window and a goroutine that removes the buckets whose  *)
(* window is over.                                                          *)
(*                                                                         *)
(* Time is a count of clock readings.  allow reads the clock with the lock *)
(* in hand; the cleaner reads it first and locks afterwards.               *)
(***************************************************************************)
EXTENDS Integers, Sequences

CONSTANTS Keys,         \* the client addresses
          Max, Window,  \* rl.max and rl.window
          MaxTime,      \* bound: the clock stops here
          NoBucket

\* The first request of a window is admitted whatever max is.
Limit == IF Max > 1 THEN Max ELSE 1

Bucket == [count : 1..Limit, windowEnd : Nat]

\* at is the time of the request, start that of the first request of its window.
Admission == [at : Nat, start : Int]

ASSUME LimiterAssumption == /\ Max \in Int
                            /\ Window \in Nat
                            /\ MaxTime \in Nat
                            /\ NoBucket \notin Bucket

VARIABLES now,          \* time.Now()
          buckets,      \* rl.buckets
          cleaner,      \* the cleaner: "ticker" or "lock"
          readAt,       \* the time the cleaner read
          log,          \* history: each client's admitted requests
          denied        \* history: the clients refused at this very time

vars == <<now, buckets, cleaner, readAt, log, denied>>

TypeOK ==
    /\ now \in Nat
    /\ buckets \in [Keys -> Bucket \cup {NoBucket}]
    /\ cleaner \in {"ticker", "lock"}
    /\ readAt \in Nat
    /\ log \in [Keys -> Seq(Admission)]
    /\ denied \in SUBSET Keys

Init ==
    /\ now = 0
    /\ buckets = [k \in Keys |-> NoBucket]
    /\ cleaner = "ticker"
    /\ readAt = 0
    /\ log = [k \in Keys |-> <<>>]
    /\ denied = {}

\* now.After(b.windowEnd), of a bucket that is in the map.
Over(b, time) == time > b.windowEnd

Tick ==
    /\ now < MaxTime
    /\ now' = now + 1
    /\ denied' = {}
    /\ UNCHANGED <<buckets, cleaner, readAt, log>>

Admit(k, b, start) ==
    /\ buckets' = [buckets EXCEPT ![k] = b]
    /\ log' = [log EXCEPT ![k] = Append(@, [at |-> now, start |-> start])]
    /\ UNCHANGED <<now, cleaner, readAt, denied>>

------------------------------------------------------------------------------
(* Faulty variants of definitions below, each what a slip in middleware.go      *)
(* would make of one of them.  No specification uses them: they serve to show   *)
(* that the properties at the end of the module can fail.                       *)

\* count > max in place of count >= max: one request too many.
AllowNextOne(k) ==
    /\ buckets[k] # NoBucket
    /\ ~Over(buckets[k], now)
    /\ buckets[k].count <= Max
    /\ Admit(k, [buckets[k] EXCEPT !.count = @ + 1], buckets[k].windowEnd - Window)

\* The count compared without the test of the window's end.
DenyOver(k) ==
    /\ buckets[k] # NoBucket
    /\ buckets[k].count >= Max
    /\ denied' = denied \cup {k}
    /\ UNCHANGED <<now, buckets, cleaner, readAt, log>>

\* A cleaner that removes all buckets but those to keep.
PurgeUnless(keep(_)) ==
    /\ cleaner = "lock"
    /\ cleaner' = "ticker"
    /\ buckets' = [k \in Keys |-> IF buckets[k] = NoBucket \/ keep(buckets[k])
                                  THEN buckets[k] ELSE NoBucket]
    /\ UNCHANGED <<now, readAt, log, denied>>

\* It compares the wrong way round.
PurgeLive == PurgeUnless(LAMBDA b : b.windowEnd <= readAt)

\* It keeps the buckets whose requests reached max.
PurgeNotFull == PurgeUnless(LAMBDA b : ~Over(b, readAt) \/ b.count >= Max)

------------------------------------------------------------------------------

\* allow: a client without a bucket, or whose window is over, gets a new one.
AllowFirst(k) ==
    /\ buckets[k] # NoBucket => Over(buckets[k], now)
    /\ Admit(k, [count |-> 1, windowEnd |-> now + Window], now)

AllowNext(k) ==
    /\ buckets[k] # NoBucket
    /\ ~Over(buckets[k], now)
    /\ buckets[k].count < Max
    /\ Admit(k, [buckets[k] EXCEPT !.count = @ + 1], buckets[k].windowEnd - Window)

Deny(k) ==
    /\ buckets[k] # NoBucket
    /\ ~Over(buckets[k], now)
    /\ buckets[k].count >= Max
    /\ denied' = denied \cup {k}
    /\ UNCHANGED <<now, buckets, cleaner, readAt, log>>

CleanerRead ==
    /\ cleaner = "ticker"
    /\ cleaner' = "lock"
    /\ readAt' = now
    /\ UNCHANGED <<now, buckets, log, denied>>

CleanerPurge ==
    /\ cleaner = "lock"
    /\ cleaner' = "ticker"
    /\ buckets' = [k \in Keys |-> IF buckets[k] # NoBucket /\ Over(buckets[k], readAt)
                                  THEN NoBucket ELSE buckets[k]]
    /\ UNCHANGED <<now, readAt, log, denied>>

Allow(k) == AllowFirst(k) \/ AllowNext(k) \/ Deny(k)

Next == Tick \/ CleanerRead \/ CleanerPurge \/ \E k \in Keys : Allow(k)

Spec == Init /\ [][Next]_vars

\* The ticker keeps ticking and a free lock is obtained.
FairSpec == Spec /\ WF_vars(CleanerRead) /\ WF_vars(CleanerPurge)

------------------------------------------------------------------------------

\* Of any 2 * max + 1 admitted requests of a client, the last comes more than a
\* window after the first: windows that follow each other, and buckets the cleaner
\* removes in between, let no more through.
TwiceMaxPerWindow ==
    \A k \in Keys : \A i \in 1..(Len(log[k]) - 2 * Limit) :
        log[k][i + 2 * Limit].at > log[k][i].at + Window

\* A request is refused only to a client that had max requests admitted within the
\* window that ends now.
DeniedOnlyWhenFull ==
    \A k \in denied :
        /\ Len(log[k]) >= Limit
        /\ log[k][Len(log[k]) - Limit + 1].at + Window >= now

\* The bucket of a client that stays away is removed, which is what the cleaner was
\* added for.
OverBucketsRemoved ==
    \A k \in Keys :
        (buckets[k] # NoBucket /\ Over(buckets[k], now)) ~>
        (buckets[k] = NoBucket \/ ~Over(buckets[k], now))
==============================================================================
