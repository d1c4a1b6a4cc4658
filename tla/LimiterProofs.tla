---------------------------- MODULE LimiterProofs ----------------------------
(***************************************************************************)
(* Theorems about RateLimiter for any clients, limit and window: what the  *)
(* fixed windows really guarantee, and that nobody is refused too early.   *)
(*                                                                         *)
(* The invariant LogInv reads the history: the requests of one window have *)
(* the same start, two windows are more than a window apart, the bucket    *)
(* counts the requests of the newest, and a bucket the cleaner removed     *)
(* belongs to a window that is over.                                       *)
(***************************************************************************)
EXTENDS RateLimiter, TLAPS

\* The requests of k, of which there are n.
Requests(k) == 1..Len(log[k])

\* A request has been made and falls into its window, and two windows do not overlap.
WindowsApart(k) ==
    /\ \A i \in Requests(k) :
          /\ log[k][i].start <= log[k][i].at
          /\ log[k][i].at <= log[k][i].start + Window
          /\ log[k][i].at <= now
    /\ \A i, j \in Requests(k) :
          i < j => \/ log[k][i].start = log[k][j].start
                   \/ log[k][i].start + Window < log[k][j].start

\* No window has more than Limit requests.
WindowsLimited(k) ==
    \A i \in Requests(k) :
        i + Limit \in Requests(k) => log[k][i].start # log[k][i + Limit].start

\* The bucket describes the newest window: its end, and which requests are in it.
BucketCounts(k) ==
    buckets[k] # NoBucket =>
        /\ buckets[k].count <= Len(log[k])
        /\ \A i \in Requests(k) :
              /\ log[k][i].start + Window <= buckets[k].windowEnd
              /\ log[k][i].start + Window = buckets[k].windowEnd
                    <=> i > Len(log[k]) - buckets[k].count

\* Without a bucket every window of the client is over.
AbsentIsOver(k) ==
    buckets[k] = NoBucket => \A i \in Requests(k) : log[k][i].start + Window < now

\* A refusal happened on a full bucket, and that bucket is still there.
DeniedByBucket(k) ==
    k \in denied => /\ buckets[k] # NoBucket
                    /\ buckets[k].count >= Max
                    /\ ~Over(buckets[k], now)

LogInv == /\ readAt <= now
          /\ \A k \in Keys : /\ WindowsApart(k)
                             /\ WindowsLimited(k)
                             /\ BucketCounts(k)
                             /\ AbsentIsOver(k)
                             /\ DeniedByBucket(k)

LEMMA LimitFacts == Limit \in Nat /\ Limit >= 1 /\ Limit >= Max
                    /\ (Max > 1 => Limit = Max)
BY LimiterAssumption DEF Limit

------------------------------------------------------------------------------
(* Types *)

LEMMA TypeInit == Init => TypeOK
BY DEF Init, TypeOK

\* What an admitted request appends to the log of its client.
LEMMA AppendFacts ==
    ASSUME TypeOK, NEW k \in Keys, NEW b \in Bucket, NEW s \in Int, Admit(k, b, s)
    PROVE  /\ log' \in [Keys -> Seq(Admission)]
           /\ Len(log'[k]) = Len(log[k]) + 1
           /\ Len(log[k]) \in Nat
           /\ \A i \in Requests(k) : log'[k][i] = log[k][i]
           /\ log'[k][Len(log[k]) + 1].at = now
           /\ log'[k][Len(log[k]) + 1].start = s
           /\ \A l \in Keys \ {k} : log'[l] = log[l] /\ buckets'[l] = buckets[l]
           /\ buckets'[k] = b
<1> DEFINE a == [at |-> now, start |-> s]
<1>1. a \in Admission /\ log[k] \in Seq(Admission)
    BY DEF TypeOK, Admission
<1>2. log'[k] = Append(log[k], a)
    BY DEF Admit, TypeOK
<1>3. /\ Append(log[k], a) \in Seq(Admission)
      /\ Len(Append(log[k], a)) = Len(log[k]) + 1
      /\ Len(log[k]) \in Nat
      /\ \A i \in 1..Len(log[k]) : Append(log[k], a)[i] = log[k][i]
      /\ Append(log[k], a)[Len(log[k]) + 1] = a
    BY <1>1
<1>4. \A l \in Keys \ {k} : log'[l] = log[l] /\ buckets'[l] = buckets[l]
    BY DEF Admit, TypeOK
<1>5. buckets'[k] = b
    BY DEF Admit, TypeOK
<1>6. log' \in [Keys -> Seq(Admission)]
    BY <1>1, <1>2, <1>3 DEF Admit, TypeOK
<1> QED
    BY <1>2, <1>3, <1>4, <1>5, <1>6 DEF Requests

LEMMA EntryTypes ==
    ASSUME TypeOK, NEW k \in Keys
    PROVE  /\ Len(log[k]) \in Nat
           /\ \A i \in 1..Len(log[k]) : log[k][i].start \in Int /\ log[k][i].at \in Nat
<1>1. log[k] \in Seq(Admission)
    BY DEF TypeOK
<1>2. Len(log[k]) \in Nat /\ \A i \in 1..Len(log[k]) : log[k][i] \in Admission
    BY <1>1
<1> QED
    BY <1>2 DEF Admission

LEMMA TypeAdmit ==
    ASSUME TypeOK, NEW k \in Keys, NEW b \in Bucket, NEW s \in Int, Admit(k, b, s)
    PROVE  TypeOK'
<1>1. log' \in [Keys -> Seq(Admission)]
    BY AppendFacts
<1> QED
    BY <1>1 DEF Admit, TypeOK

\* The bucket AllowFirst creates.
LEMMA FirstBucket == ASSUME TypeOK
                     PROVE  [count |-> 1, windowEnd |-> now + Window] \in Bucket
BY LimitFacts, LimiterAssumption DEF TypeOK, Bucket


\* The bucket AllowNext leaves.
LEMMA NextBucket ==
    ASSUME TypeOK, NEW k \in Keys, AllowNext(k)
    PROVE  /\ [buckets[k] EXCEPT !.count = @ + 1] \in Bucket
           /\ buckets[k].windowEnd - Window \in Int
<1>1. buckets[k] \in Bucket /\ buckets[k].count < Max
    BY DEF AllowNext, TypeOK
<1> QED
    BY <1>1, LimitFacts, LimiterAssumption DEF Bucket

LEMMA TypeNext == TypeOK /\ [Next]_vars => TypeOK'
<1> SUFFICES ASSUME TypeOK, [Next]_vars PROVE TypeOK'
    OBVIOUS
<1>1. CASE Tick \/ CleanerRead \/ CleanerPurge
    BY <1>1 DEF Tick, CleanerRead, CleanerPurge, TypeOK
<1>2. ASSUME NEW k \in Keys, AllowFirst(k) PROVE TypeOK'
  <2>1. now \in Int
      BY DEF TypeOK
  <2> QED
      BY <1>2, <2>1, FirstBucket, TypeAdmit DEF AllowFirst
<1>3. ASSUME NEW k \in Keys, AllowNext(k) PROVE TypeOK'
    BY <1>3, NextBucket, TypeAdmit DEF AllowNext
<1>4. ASSUME NEW k \in Keys, Deny(k) PROVE TypeOK'
    BY <1>4 DEF Deny, TypeOK
<1>5. CASE UNCHANGED vars
    BY <1>5 DEF vars, TypeOK
<1> QED
    BY <1>1, <1>2, <1>3, <1>4, <1>5 DEF Next, Allow

\* Type correctness: no bucket ever counts more than the limit.
THEOREM LimiterType == Spec => []TypeOK
<1>1. Init => TypeOK
    BY TypeInit
<1>2. TypeOK /\ [Next]_vars => TypeOK'
    BY TypeNext
<1> QED
    BY <1>1, <1>2, PTL DEF Spec

------------------------------------------------------------------------------
(* The history is what the buckets say *)

LEMMA LogInit == Init => LogInv
BY DEF Init, LogInv, WindowsApart, WindowsLimited, BucketCounts, AbsentIsOver,
       DeniedByBucket, Requests

\* The parts of the invariant that speak of l depend on l's entries alone.
LEMMA LogOther ==
    ASSUME LogInv, NEW l \in Keys, log'[l] = log[l], buckets'[l] = buckets[l],
           now' = now, l \in denied' => l \in denied
    PROVE  /\ WindowsApart(l)' /\ WindowsLimited(l)' /\ BucketCounts(l)'
           /\ AbsentIsOver(l)' /\ DeniedByBucket(l)'
BY DEF LogInv, WindowsApart, WindowsLimited, BucketCounts, AbsentIsOver,
       DeniedByBucket, Requests, Over

\* What Admit does to the entries of k, in the terms of the invariant.
LEMMA AdmitEntries ==
    ASSUME TypeOK, NEW k \in Keys, NEW b \in Bucket, NEW s \in Int, Admit(k, b, s),
           NEW n, n = Len(log[k])
    PROVE  /\ n \in Nat
           /\ Requests(k) = 1..n
           /\ Requests(k)' = 1..(n + 1)
           /\ \A i \in 1..n : /\ log'[k][i].start = log[k][i].start
                              /\ log'[k][i].at = log[k][i].at
                              /\ log[k][i].start \in Int
                              /\ log[k][i].at \in Nat
           /\ log'[k][n + 1].start = s
           /\ log'[k][n + 1].at = now
           /\ Len(log'[k]) = n + 1
           /\ Len(log[k]) = n
<1>1. /\ Len(log'[k]) = Len(log[k]) + 1
      /\ Len(log[k]) \in Nat
      /\ \A i \in Requests(k) : log'[k][i] = log[k][i]
      /\ log'[k][Len(log[k]) + 1].at = now
      /\ log'[k][Len(log[k]) + 1].start = s
    BY AppendFacts
<1> QED
    BY <1>1, EntryTypes DEF Requests

\* A request that opens a window after all others keeps windows apart and limited.
LEMMA LogFirst ==
    ASSUME TypeOK, LogInv, NEW k \in Keys, AllowFirst(k)
    PROVE  LogInv'
<1> DEFINE b == [count |-> 1, windowEnd |-> now + Window]
<1>1. PICK n : n = Len(log[k])
    OBVIOUS
<1>2. /\ Admit(k, b, now) /\ b \in Bucket
      /\ now \in Nat /\ now \in Int /\ Window \in Nat
    BY FirstBucket, LimiterAssumption DEF AllowFirst, TypeOK
<1>3. /\ now' = now /\ readAt' = readAt /\ denied' = denied
      /\ buckets'[k].count = 1 /\ buckets'[k].windowEnd = now + Window
      /\ buckets'[k] # NoBucket
      /\ \A l \in Keys \ {k} : log'[l] = log[l] /\ buckets'[l] = buckets[l]
  <2>1. b # NoBucket /\ b.count = 1 /\ b.windowEnd = now + Window
      BY <1>2, LimiterAssumption
  <2>2. buckets'[k] = b /\ \A l \in Keys \ {k} : log'[l] = log[l] /\ buckets'[l] = buckets[l]
      BY <1>2, AppendFacts
  <2>3. now' = now /\ readAt' = readAt /\ denied' = denied
      BY <1>2 DEF Admit
  <2> QED
      BY <2>1, <2>2, <2>3
<1>4. /\ n \in Nat
      /\ Requests(k) = 1..n
      /\ Requests(k)' = 1..(n + 1)
      /\ \A i \in 1..n : /\ log'[k][i].start = log[k][i].start
                         /\ log'[k][i].at = log[k][i].at
                         /\ log[k][i].start \in Int
                         /\ log[k][i].at \in Nat
      /\ log'[k][n + 1].start = now
      /\ log'[k][n + 1].at = now
      /\ Len(log'[k]) = n + 1
    BY <1>1, <1>2, AdmitEntries
<1> HIDE DEF b
<1>5. \A i \in 1..n : log[k][i].start + Window < now
  <2>1. CASE buckets[k] = NoBucket
      BY <1>4, <2>1 DEF LogInv, AbsentIsOver
  <2>2. CASE buckets[k] # NoBucket
    <3>1. buckets[k].windowEnd \in Nat /\ buckets[k].windowEnd < now
        BY <1>2, <2>2 DEF AllowFirst, Over, TypeOK, Bucket
    <3>2. \A i \in 1..n : log[k][i].start + Window <= buckets[k].windowEnd
        BY <1>4, <2>2 DEF LogInv, BucketCounts
    <3> QED
        BY <1>2, <1>4, <3>1, <3>2
  <2> QED
      BY <2>1, <2>2
<1>6. WindowsApart(k)'
  <2>1. WindowsApart(k)
      BY DEF LogInv
  <2>4. ASSUME NEW i \in 1..(n + 1)
        PROVE  /\ log'[k][i].start <= log'[k][i].at
               /\ log'[k][i].at <= log'[k][i].start + Window
               /\ log'[k][i].at <= now
    <3>1. CASE i \in 1..n
        BY <1>4, <2>1, <3>1 DEF WindowsApart
    <3>2. CASE i = n + 1
        BY <1>2, <1>4, <3>2
    <3> QED
        BY <1>4, <3>1, <3>2
  <2>5. ASSUME NEW i \in 1..(n + 1), NEW j \in 1..(n + 1), i < j
        PROVE  \/ log'[k][i].start = log'[k][j].start
               \/ log'[k][i].start + Window < log'[k][j].start
    <3>1. CASE j \in 1..n
      <4>1. i \in 1..n
          BY <1>4, <2>5, <3>1
      <4> QED
          BY <1>4, <2>1, <2>5, <3>1, <4>1 DEF WindowsApart
    <3>2. CASE j = n + 1
      <4>1. i \in 1..n
          BY <1>4, <2>5, <3>2
      <4> QED
          BY <1>4, <1>5, <3>2, <4>1
    <3> QED
        BY <1>4, <3>1, <3>2
  <2> QED
      BY <1>3, <1>4, <2>4, <2>5 DEF WindowsApart
<1>7. WindowsLimited(k)'
  <2>1. WindowsLimited(k)
      BY DEF LogInv
  <2>3. ASSUME NEW i \in 1..(n + 1), i + Limit \in 1..(n + 1)
        PROVE  log'[k][i].start # log'[k][i + Limit].start
    <3>1. i \in 1..n
        BY <1>4, <2>3, LimitFacts
    <3>2. CASE i + Limit \in 1..n
        BY <1>4, <2>1, <3>1, <3>2 DEF WindowsLimited
    <3>3. CASE i + Limit = n + 1
      <4>1. log'[k][i].start = log[k][i].start /\ log[k][i].start \in Int
          BY <1>4, <3>1
      <4>2. log[k][i].start + Window < now
          BY <1>5, <3>1
      <4>3. log'[k][i + Limit].start = now
          BY <1>4, <3>3
      <4> QED
          BY <1>2, <4>1, <4>2, <4>3
    <3> QED
        BY <1>4, <2>3, <3>2, <3>3, LimitFacts
  <2> QED
      BY <1>4, <2>3 DEF WindowsLimited
<1>8. BucketCounts(k)'
  <2>1. ASSUME NEW i \in 1..(n + 1)
        PROVE  /\ log'[k][i].start + Window <= now + Window
               /\ log'[k][i].start + Window = now + Window <=> i > n + 1 - (1)
    <3>1. CASE i \in 1..n
      <4>1. log'[k][i].start = log[k][i].start /\ log[k][i].start \in Int
          BY <1>4, <3>1
      <4>2. log[k][i].start + Window < now
          BY <1>5, <3>1
      <4> QED
          BY <1>4, <1>2, <3>1, <4>1, <4>2
    <3>2. CASE i = n + 1
        BY <1>4, <1>2, <3>2
    <3> QED
        BY <1>4, <3>1, <3>2
  <2> QED
      BY <1>3, <1>4, <1>2, <1>5, <2>1 DEF BucketCounts
<1>9. AbsentIsOver(k)' /\ DeniedByBucket(k)'
  <2>1. k \notin denied
      BY DEF AllowFirst, LogInv, DeniedByBucket
  <2> QED
      BY <1>3, <2>1 DEF AbsentIsOver, DeniedByBucket
<1> QED
    BY <1>3, <1>6, <1>7, <1>8, <1>9, LogOther DEF LogInv

\* A request that a bucket with room for it counts joins the newest window.
LEMMA LogNext ==
    ASSUME TypeOK, LogInv, NEW k \in Keys, AllowNext(k)
    PROVE  LogInv'
<1>1. PICK n, e, c : n = Len(log[k]) /\ e = buckets[k].windowEnd
                     /\ c = buckets[k].count
    OBVIOUS
<1> DEFINE b == [buckets[k] EXCEPT !.count = @ + 1]
<1>2. /\ Admit(k, b, e - Window) /\ b \in Bucket /\ e - Window \in Int
      /\ now \in Nat /\ Window \in Nat
      /\ buckets[k] # NoBucket /\ buckets[k] \in Bucket
    BY <1>1, NextBucket, LimiterAssumption DEF AllowNext, TypeOK
<1>3. e \in Nat /\ c \in Nat /\ c >= 1 /\ c + 1 <= Limit /\ c < Max /\ now <= e
    BY <1>1, <1>2, LimitFacts, LimiterAssumption DEF AllowNext, Over, Bucket
<1>4. /\ now' = now /\ readAt' = readAt /\ denied' = denied
      /\ buckets'[k] = b
      /\ \A l \in Keys \ {k} : log'[l] = log[l] /\ buckets'[l] = buckets[l]
    BY <1>2, AppendFacts DEF Admit
<1>5. /\ buckets'[k].count = c + 1 /\ buckets'[k].windowEnd = e
      /\ buckets'[k] # NoBucket
    BY <1>1, <1>2, <1>4, LimiterAssumption DEF Bucket
<1>6. /\ n \in Nat
      /\ Requests(k) = 1..n
      /\ Requests(k)' = 1..(n + 1)
      /\ \A i \in 1..n : /\ log'[k][i].start = log[k][i].start
                         /\ log'[k][i].at = log[k][i].at
                         /\ log[k][i].start \in Int
                         /\ log[k][i].at \in Nat
      /\ log'[k][n + 1].start = e - Window
      /\ log'[k][n + 1].at = now
      /\ Len(log'[k]) = n + 1
    BY <1>1, <1>2, AdmitEntries
<1> HIDE DEF b
<1>7. /\ c <= n
      /\ \A i \in 1..n : /\ log[k][i].start + Window <= e
                         /\ log[k][i].start + Window = e <=> i > n - c
    BY <1>1, <1>2, <1>6 DEF LogInv, BucketCounts
\* The last request before this one belongs to the same window.
<1>8. n \in 1..n /\ log[k][n].start = e - Window
  <2>1. n \in 1..n /\ n > n - c
      BY <1>3, <1>6, <1>7
  <2>2. log[k][n].start + Window = e /\ log[k][n].start \in Int
      BY <1>6, <1>7, <2>1
  <2> QED
      BY <1>2, <1>3, <2>1, <2>2
<1>9. WindowsApart(k)'
  <2>1. WindowsApart(k)
      BY DEF LogInv
  <2>2. \A i \in 1..n : \/ log[k][i].start = e - Window
                        \/ log[k][i].start + Window < e - Window
      BY <1>6, <1>8, <2>1 DEF WindowsApart
  <2>3. e - Window <= now
    <3>1. log[k][n].start <= log[k][n].at /\ log[k][n].at <= now
        BY <1>6, <1>8, <2>1 DEF WindowsApart
    <3>2. log[k][n].at \in Int
        BY <1>6, <1>8
    <3> QED
        BY <1>2, <1>8, <3>1, <3>2
  <2>4. ASSUME NEW i \in 1..(n + 1)
        PROVE  /\ log'[k][i].start <= log'[k][i].at
               /\ log'[k][i].at <= log'[k][i].start + Window
               /\ log'[k][i].at <= now
    <3>1. CASE i \in 1..n
        BY <1>6, <2>1, <3>1 DEF WindowsApart
    <3>2. CASE i = n + 1
        BY <1>2, <1>3, <1>6, <2>3, <3>2
    <3> QED
        BY <1>6, <3>1, <3>2
  <2>5. ASSUME NEW i \in 1..(n + 1), NEW j \in 1..(n + 1), i < j
        PROVE  \/ log'[k][i].start = log'[k][j].start
               \/ log'[k][i].start + Window < log'[k][j].start
    <3>1. CASE j \in 1..n
      <4>1. i \in 1..n
          BY <1>6, <2>5, <3>1
      <4> QED
          BY <1>6, <2>1, <2>5, <3>1, <4>1 DEF WindowsApart
    <3>2. CASE j = n + 1
      <4>1. i \in 1..n
          BY <1>6, <2>5, <3>2
      <4> QED
          BY <1>6, <2>2, <3>2, <4>1
    <3> QED
        BY <1>6, <3>1, <3>2
  <2> QED
      BY <1>4, <1>6, <2>4, <2>5 DEF WindowsApart
<1>10. WindowsLimited(k)'
  <2>1. WindowsLimited(k)
      BY DEF LogInv
  <2>2. ASSUME NEW i \in 1..n, i + Limit = n + 1
        PROVE  log[k][i].start # e - Window
    <3>1. ~(i > n - c)
        BY <1>3, <1>6, <2>2, LimitFacts
    <3>2. log[k][i].start + Window # e
        BY <1>7, <3>1
    <3>3. log[k][i].start \in Int
        BY <1>6
    <3> QED
        BY <1>2, <1>3, <3>2, <3>3
  <2>3. ASSUME NEW i \in 1..(n + 1), i + Limit \in 1..(n + 1)
        PROVE  log'[k][i].start # log'[k][i + Limit].start
    <3>1. i \in 1..n
        BY <1>6, <2>3, LimitFacts
    <3>2. CASE i + Limit \in 1..n
        BY <1>6, <2>1, <3>1, <3>2 DEF WindowsLimited
    <3>3. CASE i + Limit = n + 1
        BY <1>6, <2>2, <3>1, <3>3
    <3> QED
        BY <1>6, <2>3, <3>2, <3>3, LimitFacts
  <2> QED
      BY <1>6, <2>3 DEF WindowsLimited
<1>11. BucketCounts(k)'
  <2>1. ASSUME NEW i \in 1..(n + 1)
        PROVE  /\ log'[k][i].start + Window <= e
               /\ log'[k][i].start + Window = e <=> i > n + 1 - (c + 1)
    <3>1. CASE i \in 1..n
      <4>1. log'[k][i].start = log[k][i].start /\ log[k][i].start \in Int
          BY <1>6, <3>1
      <4>2. /\ log[k][i].start + Window <= e
            /\ log[k][i].start + Window = e <=> i > n - c
          BY <1>7, <3>1
      <4>3. i > n + 1 - (c + 1) <=> i > n - c
          BY <1>3, <1>6, <3>1
      <4> QED
          BY <4>1, <4>2, <4>3
    <3>2. CASE i = n + 1
      <4>1. log'[k][i].start = e - Window
          BY <1>6, <3>2
      <4>2. e - Window + Window = e
          BY <1>2, <1>3
      <4>3. i > n + 1 - (c + 1)
          BY <1>3, <1>6, <3>2
      <4> QED
          BY <1>3, <4>1, <4>2, <4>3
    <3> QED
        BY <1>6, <3>1, <3>2
  <2> QED
      BY <1>5, <1>6, <1>2, <1>3, <1>7, <2>1 DEF BucketCounts
<1>12. AbsentIsOver(k)' /\ DeniedByBucket(k)'
  <2>1. k \notin denied
      BY <1>1, <1>3, LimiterAssumption DEF LogInv, DeniedByBucket
  <2> QED
      BY <1>4, <1>5, <2>1 DEF AbsentIsOver, DeniedByBucket
<1> QED
    BY <1>4, <1>9, <1>10, <1>11, <1>12, LogOther DEF LogInv

LEMMA LogTick == ASSUME TypeOK, LogInv, Tick PROVE LogInv'
<1>1. /\ now' = now + 1 /\ now \in Nat /\ readAt \in Nat /\ denied' = {}
      /\ UNCHANGED <<buckets, readAt, log>>
    BY DEF Tick, TypeOK
<1>2. ASSUME NEW k \in Keys PROVE WindowsApart(k)'
  <2>1. WindowsApart(k)
      BY DEF LogInv
  <2>2. \A i \in Requests(k) : log[k][i].at \in Nat
      BY EntryTypes DEF Requests
  <2>3. \A i \in Requests(k) : log[k][i].at <= now + 1
      BY <1>1, <2>1, <2>2 DEF WindowsApart
  <2> QED
      BY <1>1, <2>1, <2>3 DEF WindowsApart, Requests
<1>3. \A k \in Keys : WindowsLimited(k)' /\ BucketCounts(k)'
    BY <1>1 DEF LogInv, WindowsLimited, BucketCounts, Requests
<1>4. ASSUME NEW k \in Keys PROVE AbsentIsOver(k)'
  <2>1. AbsentIsOver(k)
      BY DEF LogInv
  <2>2. \A i \in Requests(k) : log[k][i].start \in Int
      BY EntryTypes DEF Requests
  <2>3. ASSUME NEW i \in Requests(k), log[k][i].start + Window < now
        PROVE  log[k][i].start + Window < now + 1
      BY <1>1, <2>2, <2>3, LimiterAssumption
  <2> QED
      BY <1>1, <2>1, <2>3 DEF AbsentIsOver, Requests
<1>5. \A k \in Keys : DeniedByBucket(k)'
    BY <1>1 DEF DeniedByBucket
<1>6. (readAt <= now)'
    BY <1>1 DEF LogInv
<1> QED
    BY <1>2, <1>3, <1>4, <1>5, <1>6 DEF LogInv

LEMMA LogPurge == ASSUME TypeOK, LogInv, CleanerPurge PROVE LogInv'
<1>1. now \in Nat /\ readAt \in Nat /\ UNCHANGED <<now, readAt, log, denied>>
    BY DEF CleanerPurge, TypeOK
<1>2. \A k \in Keys : WindowsApart(k)' /\ WindowsLimited(k)'
    BY <1>1 DEF LogInv, WindowsApart, WindowsLimited, Requests
<1>3. ASSUME NEW k \in Keys
      PROVE  BucketCounts(k)' /\ AbsentIsOver(k)' /\ DeniedByBucket(k)'
  <2>1. CASE buckets'[k] = buckets[k]
      BY <1>1, <2>1 DEF LogInv, BucketCounts, AbsentIsOver, DeniedByBucket, Requests,
                        Over
  <2>2. CASE buckets'[k] # buckets[k]
    <3>1. buckets'[k] = NoBucket /\ buckets[k] # NoBucket
          /\ Over(buckets[k], readAt)
        BY <2>2 DEF CleanerPurge
    <3>2. buckets[k].windowEnd \in Nat /\ buckets[k].windowEnd < now
        BY <1>1, <3>1 DEF Over, TypeOK, Bucket, LogInv
    <3>3. k \notin denied
        BY <3>1, <3>2, <1>1 DEF LogInv, DeniedByBucket, Over
    <3>4. \A i \in Requests(k) : log[k][i].start + Window < now
        BY <1>1, <3>1, <3>2, EntryTypes, LimiterAssumption
        DEF LogInv, BucketCounts, Requests
    <3> QED
        BY <1>1, <3>1, <3>3, <3>4
        DEF BucketCounts, AbsentIsOver, DeniedByBucket, Requests
  <2> QED
      BY <2>1, <2>2
<1> QED
    BY <1>1, <1>2, <1>3 DEF LogInv

LEMMA LogDeny == ASSUME TypeOK, LogInv, NEW k \in Keys, Deny(k) PROVE LogInv'
<1>1. UNCHANGED <<now, readAt, buckets, log>> /\ denied' = denied \cup {k}
    BY DEF Deny
<1>2. DeniedByBucket(k)'
    BY <1>1 DEF Deny, DeniedByBucket, Over
<1>3. \A l \in Keys \ {k} : DeniedByBucket(l)'
    BY <1>1 DEF LogInv, DeniedByBucket, Over
<1> QED
    BY <1>1, <1>2, <1>3
    DEF LogInv, WindowsApart, WindowsLimited, BucketCounts, AbsentIsOver, Requests

LEMMA LogStep == TypeOK /\ LogInv /\ [Next]_vars => LogInv'
<1> SUFFICES ASSUME TypeOK, LogInv, [Next]_vars PROVE LogInv'
    OBVIOUS
<1>1. CASE CleanerRead
  <2>1. readAt' = now /\ UNCHANGED <<now, buckets, log, denied>> /\ now \in Nat
      BY <1>1 DEF CleanerRead, TypeOK
  <2> QED
      BY <2>1 DEF LogInv, WindowsApart, WindowsLimited, BucketCounts, AbsentIsOver,
                  DeniedByBucket, Requests, Over
<1>2. CASE UNCHANGED vars
    BY <1>2 DEF vars, LogInv, WindowsApart, WindowsLimited, BucketCounts,
                AbsentIsOver, DeniedByBucket, Requests, Over
<1>3. ASSUME NEW k \in Keys, Allow(k) PROVE LogInv'
    BY <1>3, LogFirst, LogNext, LogDeny DEF Allow
<1> QED
    BY <1>1, <1>2, <1>3, LogTick, LogPurge DEF Next

LEMMA LogAlways == Spec => [](TypeOK /\ LogInv)
<1>1. Init => TypeOK /\ LogInv
    BY TypeInit, LogInit
<1>2. TypeOK /\ LogInv /\ [Next]_vars => (TypeOK /\ LogInv)'
    BY TypeNext, LogStep
<1> QED
    BY <1>1, <1>2, PTL DEF Spec

------------------------------------------------------------------------------

\* Any 2 * max + 1 requests that allow admits to one client are spread over more
\* than a window, whatever max, the window and the cleaner's pace are.
THEOREM AtMostTwiceMax == Spec => []TwiceMaxPerWindow
<1>1. ASSUME TypeOK, LogInv, NEW k \in Keys, NEW i \in 1..(Len(log[k]) - 2 * Limit)
      PROVE  log[k][i + 2 * Limit].at > log[k][i].at + Window
  <2> DEFINE j == i + Limit
             m == i + 2 * Limit
  <2>1. /\ Limit \in Nat /\ Limit >= 1 /\ Window \in Nat
        /\ Len(log[k]) \in Nat
        /\ i \in Requests(k) /\ j \in Requests(k) /\ m \in Requests(k)
        /\ j = i + Limit /\ m = j + Limit /\ i < j /\ j < m
      BY EntryTypes, LimitFacts, LimiterAssumption DEF Requests
  <2>2. \A l \in Requests(k) : log[k][l].start \in Int /\ log[k][l].at \in Int
      BY <1>1, EntryTypes DEF Requests
  <2>3. WindowsApart(k) /\ WindowsLimited(k)
      BY <1>1 DEF LogInv
  <2> HIDE DEF j, m
  <2>4. log[k][i].start # log[k][j].start /\ log[k][j].start # log[k][m].start
      BY <2>1, <2>3 DEF WindowsLimited
  <2>5. /\ log[k][i].start + Window < log[k][j].start
        /\ log[k][j].start + Window < log[k][m].start
      BY <2>1, <2>3, <2>4 DEF WindowsApart
  <2>6. /\ log[k][i].at <= log[k][i].start + Window
        /\ log[k][m].start <= log[k][m].at
      BY <2>1, <2>3 DEF WindowsApart
  <2> QED
    <3>1. /\ log[k][i].start \in Int /\ log[k][j].start \in Int
          /\ log[k][m].start \in Int
          /\ log[k][i].at \in Int /\ log[k][m].at \in Int
        BY <2>1, <2>2
    <3>2. ASSUME NEW ai \in Int, NEW si \in Int, NEW sj \in Int, NEW sm \in Int,
                 NEW am \in Int, NEW w \in Int,
                 ai <= si + w, si + w < sj, sj + w < sm, sm <= am
          PROVE  am > ai + w
        BY <3>2
    <3>3. Window \in Int
        BY <2>1
    <3>4. log[k][m].at > log[k][i].at + Window
        BY <2>5, <2>6, <3>1, <3>2, <3>3
    <3> QED
        BY <3>4 DEF m
<1>2. TypeOK /\ LogInv => TwiceMaxPerWindow
    BY <1>1 DEF TwiceMaxPerWindow
<1> QED
    BY <1>2, LogAlways, PTL

\* allow refuses nobody who has not had max requests admitted in the window that
\* ends now, in whatever order requests, clock and cleaner come.
THEOREM RefusedOnlyWhenFull == Spec => []DeniedOnlyWhenFull
<1>1. ASSUME TypeOK, LogInv, NEW k \in denied
      PROVE  /\ Len(log[k]) >= Limit
             /\ log[k][Len(log[k]) - Limit + 1].at + Window >= now
  <2> DEFINE n == Len(log[k])
             m == n - Limit + 1
  <2>1. k \in Keys
      BY <1>1 DEF TypeOK
  <2>2. /\ buckets[k] \in Bucket /\ buckets[k].count >= Max
        /\ now <= buckets[k].windowEnd /\ buckets[k] # NoBucket
      BY <1>1, <2>1 DEF LogInv, DeniedByBucket, Over, TypeOK, Bucket
  <2>3. Limit \in Nat /\ Limit >= 1 /\ n \in Nat /\ buckets[k].count = Limit
      BY <2>1, <2>2, EntryTypes, LimitFacts, LimiterAssumption DEF Bucket, Limit
  <2>4. /\ buckets[k].count <= n
        /\ \A l \in 1..n : l > n - buckets[k].count =>
              log[k][l].start + Window = buckets[k].windowEnd
      BY <1>1, <2>1, <2>2 DEF LogInv, BucketCounts, Requests
  <2>5. n >= Limit /\ m \in 1..n
      BY <2>3, <2>4
  <2>6. log[k][m].start + Window = buckets[k].windowEnd
      BY <2>3, <2>4, <2>5
  <2>7. log[k][m].start <= log[k][m].at
      BY <1>1, <2>1, <2>5 DEF LogInv, WindowsApart, Requests
  <2>8. /\ log[k][m].start \in Int /\ log[k][m].at \in Nat
        /\ buckets[k].windowEnd \in Nat /\ now \in Nat /\ Window \in Nat
      BY <1>1, <2>1, <2>2, <2>5, EntryTypes, LimiterAssumption DEF TypeOK, Bucket
  <2> HIDE DEF m
  <2>9. log[k][m].at + Window >= now
      BY <2>2, <2>6, <2>7, <2>8
  <2> QED
      BY <2>5, <2>9 DEF m
<1>2. TypeOK /\ LogInv => DeniedOnlyWhenFull
    BY <1>1 DEF DeniedOnlyWhenFull
<1> QED
    BY <1>2, LogAlways, PTL
==============================================================================
