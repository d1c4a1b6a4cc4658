-------------------------- MODULE MigrationsProofs ---------------------------
(***************************************************************************)
(* Theorems about Migrations for any files, processes and bounds: its      *)
(* types, what the records say of the schema, and that batches are rolled  *)
(* back in the reverse order of their migration.                           *)
(***************************************************************************)
EXTENDS Migrations, FiniteSetTheorems, SequenceTheorems, WellFoundedInduction, TLAPS

(* Sets of numbers.  An induction over them is the choice of a least           *)
(* counterexample, which WFMin grants for a set of numbers.                    *)

LEMMA Least ==
    ASSUME NEW S \in SUBSET Nat, S # {}
    PROVE  \E m \in S : \A n \in S : m <= n
<1>1. PICK R : R = OpToRel(<, Nat)
    OBVIOUS
<1>2. PICK m \in S : \A n \in S : <<n, m>> \notin R
    BY <1>1, NatLessThanWellFounded, WFMin
<1>3. \A n \in Nat : n < m => <<n, m>> \in R
    BY <1>1 DEF OpToRel
<1>4. \A n \in S : ~(n < m)
    BY <1>2, <1>3
<1>5. \A n \in S : m <= n
    BY <1>4
<1> QED
    BY <1>5

LEMMA OneLess ==
    ASSUME NEW S, IsFiniteSet(S), NEW x \in S
    PROVE  /\ IsFiniteSet(S \ {x})
           /\ Cardinality(S \ {x}) = Cardinality(S) - 1
           /\ Cardinality(S \ {x}) \in Nat
<1>1. IsFiniteSet(S \ {x}) /\ Cardinality(S \ {x}) = Cardinality(S) - 1
    BY FS_RemoveElement
<1> QED
    BY <1>1, FS_CardinalityType

Greatest(S, m) == m \in S /\ \A n \in S : n <= m

\* Max, which chooses such a number, finds it: what MAX(batch) gives is a batch.
LEMMA MaxIsGreatest ==
    ASSUME NEW S \in SUBSET Nat, IsFiniteSet(S), S # {}
    PROVE  Greatest(S, Max(S))
<1> DEFINE Counter(n, T) == /\ T \in SUBSET Nat /\ IsFiniteSet(T) /\ T # {}
                            /\ Cardinality(T) = n
                            /\ \A m : ~Greatest(T, m)
           Counters == {n \in Nat : \E T : Counter(n, T)}
<1>1. Counters = {}
  <2> SUFFICES ASSUME Counters # {} PROVE FALSE
      OBVIOUS
  <2>1. PICK n \in Counters : \A k \in Counters : n <= k
      BY Least
  <2>2. PICK T : Counter(n, T)
      OBVIOUS
  <2>3. PICK x : x \in T
      BY <2>2
  <2>4. /\ IsFiniteSet(T \ {x}) /\ Cardinality(T \ {x}) = n - 1
        /\ n - 1 \in Nat
      BY <2>2, <2>3, OneLess
  <2>5. CASE T = {x}
      BY <2>2, <2>3, <2>5 DEF Greatest
  <2>6. CASE T # {x}
    <3>1. n - 1 \notin Counters
        BY <2>1, <2>4
    <3>2. PICK m : Greatest(T \ {x}, m)
        BY <2>2, <2>3, <2>4, <2>6, <3>1
    <3>3. m \in Nat /\ x \in Nat
        BY <2>2, <2>3, <3>2 DEF Greatest
    <3>4. CASE m <= x
      <4>1. Greatest(T, x)
          BY <2>2, <2>3, <3>2, <3>3, <3>4 DEF Greatest
      <4> QED
          BY <2>2, <4>1
    <3>5. CASE x < m
      <4>1. Greatest(T, m)
          BY <2>2, <2>3, <3>2, <3>3, <3>5 DEF Greatest
      <4> QED
          BY <2>2, <4>1
    <3> QED
        BY <3>3, <3>4, <3>5
  <2> QED
      BY <2>5, <2>6
<1>2. PICK m : Greatest(S, m)
  <2>1. Cardinality(S) \in Nat
      BY FS_CardinalityType
  <2>2. ~Counter(Cardinality(S), S)
      BY <1>1, <2>1
  <2> QED
      BY <2>2
<1> QED
    BY <1>2 DEF Max, Greatest

Increasing(s) == \A i, j \in DOMAIN s : i < j => s[i] < s[j]

\* Every finite set of numbers can be sorted.
LEMMA SetsSort ==
    ASSUME NEW S \in SUBSET Nat, IsFiniteSet(S)
    PROVE  \E s \in [1..Cardinality(S) -> S] : Increasing(s)
<1> DEFINE Counter(n, T) == /\ T \in SUBSET Nat /\ IsFiniteSet(T)
                            /\ Cardinality(T) = n
                            /\ \A s \in [1..n -> T] : ~Increasing(s)
           Counters == {n \in Nat : \E T : Counter(n, T)}
<1>1. Counters = {}
  <2> SUFFICES ASSUME Counters # {} PROVE FALSE
      OBVIOUS
  <2>1. PICK n \in Counters : \A k \in Counters : n <= k
      BY Least
  <2>2. PICK T : Counter(n, T)
      OBVIOUS
  <2>3. CASE n = 0
    <3>1. [i \in 1..0 |-> i] \in [1..n -> T]
        BY <2>3
    <3>2. Increasing([i \in 1..0 |-> i])
        BY DEF Increasing
    <3> QED
        BY <2>2, <3>1, <3>2
  <2>4. CASE n # 0
    <3>1. T # {}
        BY <2>2, <2>4, FS_EmptySet
    <3>2. PICK m : Greatest(T, m)
        BY <2>2, <3>1, MaxIsGreatest
    <3>3. /\ IsFiniteSet(T \ {m}) /\ Cardinality(T \ {m}) = n - 1
          /\ n - 1 \in Nat
        BY <2>2, <3>2, OneLess DEF Greatest
    <3>4. n - 1 \notin Counters
        BY <2>1, <3>3
    <3>5. PICK s \in [1..(n - 1) -> T \ {m}] : Increasing(s)
        BY <2>2, <3>3, <3>4
    <3>6. PICK t : t = [i \in 1..n |-> IF i = n THEN m ELSE s[i]]
        OBVIOUS
    <3>7. \A i \in 1..n : i # n => i \in 1..(n - 1)
        BY <3>3
    <3>8. t \in [1..n -> T]
        BY <3>2, <3>5, <3>6, <3>7 DEF Greatest
    <3>9. \A i \in 1..(n - 1) : s[i] \in Nat /\ s[i] < m
      <4>1. m \in Nat /\ \A x \in T \ {m} : x \in Nat /\ x <= m /\ x # m
          BY <2>2, <3>2 DEF Greatest
      <4>2. \A x \in T \ {m} : x \in Nat /\ x < m
          BY <4>1
      <4> QED
          BY <3>5, <4>2
    <3>10. ASSUME NEW i \in 1..n, NEW j \in 1..n, i < j PROVE t[i] < t[j]
      <4>1. i \in 1..(n - 1) /\ t[i] = s[i]
          BY <3>3, <3>6, <3>10
      <4>2. CASE j = n
          BY <3>6, <3>9, <4>1, <4>2
      <4>3. CASE j # n
          BY <3>5, <3>6, <3>7, <3>10, <4>1, <4>3 DEF Increasing
      <4> QED
          BY <4>2, <4>3
    <3>11. Increasing(t)
        BY <3>6, <3>10 DEF Increasing
    <3> QED
        BY <2>2, <3>8, <3>11
  <2> QED
      BY <2>3, <2>4
<1>2. Cardinality(S) \in Nat
    BY FS_CardinalityType
<1>3. ~Counter(Cardinality(S), S)
    BY <1>1, <1>2
<1> QED
    BY <1>3

\* What sort.Strings and the ORDER BY of the database promise.
LEMMA AscendingSorts ==
    ASSUME NEW S \in SUBSET Nat, IsFiniteSet(S)
    PROVE  /\ Ascending(S) \in Seq(S)
           /\ Increasing(Ascending(S))
           /\ \A x \in S : \E i \in DOMAIN Ascending(S) : Ascending(S)[i] = x
<1>1. PICK n \in Nat : n = Cardinality(S) /\ IsFiniteSet(1..n) /\ Cardinality(1..n) = n
    BY FS_CardinalityType, FS_Interval
<1>2. PICK s : s = Ascending(S)
    OBVIOUS
<1>3. s \in [1..n -> S] /\ Increasing(s)
    BY <1>1, <1>2, SetsSort DEF Ascending, Increasing
<1>4. s \in Seq(S)
    BY <1>3
<1>5. s \in Injection(1..n, S)
  <2>1. ASSUME NEW i \in 1..n, NEW j \in 1..n, i # j PROVE s[i] # s[j]
    <3>1. s[i] \in Nat /\ s[j] \in Nat
        BY <1>3
    <3>2. i < j \/ j < i
        BY <2>1
    <3>3. s[i] < s[j] \/ s[j] < s[i]
        BY <1>3, <3>2 DEF Increasing
    <3> QED
        BY <3>1, <3>3
  <2> QED
      BY <1>3, <2>1 DEF Injection, IsInjective
<1>6. s \in Surjection(1..n, S)
    BY <1>1, <1>5, FS_Injection
<1> QED
    BY <1>2, <1>3, <1>4, <1>6 DEF Surjection

------------------------------------------------------------------------------
(* What the actions compute from the tables. *)

Row == [name : Files, batch : Nat]

LEMMA LastBatchIsLast ==
    ASSUME table \in Seq(Row)
    PROVE  LastBatch \in Nat /\ \A i \in DOMAIN table : table[i].batch <= LastBatch
<1>1. PICK B : B = {table[i].batch : i \in DOMAIN table}
    OBVIOUS
<1>2. B \in SUBSET Nat
  <2>1. \A i \in DOMAIN table : table[i] \in Row
      BY LenProperties, ElementOfSeq
  <2> QED
      BY <1>1, <2>1 DEF Row
<1>3. IsFiniteSet(B)
  <2>1. Len(table) \in Nat /\ DOMAIN table = 1..Len(table)
      BY LenProperties
  <2>2. IsFiniteSet(1..Len(table))
      BY <2>1, FS_Interval
  <2>3. PICK g : g = [i \in DOMAIN table |-> table[i].batch]
      OBVIOUS
  <2>4. g \in Surjection(1..Len(table), B)
      BY <1>1, <2>1, <2>3 DEF Surjection
  <2> QED
      BY <2>2, <2>4, FS_Surjection
<1>4. IsFiniteSet(B \cup {0}) /\ B \cup {0} \in SUBSET Nat
    BY <1>2, <1>3, FS_AddElement
<1>5. Greatest(B \cup {0}, LastBatch)
    BY <1>1, <1>4, MaxIsGreatest DEF LastBatch
<1> QED
    BY <1>1, <1>4, <1>5 DEF Greatest

\* DELETE takes one row out and leaves the others in their order.
LEMMA DeletedRow ==
    ASSUME table \in Seq(Row), NEW f \in Recorded
    PROVE  \E k \in DOMAIN table :
              /\ table[k].name = f
              /\ Without(f) = [i \in 1..(Len(table) - 1) |->
                                  IF i < k THEN table[i] ELSE table[i + 1]]
<1>1. PICK k \in DOMAIN table : table[k].name = f /\ Without(f) = RemoveAt(table, k)
    BY DEF Recorded, Without
<1>2. /\ Len(table) \in Nat /\ k \in 1..Len(table) /\ DOMAIN table = 1..Len(table)
      /\ \A i \in 1..Len(table) : table[i] \in Row
    BY LenProperties, ElementOfSeq
<1>3. PICK s, t : s = SubSeq(table, 1, k - 1) /\ t = SubSeq(table, k + 1, Len(table))
    OBVIOUS
<1>4. /\ s \in Seq(Row) /\ Len(s) = k - 1
      /\ \A i \in 1..(k - 1) : s[i] = table[i]
  <2>1. \A i \in 1..(k - 1) : table[i] \in Row
      BY <1>2
  <2> QED
      BY <1>2, <1>3, <2>1, SubSeqProperties
<1>5. /\ t \in Seq(Row) /\ Len(t) = Len(table) - k
      /\ \A i \in 1..(Len(table) - k) : t[i] = table[k + i]
  <2>1. \A i \in (k + 1)..Len(table) : table[i] \in Row
      BY <1>2
  <2> QED
      BY <1>2, <1>3, <2>1, SubSeqProperties
<1>6. PICK w : w = s \o t
    OBVIOUS
<1>7. /\ w \in Seq(Row) /\ Len(w) = Len(table) - 1
      /\ \A i \in 1..(Len(table) - 1) :
            w[i] = IF i <= k - 1 THEN s[i] ELSE t[i - (k - 1)]
  <2>1. Len(s) + Len(t) = Len(table) - 1
      BY <1>2, <1>4, <1>5
  <2>2. /\ w \in Seq(Row) /\ Len(w) = Len(s) + Len(t)
        /\ \A i \in 1..(Len(s) + Len(t)) :
              w[i] = IF i <= Len(s) THEN s[i] ELSE t[i - Len(s)]
      BY <1>4, <1>5, <1>6, ConcatProperties
  <2> QED
      BY <1>4, <2>1, <2>2
<1>8. ASSUME NEW i \in 1..(Len(table) - 1)
      PROVE  w[i] = IF i < k THEN table[i] ELSE table[i + 1]
  <2>1. CASE i < k
    <3>1. i \in 1..(k - 1) /\ i <= k - 1
        BY <1>2, <2>1
    <3> QED
        BY <1>4, <1>7, <2>1, <3>1
  <2>2. CASE ~(i < k)
    <3>1. /\ ~(i <= k - 1) /\ i - (k - 1) \in 1..(Len(table) - k)
          /\ k + (i - (k - 1)) = i + 1
        BY <1>2, <2>2
    <3> QED
        BY <1>5, <1>7, <2>2, <3>1
  <2> QED
      BY <2>1, <2>2
<1>9. w = [i \in 1..(Len(table) - 1) |-> IF i < k THEN table[i] ELSE table[i + 1]]
    BY <1>2, <1>7, <1>8
<1> QED
    BY <1>1, <1>3, <1>6, <1>9 DEF RemoveAt

UniqueNames == \A i, j \in DOMAIN table : table[i].name = table[j].name => i = j

\* The list of a rollback has the rows of the batch, a newer one before an older one.
LEMMA RollbackList ==
    ASSUME table \in Seq(Row), NEW b, NEW t, t = NamesOf(Reverse(Ascending(RowsOf(b))))
    PROVE  /\ t \in Seq(Files)
           /\ \A i \in DOMAIN t : \E k \in RowsOf(b) : t[i] = table[k].name
           /\ UniqueNames =>
                 \A i \in DOMAIN t, k \in RowsOf(b), l \in RowsOf(b) :
                    k < l /\ t[i] = table[k].name =>
                       \E j \in 1..(i - 1) : t[j] = table[l].name
<1>1. /\ Len(table) \in Nat /\ DOMAIN table = 1..Len(table)
      /\ \A i \in DOMAIN table : table[i] \in Row
    BY LenProperties, ElementOfSeq
<1>2. IsFiniteSet(RowsOf(b)) /\ RowsOf(b) \in SUBSET Nat
  <2>1. RowsOf(b) \in SUBSET (1..Len(table))
      BY <1>1 DEF RowsOf
  <2>2. IsFiniteSet(1..Len(table)) /\ 1..Len(table) \in SUBSET Nat
      BY <1>1, FS_Interval
  <2> QED
      BY <2>1, <2>2, FS_Subset
<1>3. PICK s : s = Ascending(RowsOf(b))
    OBVIOUS
<1>4. /\ s \in Seq(RowsOf(b)) /\ Increasing(s)
      /\ \A x \in RowsOf(b) : \E i \in DOMAIN s : s[i] = x
    BY <1>2, <1>3, AscendingSorts
<1>5. PICK n \in Nat : /\ n = Len(s) /\ DOMAIN s = 1..n
                       /\ \A i \in 1..n : s[i] \in RowsOf(b)
    BY <1>4, LenProperties, ElementOfSeq
<1>6. t = [i \in 1..n |-> table[s[n - i + 1]].name]
    BY <1>3, <1>5 DEF NamesOf, Reverse
<1>7. \A i \in 1..n : n - i + 1 \in 1..n /\ s[n - i + 1] \in RowsOf(b)
    BY <1>5
<1>8. \A k \in RowsOf(b) : k \in DOMAIN table /\ table[k].name \in Files
    BY <1>1 DEF RowsOf, Row
<1>9. t \in Seq(Files)
  <2>1. t \in [1..n -> Files]
      BY <1>6, <1>7, <1>8
  <2> QED
      BY <2>1
<1>10. ASSUME UniqueNames, NEW i \in 1..n, NEW k \in RowsOf(b), NEW l \in RowsOf(b),
              k < l, t[i] = table[k].name
       PROVE  \E j \in 1..(i - 1) : t[j] = table[l].name
  <2>1. s[n - i + 1] = k
      BY <1>6, <1>7, <1>8, <1>10 DEF UniqueNames
  <2>2. PICK m \in 1..n : s[m] = l
      BY <1>4, <1>5
  <2>3. ~(m <= n - i + 1)
    <3>1. k \in Nat /\ l \in Nat /\ k < l
        BY <1>2, <1>10
    <3>2. PICK q \in 1..n : q = n - i + 1 /\ s[q] = k
        BY <1>7, <2>1
    <3>3. m < q => l < k
        BY <1>4, <1>5, <2>2, <3>2 DEF Increasing
    <3>4. m # q /\ ~(m < q)
        BY <2>2, <3>1, <3>2, <3>3
    <3> QED
        BY <3>2, <3>4
  <2>4. n - m + 1 \in 1..(i - 1) /\ n - m + 1 \in 1..n /\ n - (n - m + 1) + 1 = m
      BY <2>3
  <2>5. t[n - m + 1] = table[l].name
      BY <1>6, <2>2, <2>4
  <2> QED
      BY <2>4, <2>5
<1> QED
    BY <1>6, <1>7, <1>9, <1>10

\* The statements of a file, each about an object of this file and no other.
LEMMA Sections ==
    ASSUME NEW f \in Files
    PROVE  /\ UpOf(f) \in Seq(Objects) /\ DownOf(f) \in Seq(Objects)
           /\ ObjectsOf(f) \subseteq Objects
           /\ \A i \in DOMAIN UpOf(f) : UpOf(f)[i] \in ObjectsOf(f)
           /\ \A o \in ObjectsOf(f) : \E i \in DOMAIN UpOf(f) : UpOf(f)[i] = o
           /\ \A i \in DOMAIN DownOf(f) : DownOf(f)[i] \in ObjectsOf(f)
           /\ Drops[f] = Creates[f] =>
                 \A o \in ObjectsOf(f) : \E i \in DOMAIN DownOf(f) : DownOf(f)[i] = o
<1>1. Creates[f] \in Nat /\ Drops[f] \in Nat /\ Drops[f] <= Creates[f]
    BY MigrationsAssumption
<1>2. ObjectsOf(f) \subseteq Objects
    BY DEF ObjectsOf, Objects
<1>3. \A i \in 1..Creates[f] : <<f, i>> \in ObjectsOf(f)
    BY DEF ObjectsOf
<1>4. UpOf(f) \in Seq(Objects)
    BY <1>1, <1>2, <1>3 DEF UpOf
<1>5. /\ \A i \in DOMAIN UpOf(f) : UpOf(f)[i] \in ObjectsOf(f)
      /\ \A o \in ObjectsOf(f) : \E i \in DOMAIN UpOf(f) : UpOf(f)[i] = o
    BY <1>3 DEF UpOf, ObjectsOf
<1>6. \A i \in 1..Drops[f] : Creates[f] + 1 - i \in 1..Creates[f]
    BY <1>1
<1>7. DownOf(f) \in Seq(Objects)
  <2>1. \A i \in 1..Drops[f] : <<f, Creates[f] + 1 - i>> \in Objects
      BY <1>2, <1>3, <1>6
  <2>2. DownOf(f) \in [1..Drops[f] -> Objects]
      BY <2>1 DEF DownOf
  <2> QED
      BY <1>1, <2>2
<1>8. \A i \in DOMAIN DownOf(f) : DownOf(f)[i] \in ObjectsOf(f)
    BY <1>3, <1>6 DEF DownOf
<1>9. ASSUME Drops[f] = Creates[f], NEW o \in ObjectsOf(f)
      PROVE  \E i \in DOMAIN DownOf(f) : DownOf(f)[i] = o
  <2>1. PICK i \in 1..Creates[f] : o = <<f, i>>
      BY <1>9 DEF ObjectsOf
  <2>2. /\ Creates[f] + 1 - i \in 1..Drops[f]
        /\ Creates[f] + 1 - (Creates[f] + 1 - i) = i
      BY <1>1, <1>9
  <2> QED
      BY <2>1, <2>2 DEF DownOf
<1> QED
    BY <1>2, <1>4, <1>5, <1>7, <1>8, <1>9

\* The file of a command that is within one.
LEMMA CurrentFile ==
    ASSUME TypeOK, NEW p \in Procs, todo[p] # <<>>
    PROVE  /\ Head(todo[p]) \in Files /\ Head(todo[p]) = todo[p][1]
           /\ 1 \in DOMAIN todo[p]
           /\ Tail(todo[p]) \in Seq(Files)
           /\ \A i \in DOMAIN Tail(todo[p]) :
                 i + 1 \in DOMAIN todo[p] /\ Tail(todo[p])[i] = todo[p][i + 1]
           /\ \A i \in DOMAIN todo[p] : i # 1 =>
                 i - 1 \in DOMAIN Tail(todo[p]) /\ Tail(todo[p])[i - 1] = todo[p][i]
<1>1. PICK s \in Seq(Files) : s = todo[p] /\ s # <<>>
    BY DEF TypeOK
<1>2. /\ Head(s) \in Files /\ Tail(s) \in Seq(Files) /\ Len(Tail(s)) = Len(s) - 1
      /\ Len(s) \in Nat \ {0} /\ DOMAIN s = 1..Len(s) /\ Head(s) = s[1]
      /\ DOMAIN Tail(s) = 1..(Len(s) - 1)
      /\ \A i \in 1..(Len(s) - 1) : Tail(s)[i] = s[i + 1]
    BY <1>1, HeadTailProperties, EmptySeq, LenProperties
<1> QED
    BY <1>1, <1>2

LEMMA EndsType ==
    ASSUME TypeOK, NEW p \in Procs, Ends(p)
    PROVE  /\ pc' \in [Procs -> {"idle"} \cup MigratePC \cup RollbackPC]
           /\ seen' \in [Procs -> SUBSET Files]
           /\ todo' \in [Procs -> Seq(Files)]
           /\ batch' \in [Procs -> Nat]
           /\ stmts' \in [Procs -> Seq(Objects)]
           /\ mine' \in [Procs -> SUBSET Files]
           /\ \A q \in Procs : pc'[q] \in {"up", "down"} => todo'[q] # <<>>
<1>1. <<>> \in Seq(Files) /\ <<>> \in Seq(Objects)
    BY EmptySeq
<1> QED
    BY <1>1 DEF Ends, TypeOK

LEMMA BreaksType ==
    ASSUME TypeOK, NEW p \in Procs, Breaks(p), stops' \in 0..MaxStops
    PROVE  TypeOK'
<1>1. pc[p] \in {"up", "down"} => Head(todo[p]) \in Files
    BY CurrentFile DEF TypeOK
<1>2. left' \subseteq Files /\ torn' \subseteq Files
    BY <1>1 DEF Breaks, TypeOK
<1> QED
    BY <1>2, EndsType DEF Breaks, TypeOK

LEMMA TypeInit == Init => TypeOK
<1>1. <<>> \in Seq(Files) /\ <<>> \in Seq(Objects) /\ <<>> \in Seq([name : Files, batch : Nat])
    BY EmptySeq
<1> QED
    BY <1>1, MigrationsAssumption DEF Init, TypeOK

LEMMA TypeNext == TypeOK /\ [Next]_vars => TypeOK'
<1> SUFFICES ASSUME TypeOK, [Next]_vars PROVE TypeOK'
    OBVIOUS
<1> USE DEF command, history, MigratePC, RollbackPC
<1>0. LastBatch \in Nat /\ Recorded \subseteq Files /\ table \in Seq(Row)
  <2>1. table \in Seq(Row)
      BY DEF TypeOK, Row
  <2>2. \A i \in DOMAIN table : table[i] \in Row
      BY <2>1, LenProperties, ElementOfSeq
  <2> QED
      BY <2>1, <2>2, LastBatchIsLast DEF Recorded, Row
<1>1. ASSUME NEW p \in Procs, MigrateRead(p) PROVE TypeOK'
    BY <1>0, <1>1 DEF MigrateRead, TypeOK
<1>2. ASSUME NEW p \in Procs, RollbackMax(p) PROVE TypeOK'
    BY <1>0, <1>2 DEF RollbackMax, TypeOK
<1>3. ASSUME NEW p \in Procs, MigrateGlob(p) PROVE TypeOK'
  <2>1. IsFiniteSet(dir \ seen[p]) /\ dir \ seen[p] \in SUBSET Nat
      BY MigrationsAssumption, FS_Subset DEF TypeOK
  <2>2. Ascending(dir \ seen[p]) \in Seq(Files)
    <3>1. PICK S \in SUBSET Files : S = dir \ seen[p]
        BY DEF TypeOK
    <3>2. Ascending(S) \in Seq(S)
        BY <2>1, <3>1, AscendingSorts
    <3> QED
        BY <3>1, <3>2, SeqMonotonic
  <2> QED
      BY <1>3, <2>2 DEF MigrateGlob, TypeOK
<1>4. ASSUME NEW p \in Procs, MigrateBatch(p) PROVE TypeOK'
  <2>1. batch' \in [Procs -> Nat]
      BY <1>0, <1>4 DEF MigrateBatch, TypeOK
  <2>2. stops' \in 0..MaxStops
      BY <1>4, MigrationsAssumption DEF MigrateBatch, TypeOK
  <2>3. caveats' \subseteq {"mixed", "moved", "lost"}
      BY <1>4 DEF MigrateBatch, TypeOK
  <2>4. /\ pc' = [pc EXCEPT ![p] = "migrate"]
        /\ UNCHANGED <<dir, schema, table, seen, todo, stmts, mine, left, torn, moves>>
      BY <1>4 DEF MigrateBatch
  <2> QED
      BY <2>1, <2>2, <2>3, <2>4 DEF TypeOK
<1>5. ASSUME NEW p \in Procs, MigrateOpen(p) PROVE TypeOK'
  <2>1. CASE todo[p] # <<>> /\ Head(todo[p]) \in dir
    <3>1. UpOf(Head(todo[p])) \in Seq(Objects)
        BY <2>1, CurrentFile, Sections
    <3>2. /\ pc' = [pc EXCEPT ![p] = "up"]
          /\ stmts' = [stmts EXCEPT ![p] = UpOf(Head(todo[p]))]
          /\ UNCHANGED <<dir, schema, table, seen, todo, batch, mine, history, stops, moves>>
        BY <1>5, <2>1 DEF MigrateOpen
    <3>3. stmts' \in [Procs -> Seq(Objects)]
        BY <3>1, <3>2 DEF TypeOK
    <3> QED
        BY <2>1, <3>2, <3>3 DEF TypeOK
  <2>2. CASE ~(todo[p] # <<>> /\ Head(todo[p]) \in dir)
      BY <1>5, <2>2, EndsType DEF MigrateOpen, TypeOK
  <2> QED
      BY <2>1, <2>2
<1>6. ASSUME NEW p \in Procs, UpStatement(p) PROVE TypeOK'
  <2>1. CASE Breaks(p)
      BY <1>6, <2>1, BreaksType DEF UpStatement, TypeOK
  <2>2. CASE ~Breaks(p)
    <3>1. Head(stmts[p]) \in Objects /\ Tail(stmts[p]) \in Seq(Objects)
        BY <1>6, HeadTailProperties DEF UpStatement, TypeOK
    <3> QED
        BY <1>6, <2>2, <3>1 DEF UpStatement, TypeOK
  <2> QED
      BY <2>1, <2>2
<1>7. ASSUME NEW p \in Procs, Insert(p) PROVE TypeOK'
  <2>1. CASE Breaks(p)
      BY <1>7, <2>1, BreaksType DEF Insert, TypeOK
  <2>2. CASE ~Breaks(p)
    <3>1. Head(todo[p]) \in Files /\ Tail(todo[p]) \in Seq(Files)
        BY <1>7, CurrentFile DEF Insert, TypeOK
    <3>2. [name |-> Head(todo[p]), batch |-> batch[p]] \in Row
        BY <3>1 DEF Row, TypeOK
    <3>3. table' \in Seq(Row)
        BY <1>0, <1>7, <2>2, <3>2, AppendProperties DEF Insert
    <3>4. /\ pc' = [pc EXCEPT ![p] = "migrate"]
          /\ todo' = [todo EXCEPT ![p] = Tail(@)]
          /\ mine' = [mine EXCEPT ![p] = @ \cup {Head(todo[p])}]
          /\ UNCHANGED <<dir, schema, seen, batch, stmts, history, stops, moves>>
        BY <1>7, <2>2 DEF Insert
    <3>5. todo' \in [Procs -> Seq(Files)] /\ mine' \in [Procs -> SUBSET Files]
        BY <3>1, <3>4 DEF TypeOK
    <3>6. \A q \in Procs : pc'[q] \in {"up", "down"} => todo'[q] # <<>>
        BY <3>4 DEF TypeOK
    <3> QED
        BY <3>3, <3>4, <3>5, <3>6 DEF TypeOK, Row
  <2> QED
      BY <2>1, <2>2
<1>8. ASSUME NEW p \in Procs, RollbackRows(p) PROVE TypeOK'
    BY <1>0, <1>8, RollbackList DEF RollbackRows, TypeOK
<1>9. ASSUME NEW p \in Procs, RollbackOpen(p) PROVE TypeOK'
  <2>1. CASE todo[p] # <<>>
    <3>1. Head(todo[p]) \in Files
        BY <2>1, CurrentFile
    <3>2. DownOf(Head(todo[p])) \in Seq(Objects) /\ <<>> \in Seq(Objects)
        BY <3>1, Sections, EmptySeq
    <3> QED
      <4>1. /\ pc' = [pc EXCEPT ![p] = "down"]
            /\ \/ stmts' = [stmts EXCEPT ![p] = DownOf(Head(todo[p]))]
               \/ stmts' = [stmts EXCEPT ![p] = <<>>]
            /\ left' = left \/ left' = left \cup {Head(todo[p])}
            /\ UNCHANGED <<dir, schema, table, seen, todo, batch, mine, caveats, torn,
                           stops, moves>>
          BY <1>9, <2>1 DEF RollbackOpen
      <4>2. stmts' \in [Procs -> Seq(Objects)]
          BY <3>2, <4>1 DEF TypeOK
      <4>3. left' \subseteq Files
          BY <3>1, <4>1 DEF TypeOK
      <4> QED
          BY <2>1, <4>1, <4>2, <4>3 DEF TypeOK
  <2>2. CASE todo[p] = <<>>
      BY <1>9, <2>2, EndsType DEF RollbackOpen, TypeOK
  <2> QED
      BY <2>1, <2>2
<1>10. ASSUME NEW p \in Procs, DownStatement(p) PROVE TypeOK'
  <2>1. CASE Breaks(p)
      BY <1>10, <2>1, BreaksType DEF DownStatement, TypeOK
  <2>2. CASE ~Breaks(p)
    <3>1. Head(stmts[p]) \in Objects /\ Tail(stmts[p]) \in Seq(Objects)
        BY <1>10, HeadTailProperties DEF DownStatement, TypeOK
    <3> QED
        BY <1>10, <2>2, <3>1 DEF DownStatement, TypeOK
  <2> QED
      BY <2>1, <2>2
<1>11. ASSUME NEW p \in Procs, Delete(p) PROVE TypeOK'
  <2>1. Head(todo[p]) \in Files /\ Tail(todo[p]) \in Seq(Files)
      BY <1>11, CurrentFile DEF Delete, TypeOK
  <2>2. Without(Head(todo[p])) \in Seq(Row)
    <3>1. CASE Head(todo[p]) \in Recorded
      <4>1. PICK k \in DOMAIN table :
               Without(Head(todo[p])) = [i \in 1..(Len(table) - 1) |->
                                            IF i < k THEN table[i] ELSE table[i + 1]]
          BY <1>0, <3>1, DeletedRow
      <4>2. /\ Len(table) \in Nat /\ DOMAIN table = 1..Len(table)
            /\ \A i \in 1..Len(table) : table[i] \in Row
          BY <1>0, LenProperties, ElementOfSeq
      <4>3. Len(table) - 1 \in Nat
          BY <4>2
      <4>4. Without(Head(todo[p])) \in [1..(Len(table) - 1) -> Row]
          BY <4>1, <4>2
      <4> QED
          BY <4>3, <4>4
    <3>2. CASE Head(todo[p]) \notin Recorded
        BY <1>0, <3>2 DEF Without
    <3> QED
        BY <3>1, <3>2
  <2> QED
      BY <1>11, <2>1, <2>2 DEF Delete, TypeOK, Row
<1>12. ASSUME NEW p \in Procs, Stop(p) PROVE TypeOK'
  <2>1. stops' \in 0..MaxStops
      BY <1>12, MigrationsAssumption DEF Stop, TypeOK
  <2> QED
      BY <1>12, <2>1, BreaksType DEF Stop
<1>13. CASE MoveFile
    BY <1>13, MigrationsAssumption DEF MoveFile, TypeOK
<1>14. CASE UNCHANGED vars
    BY <1>14 DEF vars, TypeOK
<1> QED
    BY <1>1, <1>2, <1>3, <1>4, <1>5, <1>6, <1>7, <1>8, <1>9, <1>10, <1>11, <1>12, <1>13,
       <1>14 DEF Next, Migrate, Rollback

\* Every value stays in its range; the batches and the lists of files that are
\* computed from the tables are such.
THEOREM MigrationsType == Spec => []TypeOK
    BY TypeInit, TypeNext, PTL DEF Spec

------------------------------------------------------------------------------
(* What the records say of the schema. *)

\* Migrates and rollbacks do not run at the same time, unless this is noted.
Separate == "mixed" \notin caveats => ~(Running(MigratePC) /\ Running(RollbackPC))

\* The objects of the statements p has still to execute.
Pending(p) == {stmts[p][i] : i \in DOMAIN stmts[p]}

\* AppliedWhenRecorded and LeftoversExplained, and what has come of a file a command
\* is within: a migrate has created what it will not create any more, and unless the
\* file is noted a rollback will drop what is there.
Touched == \A p \in Procs : pc[p] \in {"up", "down"} =>
               Pending(p) \subseteq ObjectsOf(Head(todo[p]))
Created == \A p \in Procs : pc[p] = "up" =>
               ObjectsOf(Head(todo[p])) \subseteq schema \cup Pending(p)
Dropped == \A p \in Procs : pc[p] = "down" =>
               \/ Head(todo[p]) \in left
               \/ ObjectsOf(Head(todo[p])) \cap schema \subseteq Pending(p)
Applied == \A f \in Recorded \ torn : ObjectsOf(f) \subseteq schema \/ At({"down"}, f)
Explained == \A f \in Files \ (Recorded \cup left) :
                 ObjectsOf(f) \cap schema = {} \/ At({"up"}, f)

SchemaInv ==
    "mixed" \notin caveats => Touched /\ Created /\ Dropped /\ Applied /\ Explained

LEMMA CaveatsStay == [Next]_vars => caveats \subseteq caveats'
<1>1. ASSUME NEW p \in Procs, Breaks(p) PROVE caveats \subseteq caveats'
    BY <1>1 DEF Breaks
<1>2. ASSUME NEW p \in Procs, MigrateRead(p) \/ RollbackMax(p) PROVE caveats \subseteq caveats'
    BY <1>2 DEF MigrateRead, RollbackMax
<1>3. ASSUME NEW p \in Procs, Migrate(p) PROVE caveats \subseteq caveats'
    BY <1>1, <1>3 DEF Migrate, MigrateGlob, MigrateBatch, MigrateOpen, UpStatement, Insert,
                      history
<1>4. ASSUME NEW p \in Procs, Rollback(p) PROVE caveats \subseteq caveats'
    BY <1>1, <1>4 DEF Rollback, RollbackRows, RollbackOpen, DownStatement, Delete, history
<1>5. ASSUME NEW p \in Procs, Stop(p) PROVE caveats \subseteq caveats'
    BY <1>1, <1>5 DEF Stop
<1>6. MoveFile \/ UNCHANGED vars => caveats \subseteq caveats'
    BY DEF MoveFile, vars, history
<1> QED
    BY <1>2, <1>3, <1>4, <1>5, <1>6 DEF Next

LEMMA SeparateNext == TypeOK /\ Separate /\ [Next]_vars => Separate'
<1> SUFFICES ASSUME TypeOK, Separate, [Next]_vars PROVE Separate'
    OBVIOUS
<1> USE DEF command, history, MigratePC, RollbackPC
<1>1. ASSUME caveats \subseteq caveats',
             \A q \in Procs : /\ pc'[q] \in MigratePC => pc[q] \in MigratePC
                              /\ pc'[q] \in RollbackPC => pc[q] \in RollbackPC
      PROVE  Separate'
    BY <1>1 DEF Separate, Running
<1>2. ASSUME NEW p \in Procs, MigrateRead(p) PROVE Separate'
    BY <1>2 DEF MigrateRead, Separate, Running, TypeOK
<1>3. ASSUME NEW p \in Procs, RollbackMax(p) PROVE Separate'
    BY <1>3 DEF RollbackMax, Separate, Running, TypeOK
<1>4. ASSUME NEW p \in Procs, Breaks(p) PROVE Separate'
    BY <1>1, <1>4 DEF Breaks, Ends, TypeOK
<1>5. ASSUME NEW p \in Procs, Migrate(p) PROVE Separate'
  <2>1. CASE MigrateGlob(p) \/ MigrateBatch(p)
      BY <1>1, <1>4, <2>1 DEF MigrateGlob, MigrateBatch, TypeOK
  <2>2. CASE MigrateOpen(p)
      BY <1>1, <2>2 DEF MigrateOpen, Ends, TypeOK
  <2>3. CASE UpStatement(p)
      BY <1>1, <1>4, <2>3 DEF UpStatement, TypeOK
  <2>4. CASE Insert(p)
      BY <1>1, <1>4, <2>4 DEF Insert, TypeOK
  <2> QED
      BY <1>2, <1>5, <2>1, <2>2, <2>3, <2>4 DEF Migrate
<1>6. ASSUME NEW p \in Procs, Rollback(p) PROVE Separate'
    BY <1>1, <1>4, <1>6 DEF Rollback, RollbackRows, RollbackOpen, DownStatement, Delete, Ends,
                            TypeOK
<1>7. CASE MoveFile \/ UNCHANGED vars
    BY <1>1, <1>7 DEF MoveFile, vars
<1> QED
    BY <1>2, <1>3, <1>4, <1>5, <1>6, <1>7 DEF Next, Stop

\* What a step makes of the migrations table.
LEMMA TableSteps ==
    ASSUME TypeOK, [Next]_vars
    PROVE  \/ table' = table
           \/ \E p \in Procs : /\ Insert(p) /\ Head(todo[p]) \notin Recorded
                               /\ table' = Append(table, [name |-> Head(todo[p]),
                                                          batch |-> batch[p]])
           \/ \E p \in Procs : Delete(p) /\ table' = Without(Head(todo[p]))
<1> USE DEF command, history
<1>1. ASSUME NEW p \in Procs, Migrate(p) \/ Rollback(p), table' # table
      PROVE  \/ /\ Insert(p) /\ Head(todo[p]) \notin Recorded
                /\ table' = Append(table, [name |-> Head(todo[p]), batch |-> batch[p]])
             \/ Delete(p) /\ table' = Without(Head(todo[p]))
    BY <1>1 DEF Migrate, MigrateGlob, MigrateBatch, MigrateOpen, UpStatement, Insert,
                Rollback, RollbackRows, RollbackOpen, DownStatement, Delete, Breaks
<1>2. ASSUME NEW p \in Procs, MigrateRead(p) \/ RollbackMax(p) \/ Stop(p)
      PROVE  table' = table
    BY <1>2 DEF MigrateRead, RollbackMax, Stop, Breaks
<1> QED
    BY <1>1, <1>2 DEF Next, MoveFile, vars

\* The row an insert adds is the last one, and the others stay.
LEMMA InsertedRow ==
    ASSUME TypeOK, NEW row \in Row, table' = Append(table, row)
    PROVE  \E n \in Nat : /\ DOMAIN table = 1..n /\ DOMAIN table' = 1..(n + 1)
                          /\ table'[n + 1] = row
                          /\ \A i \in 1..n : table'[i] = table[i]
<1>1. table \in Seq(Row)
    BY DEF TypeOK, Row
<1>2. Len(table) \in Nat /\ DOMAIN table = 1..Len(table)
    BY <1>1, LenProperties
<1>3. PICK t \in Seq(Row) : t = table' /\ t = Append(table, row)
    BY <1>1, AppendProperties
<1>4. /\ Len(t) = Len(table) + 1 /\ DOMAIN t = 1..Len(t)
      /\ \A i \in 1..Len(table) : t[i] = table[i]
      /\ t[Len(table) + 1] = row
    BY <1>1, <1>2, <1>3, AppendProperties, LenProperties
<1> QED
    BY <1>2, <1>3, <1>4

LEMMA Recording ==
    ASSUME TypeOK, NEW f \in Files, NEW b \in Nat,
           table' = Append(table, [name |-> f, batch |-> b])
    PROVE  Recorded' = Recorded \cup {f}
<1>1. PICK row \in Row : row = [name |-> f, batch |-> b]
    BY DEF Row
<1>2. PICK n \in Nat : /\ DOMAIN table = 1..n /\ DOMAIN table' = 1..(n + 1)
                       /\ table'[n + 1] = row
                       /\ \A i \in 1..n : table'[i] = table[i]
    BY <1>1, InsertedRow
<1>3. \A i \in 1..(n + 1) : i \in 1..n \/ i = n + 1
    OBVIOUS
<1> QED
    BY <1>1, <1>2, <1>3 DEF Recorded

\* The rows a delete leaves, each at its place or at the one before.
LEMMA RemainingRows ==
    ASSUME TypeOK, UniqueNames, NEW f \in Files, table' = Without(f)
    PROVE  /\ \A i \in DOMAIN table' : \E j \in DOMAIN table :
                 (j = i \/ j = i + 1) /\ table'[i] = table[j] /\ table[j].name # f
           /\ \A i, j \in DOMAIN table' : i < j =>
                 \E k, l \in DOMAIN table : k < l /\ table'[i] = table[k] /\ table'[j] = table[l]
           /\ Recorded' = Recorded \ {f}
<1>1. table \in Seq(Row)
    BY DEF TypeOK, Row
<1>2. PICK n \in Nat : n = Len(table) /\ DOMAIN table = 1..n
    BY <1>1, LenProperties
<1>3. CASE f \notin Recorded
  <2>1. table' = table
      BY <1>3 DEF Without
  <2> QED
      BY <1>2, <1>3, <2>1 DEF Recorded
<1>4. CASE f \in Recorded
  <2>1. PICK k \in 1..n :
           /\ table[k].name = f
           /\ table' = [i \in 1..(n - 1) |-> IF i < k THEN table[i] ELSE table[i + 1]]
      BY <1>1, <1>2, <1>4, DeletedRow
  <2>2. DOMAIN table' = 1..(n - 1)
      BY <2>1
  <2>3. ASSUME NEW i \in 1..(n - 1)
        PROVE  \E j \in 1..n : /\ j = (IF i < k THEN i ELSE i + 1)
                               /\ table'[i] = table[j] /\ table[j].name # f
    <3>1. PICK j \in 1..n : j = (IF i < k THEN i ELSE i + 1) /\ j # k
        OBVIOUS
    <3> QED
        BY <1>2, <2>1, <3>1 DEF UniqueNames
  <2>4. ASSUME NEW j \in 1..n, table[j].name # f
        PROVE  \E i \in 1..(n - 1) : table'[i] = table[j]
    <3>1. CASE j < k
        BY <2>1, <3>1
    <3>2. CASE k < j
      <4>1. j - 1 \in 1..(n - 1) /\ ~(j - 1 < k) /\ (j - 1) + 1 = j
          BY <3>2
      <4> QED
          BY <2>1, <4>1
    <3> QED
        BY <2>1, <2>4, <3>1, <3>2
  <2>5. ASSUME NEW i \in 1..(n - 1), NEW j \in 1..(n - 1), i < j
        PROVE  \E x, y \in 1..n : x < y /\ table'[i] = table[x] /\ table'[j] = table[y]
    <3>1. PICK x \in 1..n : x = (IF i < k THEN i ELSE i + 1) /\ table'[i] = table[x]
        BY <2>3
    <3>2. PICK y \in 1..n : y = (IF j < k THEN j ELSE j + 1) /\ table'[j] = table[y]
        BY <2>3
    <3>3. x < y
        BY <2>5, <3>1, <3>2
    <3> QED
        BY <3>1, <3>2, <3>3
  <2>6. Recorded' = Recorded \ {f}
    <3>1. ASSUME NEW g \in Recorded' PROVE g \in Recorded \ {f}
      <4>1. PICK i \in 1..(n - 1) : g = table'[i].name
          BY <2>2, <3>1 DEF Recorded
      <4>2. PICK j \in 1..n : table'[i] = table[j] /\ table[j].name # f
          BY <2>3
      <4> QED
          BY <1>2, <4>1, <4>2 DEF Recorded
    <3>2. ASSUME NEW g \in Recorded \ {f} PROVE g \in Recorded'
      <4>1. PICK j \in 1..n : g = table[j].name
          BY <1>2, <3>2 DEF Recorded
      <4>2. PICK i \in 1..(n - 1) : table'[i] = table[j]
          BY <2>4, <3>2, <4>1
      <4> QED
          BY <2>2, <4>1, <4>2 DEF Recorded
    <3> QED
        BY <3>1, <3>2
  <2>7. ASSUME NEW i \in 1..(n - 1)
        PROVE  \E j \in 1..n : (j = i \/ j = i + 1) /\ table'[i] = table[j] /\ table[j].name # f
      BY <2>3
  <2>8. \A i \in DOMAIN table' : \E j \in DOMAIN table :
           (j = i \/ j = i + 1) /\ table'[i] = table[j] /\ table[j].name # f
    <3>1. DOMAIN table' = 1..(n - 1) /\ DOMAIN table = 1..n
        BY <1>2, <2>2
    <3> QED
        BY <2>7, <3>1
  <2>9. ASSUME NEW i \in DOMAIN table', NEW j \in DOMAIN table', i < j
        PROVE  \E x, y \in DOMAIN table :
                  x < y /\ table'[i] = table[x] /\ table'[j] = table[y]
    <3>1. i \in 1..(n - 1) /\ j \in 1..(n - 1)
        BY <2>2
    <3>2. PICK x \in 1..n, y \in 1..n :
             x < y /\ table'[i] = table[x] /\ table'[j] = table[y]
        BY <2>5, <2>9, <3>1
    <3> QED
        BY <1>2, <3>2
  <2> QED
      BY <2>6, <2>8, <2>9
<1> QED
    BY <1>3, <1>4

LEMMA RowNumbers == ASSUME NEW t \in Seq(Row) PROVE DOMAIN t \subseteq Nat
    BY LenProperties

LEMMA UniqueNext == TypeOK /\ UniqueNames /\ [Next]_vars => UniqueNames'
<1> SUFFICES ASSUME TypeOK, UniqueNames, [Next]_vars PROVE UniqueNames'
    OBVIOUS
<1>1. CASE table' = table
    BY <1>1 DEF UniqueNames
<1>2. ASSUME NEW p \in Procs, Insert(p), Head(todo[p]) \notin Recorded,
             table' = Append(table, [name |-> Head(todo[p]), batch |-> batch[p]])
      PROVE  UniqueNames'
  <2>1. PICK row \in Row : row = [name |-> Head(todo[p]), batch |-> batch[p]]
      BY <1>2, CurrentFile DEF Insert, TypeOK, Row
  <2>2. PICK n \in Nat : /\ DOMAIN table = 1..n /\ DOMAIN table' = 1..(n + 1)
                         /\ table'[n + 1] = row
                         /\ \A i \in 1..n : table'[i] = table[i]
      BY <1>2, <2>1, InsertedRow
  <2>3. \A i \in 1..n : table'[i].name # table'[n + 1].name
      BY <1>2, <2>1, <2>2 DEF Recorded
  <2> QED
      BY <2>2, <2>3 DEF UniqueNames
<1>3. ASSUME NEW p \in Procs, Delete(p), table' = Without(Head(todo[p])) PROVE UniqueNames'
  <2>1. Head(todo[p]) \in Files
      BY <1>3, CurrentFile DEF Delete, TypeOK
  <2>2. \A i, j \in DOMAIN table' : i < j =>
           \E k, l \in DOMAIN table : k < l /\ table'[i] = table[k] /\ table'[j] = table[l]
      BY <1>3, <2>1, RemainingRows
  <2>3. DOMAIN table \subseteq Nat
      BY RowNumbers DEF TypeOK, Row
  <2>4. ASSUME NEW i \in DOMAIN table', NEW j \in DOMAIN table', i < j
        PROVE  table'[i].name # table'[j].name
    <3>1. PICK k, l \in DOMAIN table : k < l /\ table'[i] = table[k] /\ table'[j] = table[l]
        BY <2>2, <2>4
    <3> QED
        BY <2>3, <3>1 DEF UniqueNames
  <2>5. table' \in Seq(Row)
      BY TypeNext DEF TypeOK, Row
  <2>6. DOMAIN table' \subseteq Nat
      BY <2>5, RowNumbers
  <2> QED
      BY <2>4, <2>6 DEF UniqueNames
<1> QED
    BY <1>1, <1>2, <1>3, TableSteps

LEMMA OneFileOnly ==
    ASSUME NEW f, NEW g, f # g
    PROVE  ObjectsOf(f) \cap ObjectsOf(g) = {}
BY DEF ObjectsOf

\* A process that is not p is left alone.
Others(p) == \A q \in Procs \ {p} : /\ pc'[q] = pc[q] /\ todo'[q] = todo[q]
                                    /\ stmts'[q] = stmts[q]

\* What executing the next statement leaves.
LEMMA NextStatement ==
    ASSUME TypeOK, NEW p \in Procs, stmts[p] # <<>>, stmts' = [stmts EXCEPT ![p] = Tail(@)]
    PROVE  /\ Head(stmts[p]) \in Pending(p)
           /\ Pending(p)' \subseteq Pending(p)
           /\ Pending(p) \subseteq Pending(p)' \cup {Head(stmts[p])}
<1>1. PICK s \in Seq(Objects) : s = stmts[p] /\ s # <<>>
    BY DEF TypeOK
<1>2. /\ Len(s) \in Nat \ {0} /\ DOMAIN s = 1..Len(s) /\ Head(s) = s[1]
      /\ DOMAIN Tail(s) = 1..(Len(s) - 1)
      /\ \A i \in 1..(Len(s) - 1) : Tail(s)[i] = s[i + 1]
    BY <1>1, HeadTailProperties, EmptySeq, LenProperties
<1>3. stmts'[p] = Tail(s)
    BY <1>1 DEF TypeOK
<1>4. \A i \in DOMAIN s : i # 1 => i - 1 \in DOMAIN Tail(s) /\ s[i] = Tail(s)[i - 1]
  <2>1. \A i \in 1..Len(s) : i # 1 => i - 1 \in 1..(Len(s) - 1) /\ (i - 1) + 1 = i
      BY <1>2
  <2> QED
      BY <1>2, <2>1
<1>5. /\ Pending(p) = {s[i] : i \in DOMAIN s}
      /\ Pending(p)' = {Tail(s)[i] : i \in DOMAIN Tail(s)}
    BY <1>1, <1>3 DEF Pending
<1>6. 1 \in DOMAIN s /\ \A i \in 1..(Len(s) - 1) : i + 1 \in DOMAIN s
    BY <1>2
<1>7. Pending(p)' \subseteq Pending(p)
    BY <1>2, <1>5, <1>6
<1>8. Pending(p) \subseteq Pending(p)' \cup {Head(s)}
  <2>1. ASSUME NEW i \in DOMAIN s, i # 1 PROVE s[i] \in Pending(p)'
      BY <1>4, <1>5, <2>1
  <2>2. s[1] = Head(s)
      BY <1>2
  <2> QED
      BY <1>5, <2>1, <2>2
<1>9. Head(s) \in Pending(p)
    BY <1>2, <1>5, <1>6
<1> QED
    BY <1>1, <1>7, <1>8, <1>9

LEMMA SchemaNext == TypeOK /\ UniqueNames /\ Separate /\ SchemaInv /\ [Next]_vars => SchemaInv'
<1> SUFFICES ASSUME TypeOK, UniqueNames, Separate, SchemaInv, [Next]_vars,
                    "mixed" \notin caveats'
             PROVE  (Touched /\ Created /\ Dropped /\ Applied /\ Explained)'
    BY DEF SchemaInv
<1> USE DEF command, history
<1>0. /\ "mixed" \notin caveats /\ Touched /\ Created /\ Dropped /\ Applied /\ Explained
      /\ ~(Running(MigratePC) /\ Running(RollbackPC))
  <2>1. caveats \subseteq caveats'
      BY CaveatsStay
  <2> QED
      BY <2>1 DEF SchemaInv, Separate
<1>1. ASSUME UNCHANGED <<schema, table, left, torn>>,
             \A q \in Procs : \/ /\ pc'[q] = pc[q] /\ todo'[q] = todo[q]
                                 /\ stmts'[q] = stmts[q]
                              \/ pc[q] \notin {"up", "down"} /\ pc'[q] \notin {"up", "down"}
      PROVE  (Touched /\ Created /\ Dropped /\ Applied /\ Explained)'
  <2>1. \A q \in Procs : pc'[q] \in {"up", "down"} =>
           /\ pc'[q] = pc[q] /\ Head(todo[q])' = Head(todo[q]) /\ Pending(q)' = Pending(q)
      BY <1>1 DEF Pending
  <2>2. \A q \in Procs : pc[q] \in {"up", "down"} =>
           pc'[q] = pc[q] /\ Head(todo[q])' = Head(todo[q])
      BY <1>1
  <2>3. Recorded' = Recorded
      BY <1>1 DEF Recorded
  <2> QED
      BY <1>0, <1>1, <2>1, <2>2, <2>3 DEF Touched, Created, Dropped, Applied, Explained, At
<1>2. ASSUME NEW p \in Procs, Breaks(p)
      PROVE  (Touched /\ Created /\ Dropped /\ Applied /\ Explained)'
  <2>1. pc'[p] = "idle" /\ Others(p) /\ UNCHANGED <<schema, table>> /\ Recorded' = Recorded
      BY <1>2 DEF Breaks, Ends, Others, Recorded, TypeOK
  <2>2. /\ left \subseteq left' /\ (pc[p] = "up" => Head(todo[p]) \in left')
        /\ torn \subseteq torn' /\ (pc[p] = "down" => Head(todo[p]) \in torn')
      BY <1>2 DEF Breaks
  <2>3. (Touched /\ Created /\ Dropped)'
      BY <1>0, <2>1, <2>2 DEF Touched, Created, Dropped, Pending, Others
  <2>4. Applied' /\ Explained'
      BY <1>0, <2>1, <2>2 DEF Applied, Explained, At, Others
  <2> QED
      BY <2>3, <2>4
<1>3. ASSUME NEW p \in Procs, MigrateOpen(p)
      PROVE  (Touched /\ Created /\ Dropped /\ Applied /\ Explained)'
  <2>1. CASE ~(todo[p] # <<>> /\ Head(todo[p]) \in dir)
      BY <1>1, <1>3, <2>1 DEF MigrateOpen, Ends, TypeOK
  <2>2. CASE todo[p] # <<>> /\ Head(todo[p]) \in dir
    <3>1. PICK f \in Files : f = Head(todo[p])
        BY <2>2, CurrentFile
    <3>2. /\ pc[p] = "migrate" /\ pc'[p] = "up" /\ stmts'[p] = UpOf(f) /\ todo' = todo
          /\ Others(p) /\ UNCHANGED <<schema, table, left, torn>> /\ Recorded' = Recorded
        BY <1>3, <2>2, <3>1 DEF MigrateOpen, Others, Recorded, TypeOK
    <3>3. Pending(p)' = ObjectsOf(f)
        BY <3>2, Sections DEF Pending
    <3>4. (Touched /\ Created /\ Dropped)'
        BY <1>0, <3>1, <3>2, <3>3 DEF Touched, Created, Dropped, Pending, Others
    <3>5. Applied' /\ Explained'
        BY <1>0, <3>2 DEF Applied, Explained, At, Others
    <3> QED
        BY <3>4, <3>5
  <2> QED
      BY <2>1, <2>2
<1>4. ASSUME NEW p \in Procs, UpStatement(p)
      PROVE  (Touched /\ Created /\ Dropped /\ Applied /\ Explained)'
  <2>1. CASE Breaks(p)
      BY <1>2, <2>1
  <2>2. CASE ~Breaks(p)
    <3>1. PICK f \in Files, o \in {Head(stmts[p])} : f = Head(todo[p]) /\ o = Head(stmts[p])
        BY <1>4, CurrentFile DEF UpStatement, TypeOK
    <3>2. /\ pc[p] = "up" /\ stmts[p] # <<>> /\ stmts' = [stmts EXCEPT ![p] = Tail(@)]
          /\ UNCHANGED <<pc, todo, table, left, torn>> /\ Recorded' = Recorded
          /\ schema' = schema \cup {o} /\ Others(p)
        BY <1>4, <2>2, <3>1 DEF UpStatement, Others, Recorded, TypeOK
    <3>3. /\ o \in Pending(p)
          /\ Pending(p)' \subseteq Pending(p) /\ Pending(p) \subseteq Pending(p)' \cup {o}
        BY <3>1, <3>2, NextStatement
    <3>4. o \in ObjectsOf(f)
        BY <1>0, <3>1, <3>2, <3>3 DEF Touched
    <3>5. \A q \in Procs : pc[q] # "down"
        BY <1>0, <3>2 DEF Running, MigratePC, RollbackPC
    <3>6. \A q \in Procs \ {p} : Pending(q)' = Pending(q)
        BY <3>2 DEF Others, Pending
    <3>7. (Touched /\ Created /\ Dropped)'
        BY <1>0, <3>1, <3>2, <3>3, <3>5, <3>6 DEF Touched, Created, Dropped
    <3>8. Applied'
        BY <1>0, <3>2 DEF Applied, At
    <3>9. Explained'
      <4>1. SUFFICES ASSUME NEW g \in Files \ (Recorded \cup left), g # f
                     PROVE  ObjectsOf(g) \cap schema' = {} \/ At({"up"}, g)
          BY <3>1, <3>2 DEF Explained, At
      <4>2. o \notin ObjectsOf(g)
          BY <3>4, <4>1, OneFileOnly
      <4> QED
          BY <1>0, <3>2, <4>1, <4>2 DEF Explained
    <3> QED
        BY <3>7, <3>8, <3>9
  <2> QED
      BY <2>1, <2>2
<1>5. ASSUME NEW p \in Procs, Insert(p)
      PROVE  (Touched /\ Created /\ Dropped /\ Applied /\ Explained)'
  <2>1. CASE Breaks(p)
      BY <1>2, <2>1
  <2>2. CASE ~Breaks(p)
    <3>1. PICK f \in Files : f = Head(todo[p])
        BY <1>5, CurrentFile DEF Insert, TypeOK
    <3>2. /\ pc[p] = "up" /\ pc'[p] = "migrate" /\ stmts[p] = <<>>
          /\ UNCHANGED <<schema, left, torn>> /\ Others(p)
          /\ table' = Append(table, [name |-> f, batch |-> batch[p]])
        BY <1>5, <2>2, <3>1 DEF Insert, Others, TypeOK
    <3>3. Recorded' = Recorded \cup {f}
        BY <3>2, Recording DEF TypeOK
    <3>4. ObjectsOf(f) \subseteq schema
        BY <1>0, <3>1, <3>2 DEF Created, Pending
    <3>5. (Touched /\ Created /\ Dropped)'
      <4>1. \A q \in Procs : pc'[q] \in {"up", "down"} =>
               /\ pc'[q] = pc[q] /\ Head(todo[q])' = Head(todo[q]) /\ Pending(q)' = Pending(q)
          BY <3>2 DEF Pending, Others
      <4> QED
          BY <1>0, <3>2, <4>1 DEF Touched, Created, Dropped
    <3>6. Applied'
        BY <1>0, <3>2, <3>3, <3>4 DEF Applied, At, Others
    <3>7. Explained'
        BY <1>0, <3>1, <3>2, <3>3 DEF Explained, At, Others
    <3> QED
        BY <3>5, <3>6, <3>7
  <2> QED
      BY <2>1, <2>2
<1>6. ASSUME NEW p \in Procs, RollbackOpen(p)
      PROVE  (Touched /\ Created /\ Dropped /\ Applied /\ Explained)'
  <2>1. CASE todo[p] = <<>>
      BY <1>1, <1>6, <2>1 DEF RollbackOpen, Ends, TypeOK
  <2>2. CASE todo[p] # <<>>
    <3>1. PICK f \in Files : f = Head(todo[p])
        BY <2>2, CurrentFile
    <3>2. /\ pc[p] = "rollback" /\ pc'[p] = "down" /\ todo' = todo /\ Others(p)
          /\ UNCHANGED <<schema, table, torn>> /\ Recorded' = Recorded
          /\ stmts'[p] = IF f \in dir THEN DownOf(f) ELSE <<>>
          /\ left' = IF f \in dir /\ Drops[f] = Creates[f] THEN left ELSE left \cup {f}
        BY <1>6, <2>2, <3>1 DEF RollbackOpen, Others, Recorded, TypeOK
    <3>3. /\ Pending(p)' \subseteq ObjectsOf(f)
          /\ f \in left' \/ ObjectsOf(f) \subseteq Pending(p)'
        BY <3>2, Sections DEF Pending
    <3>4. \A q \in Procs \ {p} : Pending(q)' = Pending(q)
        BY <3>2 DEF Others, Pending
    <3>5. (Touched /\ Created /\ Dropped)'
        BY <1>0, <3>1, <3>2, <3>3, <3>4 DEF Touched, Created, Dropped, Others
    <3>6. Applied' /\ Explained'
        BY <1>0, <3>2 DEF Applied, Explained, At, Others
    <3> QED
        BY <3>5, <3>6
  <2> QED
      BY <2>1, <2>2
<1>7. ASSUME NEW p \in Procs, DownStatement(p)
      PROVE  (Touched /\ Created /\ Dropped /\ Applied /\ Explained)'
  <2>1. CASE Breaks(p)
      BY <1>2, <2>1
  <2>2. CASE ~Breaks(p)
    <3>1. PICK f \in Files, o \in {Head(stmts[p])} : f = Head(todo[p]) /\ o = Head(stmts[p])
        BY <1>7, CurrentFile DEF DownStatement, TypeOK
    <3>2. /\ pc[p] = "down" /\ stmts[p] # <<>> /\ stmts' = [stmts EXCEPT ![p] = Tail(@)]
          /\ UNCHANGED <<pc, todo, table, left, torn>> /\ Recorded' = Recorded
          /\ schema' = schema \ {o} /\ Others(p)
        BY <1>7, <2>2, <3>1 DEF DownStatement, Others, Recorded, TypeOK
    <3>3. /\ o \in Pending(p)
          /\ Pending(p)' \subseteq Pending(p) /\ Pending(p) \subseteq Pending(p)' \cup {o}
        BY <3>1, <3>2, NextStatement
    <3>4. o \in ObjectsOf(f)
        BY <1>0, <3>1, <3>2, <3>3 DEF Touched
    <3>5. \A q \in Procs : pc[q] # "up"
        BY <1>0, <3>2 DEF Running, MigratePC, RollbackPC
    <3>6. \A q \in Procs \ {p} : Pending(q)' = Pending(q)
        BY <3>2 DEF Others, Pending
    <3>7. (Touched /\ Created /\ Dropped)'
        BY <1>0, <3>1, <3>2, <3>3, <3>5, <3>6 DEF Touched, Created, Dropped
    <3>8. Applied'
      <4>1. SUFFICES ASSUME NEW g \in Recorded \ torn, g # f
                     PROVE  ObjectsOf(g) \subseteq schema' \/ At({"down"}, g)
          BY <3>1, <3>2 DEF Applied, At
      <4>2. o \notin ObjectsOf(g)
          BY <3>4, <4>1, OneFileOnly
      <4> QED
          BY <1>0, <3>2, <4>1, <4>2 DEF Applied
    <3>9. Explained'
        BY <1>0, <3>2 DEF Explained, At
    <3> QED
        BY <3>7, <3>8, <3>9
  <2> QED
      BY <2>1, <2>2
<1>8. ASSUME NEW p \in Procs, Delete(p)
      PROVE  (Touched /\ Created /\ Dropped /\ Applied /\ Explained)'
  <2>1. PICK f \in Files : f = Head(todo[p])
      BY <1>8, CurrentFile DEF Delete, TypeOK
  <2>2. /\ pc[p] = "down" /\ pc'[p] = "rollback" /\ stmts[p] = <<>> /\ UNCHANGED schema
        /\ Others(p) /\ table' = Without(f) /\ torn' = torn \ {f}
        /\ left' = IF ObjectsOf(f) \cap schema = {} THEN left \ {f} ELSE left
      BY <1>8, <2>1 DEF Delete, Others, TypeOK
  <2>3. Recorded' = Recorded \ {f}
      BY <2>2, RemainingRows
  <2>4. ObjectsOf(f) \cap schema = {} \/ f \in left'
      BY <1>0, <2>1, <2>2 DEF Dropped, Pending
  <2>5. (Touched /\ Created)'
      BY <1>0, <2>2 DEF Touched, Created, Pending, Others
  <2>6. Dropped'
      BY <1>0, <2>2, <2>4 DEF Dropped, Pending, Others
  <2>7. Applied'
      BY <1>0, <2>1, <2>2, <2>3 DEF Applied, At, Others
  <2>8. Explained'
      BY <1>0, <2>1, <2>2, <2>3, <2>4 DEF Explained, At, Others
  <2> QED
      BY <2>5, <2>6, <2>7, <2>8
<1>9. ASSUME NEW p \in Procs, MigrateRead(p) \/ RollbackMax(p) \/ MigrateGlob(p)
                                  \/ MigrateBatch(p) \/ RollbackRows(p)
      PROVE  (Touched /\ Created /\ Dropped /\ Applied /\ Explained)'
    BY <1>1, <1>9 DEF MigrateRead, RollbackMax, MigrateGlob, MigrateBatch, RollbackRows, TypeOK
<1>10. CASE MoveFile \/ UNCHANGED vars
    BY <1>1, <1>10 DEF MoveFile, vars
<1> QED
    BY <1>2, <1>3, <1>4, <1>5, <1>6, <1>7, <1>8, <1>9, <1>10
       DEF Next, Migrate, Rollback, Stop

\* What the invariants need of each other, once for all theorems.
LEMMA RecordsInvariant == Spec => [](TypeOK /\ UniqueNames /\ Separate /\ SchemaInv)
<1>1. Init => UniqueNames /\ Separate /\ SchemaInv
    BY DEF Init, UniqueNames, Separate, Running, MigratePC, RollbackPC, SchemaInv, Touched,
           Created, Dropped, Applied, Explained, Recorded
<1> QED
    BY <1>1, TypeInit, TypeNext, UniqueNext, SeparateNext, SchemaNext, PTL DEF Spec

\* A recorded migration is in the database but for the rollbacks that are at work or
\* were interrupted, wherever the commands are stopped and however those of one kind
\* overlap.
THEOREM RecordsAreApplied == Spec => []AppliedWhenRecorded
<1>1. SchemaInv => AppliedWhenRecorded
    BY DEF SchemaInv, Applied, AppliedWhenRecorded
<1> QED
    BY <1>1, RecordsInvariant, PTL

\* Nothing but a migrate at work or interrupted, or a rollback without a DOWN section
\* for it, leaves an object in the database whose file has no record.
THEOREM LeftoversAreExplained == Spec => []LeftoversExplained
<1>1. SchemaInv => LeftoversExplained
    BY DEF SchemaInv, Explained, LeftoversExplained
<1> QED
    BY <1>1, RecordsInvariant, PTL

------------------------------------------------------------------------------
(* The order of the migrations. *)

Ordered == \A i, j \in DOMAIN table : i < j => table[i].batch <= table[j].batch

\* Each migrate that runs goes on with the files that are not recorded, in their order.
SeenRecorded == \A p \in Procs : pc[p] = "glob" => seen[p] \subseteq Recorded
FilesInOrder ==
    \A p \in Procs : pc[p] \in {"batch", "migrate", "up"} =>
        /\ Increasing(todo[p])
        /\ \A i \in DOMAIN todo[p] : todo[p][i] \in dir
        /\ \A f \in dir \ Recorded : \E i \in DOMAIN todo[p] : todo[p][i] = f

\* So one whose next file is not recorded is ahead of all the others: none of them has
\* got beyond that file, and no row is of a later batch than its own.
Ahead(p) == \A i \in DOMAIN table : /\ table[i].batch <= batch[p]
                                    /\ table[i].batch = batch[p] => table[i].name \in mine[p]
AheadOrLate ==
    \A p \in Procs : pc[p] \in {"migrate", "up"} =>
        todo[p] = <<>> \/ Head(todo[p]) \in Recorded \/ Ahead(p)

\* While rollbacks run, no row is of a later batch than theirs, and the rows after one
\* that a rollback has still to undo are before it in its list.
NoLaterRow == \A p \in Procs : pc[p] = "rows" =>
                  \A i \in DOMAIN table : table[i].batch <= batch[p]
NewestFirst(s) == \A i \in DOMAIN s, k, l \in DOMAIN table :
                      table[k].name = s[i] /\ k < l => \E j \in 1..(i - 1) : s[j] = table[l].name
RowsNewestFirst == \A p \in Procs : pc[p] \in {"rollback", "down"} => NewestFirst(todo[p])

OrderInv ==
    caveats = {} => /\ Ordered /\ SeenRecorded /\ FilesInOrder /\ AheadOrLate
                    /\ NoLaterRow /\ RowsNewestFirst

LEMMA FirstIsLeast ==
    ASSUME TypeOK, NEW p \in Procs, Increasing(todo[p]), NEW i \in DOMAIN todo[p]
    PROVE  todo[p] # <<>> /\ Head(todo[p]) \in Nat /\ todo[p][i] \in Nat
              /\ Head(todo[p]) <= todo[p][i]
<1>1. PICK s \in Seq(Files) : s = todo[p]
    BY DEF TypeOK
<1>2. /\ Len(s) \in Nat /\ DOMAIN s = 1..Len(s)
      /\ \A j \in 1..Len(s) : s[j] \in Files /\ s[j] \in Nat
    BY <1>1, MigrationsAssumption, LenProperties, ElementOfSeq
<1>3. s # <<>> /\ 1 \in 1..Len(s)
    BY <1>1, <1>2
<1>4. Head(s) = s[1]
    BY <1>1, <1>3, CurrentFile
<1>5. i = 1 \/ 1 < i
    BY <1>1, <1>2
<1>6. CASE i = 1
    BY <1>1, <1>2, <1>3, <1>4, <1>6
<1>7. CASE 1 < i
  <2>1. s[1] < s[i]
      BY <1>1, <1>2, <1>3, <1>7 DEF Increasing
  <2> QED
      BY <1>1, <1>2, <1>3, <1>4, <2>1
<1> QED
    BY <1>5, <1>6, <1>7

\* Two migrates whose next files are not recorded have the same next file.
LEMMA SameNextFile ==
    ASSUME TypeOK, FilesInOrder, NEW p \in Procs, NEW q \in Procs,
           pc[p] \in {"migrate", "up"}, pc[q] \in {"migrate", "up"},
           todo[p] # <<>>, todo[q] # <<>>,
           Head(todo[p]) \notin Recorded, Head(todo[q]) \notin Recorded
    PROVE  Head(todo[p]) = Head(todo[q])
<1>1. /\ Increasing(todo[p]) /\ Head(todo[p]) \in dir
      /\ Increasing(todo[q]) /\ Head(todo[q]) \in dir
    BY CurrentFile DEF FilesInOrder
<1>2. PICK i \in DOMAIN todo[p] : todo[p][i] = Head(todo[q])
    BY <1>1 DEF FilesInOrder
<1>3. PICK j \in DOMAIN todo[q] : todo[q][j] = Head(todo[p])
    BY <1>1 DEF FilesInOrder
<1>4. Head(todo[p]) \in Nat /\ Head(todo[q]) \in Nat
    BY <1>1, <1>2, <1>3, FirstIsLeast
<1>5. Head(todo[p]) <= Head(todo[q]) /\ Head(todo[q]) <= Head(todo[p])
    BY <1>1, <1>2, <1>3, FirstIsLeast
<1> QED
    BY <1>4, <1>5

Same(q) == /\ seen'[q] = seen[q] /\ todo'[q] = todo[q] /\ batch'[q] = batch[q]
           /\ mine'[q] = mine[q]

LEMMA OrderNext ==
    ASSUME TypeOK, UniqueNames, Separate, OrderInv, [Next]_vars PROVE OrderInv'
<1> SUFFICES ASSUME caveats' = {}
             PROVE  (Ordered /\ SeenRecorded /\ FilesInOrder /\ AheadOrLate
                        /\ NoLaterRow /\ RowsNewestFirst)'
    BY DEF OrderInv
<1> USE DEF command, history
<1>0. /\ Ordered /\ SeenRecorded /\ FilesInOrder /\ AheadOrLate /\ NoLaterRow /\ RowsNewestFirst
      /\ caveats = {} /\ ~(Running(MigratePC) /\ Running(RollbackPC))
  <2>1. caveats = {}
      BY CaveatsStay
  <2> QED
      BY <2>1 DEF OrderInv, Separate
<1>1. ASSUME UNCHANGED <<dir, table>>,
             \A q \in Procs :
                \/ pc'[q] = "idle"
                \/ Same(q) /\ \/ pc'[q] = pc[q]
                              \/ pc[q] \in {"migrate", "up"} /\ pc'[q] \in {"migrate", "up"}
                              \/ pc[q] \in {"rollback", "down"} /\ pc'[q] \in {"rollback", "down"}
      PROVE  (Ordered /\ SeenRecorded /\ FilesInOrder /\ AheadOrLate
                 /\ NoLaterRow /\ RowsNewestFirst)'
  <2>1. Recorded' = Recorded /\ Ordered'
      BY <1>0, <1>1 DEF Recorded, Ordered
  <2>2. SeenRecorded' /\ NoLaterRow'
      BY <1>0, <1>1, <2>1 DEF SeenRecorded, NoLaterRow, Same
  <2>3. FilesInOrder'
    <3>1. SUFFICES ASSUME NEW q \in Procs, pc'[q] \in {"batch", "migrate", "up"}
                   PROVE  pc[q] \in {"batch", "migrate", "up"} /\ todo'[q] = todo[q]
        BY <1>0, <1>1, <2>1 DEF FilesInOrder, Increasing
    <3> QED
        BY <1>1, <3>1 DEF Same
  <2>4. AheadOrLate'
      BY <1>0, <1>1, <2>1 DEF AheadOrLate, Ahead, Same
  <2>5. RowsNewestFirst'
    <3>1. SUFFICES ASSUME NEW q \in Procs, pc'[q] \in {"rollback", "down"}
                   PROVE  pc[q] \in {"rollback", "down"} /\ todo'[q] = todo[q]
        BY <1>0, <1>1 DEF RowsNewestFirst, NewestFirst
    <3> QED
        BY <1>1, <3>1 DEF Same
  <2> QED
      BY <2>1, <2>2, <2>3, <2>4, <2>5
<1>2. ASSUME NEW p \in Procs, Breaks(p)
      PROVE  (Ordered /\ SeenRecorded /\ FilesInOrder /\ AheadOrLate
                 /\ NoLaterRow /\ RowsNewestFirst)'
    BY <1>1, <1>2 DEF Breaks, Ends, Same, TypeOK
<1>3. ASSUME NEW p \in Procs, \/ MigrateOpen(p) \/ UpStatement(p) \/ RollbackOpen(p)
                              \/ DownStatement(p) \/ Stop(p)
      PROVE  (Ordered /\ SeenRecorded /\ FilesInOrder /\ AheadOrLate
                 /\ NoLaterRow /\ RowsNewestFirst)'
  <2>1. CASE Breaks(p)
      BY <1>2, <2>1
  <2>2. CASE ~Breaks(p)
    <3>1. UNCHANGED <<dir, table>> /\ \A q \in Procs \ {p} : pc'[q] = pc[q] /\ Same(q)
        BY <1>3, <2>2 DEF MigrateOpen, UpStatement, RollbackOpen, DownStatement, Stop, Ends,
                          Same, TypeOK
    <3>2. \/ pc'[p] = "idle"
          \/ Same(p) /\ \/ pc'[p] = pc[p]
                        \/ pc[p] \in {"migrate", "up"} /\ pc'[p] \in {"migrate", "up"}
                        \/ pc[p] \in {"rollback", "down"} /\ pc'[p] \in {"rollback", "down"}
        BY <1>3, <2>2 DEF MigrateOpen, UpStatement, RollbackOpen, DownStatement, Stop, Ends,
                          Same, TypeOK
    <3> QED
        BY <1>1, <3>1, <3>2
  <2> QED
      BY <2>1, <2>2
<1>4. ASSUME NEW p \in Procs, MigrateRead(p) \/ MigrateGlob(p) \/ MigrateBatch(p)
                                  \/ RollbackMax(p) \/ RollbackRows(p)
      PROVE  /\ UNCHANGED <<dir, table>> /\ Recorded' = Recorded
             /\ Ordered'
             /\ \A q \in Procs \ {p} : pc'[q] = pc[q] /\ Same(q)
  <2>1. UNCHANGED <<dir, table>> /\ \A q \in Procs \ {p} : pc'[q] = pc[q] /\ Same(q)
      BY <1>4 DEF MigrateRead, MigrateGlob, MigrateBatch, RollbackMax, RollbackRows, Same, TypeOK
  <2> QED
      BY <1>0, <2>1 DEF Recorded, Ordered
<1>5. ASSUME NEW p \in Procs, MigrateRead(p)
      PROVE  (Ordered /\ SeenRecorded /\ FilesInOrder /\ AheadOrLate
                 /\ NoLaterRow /\ RowsNewestFirst)'
  <2>1. pc'[p] = "glob" /\ seen'[p] = Recorded
      BY <1>5 DEF MigrateRead, TypeOK
  <2>2. SeenRecorded' /\ NoLaterRow' /\ AheadOrLate'
      BY <1>0, <1>4, <1>5, <2>1 DEF SeenRecorded, NoLaterRow, AheadOrLate, Ahead, Same
  <2>3. FilesInOrder' /\ RowsNewestFirst'
      BY <1>0, <1>4, <1>5, <2>1 DEF FilesInOrder, RowsNewestFirst, NewestFirst, Increasing, Same
  <2> QED
      BY <1>4, <1>5, <2>2, <2>3
<1>6. ASSUME NEW p \in Procs, MigrateGlob(p)
      PROVE  (Ordered /\ SeenRecorded /\ FilesInOrder /\ AheadOrLate
                 /\ NoLaterRow /\ RowsNewestFirst)'
  <2>1. /\ pc[p] = "glob" /\ pc'[p] = "batch" /\ todo'[p] = Ascending(dir \ seen[p])
        /\ seen[p] \subseteq Recorded
      BY <1>0, <1>6 DEF MigrateGlob, SeenRecorded, TypeOK
  <2>2. SeenRecorded' /\ NoLaterRow' /\ AheadOrLate' /\ RowsNewestFirst'
      BY <1>0, <1>4, <1>6, <2>1 DEF SeenRecorded, NoLaterRow, AheadOrLate, Ahead,
                                    RowsNewestFirst, NewestFirst, Same
  <2>3. PICK S : S = dir \ seen[p]
      OBVIOUS
  <2>4. S \in SUBSET Nat /\ IsFiniteSet(S)
      BY <2>3, MigrationsAssumption, FS_Subset DEF TypeOK
  <2>5. /\ Increasing(Ascending(S))
        /\ \A i \in DOMAIN Ascending(S) : Ascending(S)[i] \in S
        /\ \A f \in S : \E i \in DOMAIN Ascending(S) : Ascending(S)[i] = f
      BY <2>4, AscendingSorts, LenProperties, ElementOfSeq
  <2>6. FilesInOrder'
    <3>1. SUFFICES ASSUME NEW q \in Procs, pc'[q] \in {"batch", "migrate", "up"}
                   PROVE  /\ Increasing(todo[q])'
                          /\ \A i \in DOMAIN todo'[q] : todo'[q][i] \in dir
                          /\ \A f \in dir \ Recorded : \E i \in DOMAIN todo'[q] : todo'[q][i] = f
        BY <1>4, <1>6 DEF FilesInOrder
    <3>2. CASE q = p
      <4>1. PICK t : t = Ascending(S)
          OBVIOUS
      <4>2. todo'[p] = t /\ Increasing(t)
          BY <2>1, <2>3, <2>5, <4>1
      <4>3. \A f \in dir \ Recorded : f \in S
          BY <2>1, <2>3
      <4>4. \A i \in DOMAIN t : t[i] \in dir
          BY <2>3, <2>5, <4>1
      <4> QED
          BY <2>5, <3>2, <4>1, <4>2, <4>3, <4>4 DEF Increasing
    <3>3. CASE q # p
        BY <1>0, <1>4, <1>6, <3>1, <3>3 DEF FilesInOrder, Increasing, Same
    <3> QED
        BY <3>2, <3>3
  <2> QED
      BY <1>4, <1>6, <2>2, <2>6
<1>7. ASSUME NEW p \in Procs, MigrateBatch(p)
      PROVE  (Ordered /\ SeenRecorded /\ FilesInOrder /\ AheadOrLate
                 /\ NoLaterRow /\ RowsNewestFirst)'
  <2>1. /\ pc[p] = "batch" /\ pc'[p] = "migrate" /\ todo'[p] = todo[p]
        /\ batch'[p] = LastBatch + 1
      BY <1>7 DEF MigrateBatch, TypeOK
  <2>2. \A i \in DOMAIN table : table[i].batch <= batch'[p] /\ table[i].batch # batch'[p]
    <3>1. table \in Seq(Row)
        BY DEF TypeOK, Row
    <3>2. \A i \in DOMAIN table : table[i] \in Row
        BY <3>1, LenProperties, ElementOfSeq
    <3>3. LastBatch \in Nat /\ \A i \in DOMAIN table : table[i].batch <= LastBatch
        BY <3>1, LastBatchIsLast
    <3>4. \A i \in DOMAIN table : table[i].batch \in Nat
        BY <3>2 DEF Row
    <3> QED
        BY <2>1, <3>3, <3>4
  <2>3. Ahead(p)'
      BY <1>4, <1>7, <2>2 DEF Ahead
  <2>4. SeenRecorded' /\ NoLaterRow'
      BY <1>0, <1>4, <1>7, <2>1 DEF SeenRecorded, NoLaterRow, Same
  <2>5. AheadOrLate'
      BY <1>0, <1>4, <1>7, <2>1, <2>3 DEF AheadOrLate, Ahead, Same
  <2>6. FilesInOrder' /\ RowsNewestFirst'
      BY <1>0, <1>4, <1>7, <2>1 DEF FilesInOrder, RowsNewestFirst, NewestFirst, Increasing, Same
  <2> QED
      BY <1>4, <1>7, <2>4, <2>5, <2>6
<1>8. ASSUME NEW p \in Procs, RollbackMax(p)
      PROVE  (Ordered /\ SeenRecorded /\ FilesInOrder /\ AheadOrLate
                 /\ NoLaterRow /\ RowsNewestFirst)'
  <2>1. pc'[p] = "rows" /\ batch'[p] = LastBatch
      BY <1>8 DEF RollbackMax, TypeOK
  <2>2. \A i \in DOMAIN table : table[i].batch <= batch'[p]
      BY <2>1, LastBatchIsLast DEF TypeOK, Row
  <2>3. SeenRecorded' /\ NoLaterRow' /\ AheadOrLate'
      BY <1>0, <1>4, <1>8, <2>1, <2>2 DEF SeenRecorded, NoLaterRow, AheadOrLate, Ahead, Same
  <2>4. FilesInOrder' /\ RowsNewestFirst'
      BY <1>0, <1>4, <1>8, <2>1 DEF FilesInOrder, RowsNewestFirst, NewestFirst, Increasing, Same
  <2> QED
      BY <1>4, <1>8, <2>3, <2>4
<1>9. ASSUME NEW p \in Procs, RollbackRows(p)
      PROVE  (Ordered /\ SeenRecorded /\ FilesInOrder /\ AheadOrLate
                 /\ NoLaterRow /\ RowsNewestFirst)'
  <2>1. PICK b, t : b = batch[p] /\ t = NamesOf(Reverse(Ascending(RowsOf(b))))
      OBVIOUS
  <2>2. pc[p] = "rows" /\ pc'[p] = "rollback" /\ todo'[p] = t
      BY <1>9, <2>1 DEF RollbackRows, TypeOK
  <2>3. ASSUME NEW i \in DOMAIN t, NEW k \in DOMAIN table, NEW l \in DOMAIN table,
               table[k].name = t[i], k < l
        PROVE  \E j \in 1..(i - 1) : t[j] = table[l].name
    <3>1. table \in Seq(Row)
        BY DEF TypeOK, Row
    <3>2. k \in RowsOf(b)
      <4>1. PICK x \in RowsOf(b) : t[i] = table[x].name
          BY <2>1, <3>1, RollbackList
      <4>2. x \in DOMAIN table
          BY DEF RowsOf
      <4> QED
          BY <2>3, <4>1, <4>2 DEF UniqueNames
    <3>3. l \in RowsOf(b)
      <4>1. table[l] \in Row /\ b \in Nat
          BY <2>1, <3>1, LenProperties, ElementOfSeq DEF TypeOK
      <4>2. b <= table[l].batch /\ table[l].batch <= b
          BY <1>0, <2>1, <2>2, <2>3, <3>2 DEF Ordered, NoLaterRow, RowsOf
      <4> QED
          BY <4>1, <4>2 DEF RowsOf, Row
    <3> QED
        BY <2>1, <2>3, <3>1, <3>2, <3>3, RollbackList
  <2>4. RowsNewestFirst'
      BY <1>0, <1>4, <1>9, <2>2, <2>3 DEF RowsNewestFirst, NewestFirst, Same
  <2>5. SeenRecorded' /\ NoLaterRow' /\ AheadOrLate'
      BY <1>0, <1>4, <1>9, <2>2 DEF SeenRecorded, NoLaterRow, AheadOrLate, Ahead, Same
  <2>6. FilesInOrder'
      BY <1>0, <1>4, <1>9, <2>2 DEF FilesInOrder, Increasing, Same
  <2> QED
      BY <1>4, <1>9, <2>4, <2>5, <2>6
<1>10. ASSUME NEW p \in Procs, Insert(p)
       PROVE  (Ordered /\ SeenRecorded /\ FilesInOrder /\ AheadOrLate
                  /\ NoLaterRow /\ RowsNewestFirst)'
  <2>1. CASE Breaks(p)
      BY <1>2, <2>1
  <2>2. CASE ~Breaks(p)
    <3>1. PICK f \in Files, b \in Nat :
             /\ f = Head(todo[p]) /\ f \notin Recorded /\ todo[p] # <<>> /\ b = batch[p]
             /\ table' = Append(table, [name |-> f, batch |-> b])
             /\ pc[p] = "up" /\ pc'[p] = "migrate" /\ batch'[p] = b
             /\ todo'[p] = Tail(todo[p]) /\ mine'[p] = mine[p] \cup {f}
      <4>1. /\ pc[p] = "up" /\ Head(todo[p]) \notin Recorded
            /\ table' = Append(table, [name |-> Head(todo[p]), batch |-> batch[p]])
            /\ pc' = [pc EXCEPT ![p] = "migrate"] /\ todo' = [todo EXCEPT ![p] = Tail(@)]
            /\ mine' = [mine EXCEPT ![p] = @ \cup {Head(todo[p])}] /\ batch' = batch
          BY <1>10, <2>2 DEF Insert
      <4>2. todo[p] # <<>> /\ Head(todo[p]) \in Files /\ batch[p] \in Nat
          BY <4>1, CurrentFile DEF TypeOK
      <4> QED
          BY <4>1, <4>2 DEF TypeOK
    <3>2. \A q \in Procs \ {p} : pc'[q] = pc[q] /\ Same(q)
        BY <1>10, <2>2 DEF Insert, Same, TypeOK
    <3>3. Recorded' = Recorded \cup {f}
        BY <3>1, Recording
    <3>4. PICK row \in Row : row = [name |-> f, batch |-> b]
        BY DEF Row
    <3>5. PICK n \in Nat : /\ DOMAIN table = 1..n /\ DOMAIN table' = 1..(n + 1)
                           /\ table'[n + 1] = row
                           /\ \A i \in 1..n : table'[i] = table[i]
        BY <3>1, <3>4, InsertedRow
    <3>6. /\ Ahead(p)
          /\ \A i \in 1..n : /\ table'[i].batch <= b
                             /\ table'[i].batch = b => table'[i].name \in mine[p]
        BY <1>0, <3>1, <3>5 DEF AheadOrLate, Ahead
    <3>7. /\ table'[n + 1].batch = b /\ table'[n + 1].name = f /\ n + 1 \in DOMAIN table'
          /\ \A i \in DOMAIN table' : i = n + 1 \/ i \in 1..n
        BY <3>4, <3>5
    <3>8. Ordered'
      <4>1. ASSUME NEW i \in DOMAIN table', NEW j \in DOMAIN table', i < j
            PROVE  table'[i].batch <= table'[j].batch
        <5>1. i \in 1..n
            BY <3>5, <4>1
        <5>2. CASE j = n + 1
            BY <3>6, <3>7, <5>1, <5>2
        <5>3. CASE j \in 1..n
            BY <1>0, <3>5, <4>1, <5>1, <5>3 DEF Ordered
        <5> QED
            BY <3>7, <5>2, <5>3
      <4> QED
          BY <4>1 DEF Ordered
    <3>9. Ahead(p)'
      <4>1. b <= b
          OBVIOUS
      <4>2. ASSUME NEW i \in DOMAIN table'
            PROVE  table'[i].batch <= b /\ (table'[i].batch = b => table'[i].name \in mine'[p])
        <5>1. CASE i = n + 1
            BY <3>1, <3>7, <4>1, <5>1
        <5>2. CASE i \in 1..n
            BY <3>1, <3>6, <5>2
        <5> QED
            BY <3>7, <5>1, <5>2
      <4> QED
          BY <3>1, <4>2 DEF Ahead
    <3>10. AheadOrLate'
      <4>1. SUFFICES ASSUME NEW q \in Procs \ {p}, pc[q] \in {"migrate", "up"}, todo[q] # <<>>,
                            Head(todo[q]) \notin Recorded
                     PROVE  Head(todo[q]) = f
          BY <3>1, <3>2, <3>3, <3>9, <1>0 DEF AheadOrLate, Ahead, Same
      <4> QED
          BY <1>0, <3>1, <4>1, SameNextFile
    <3>11. SeenRecorded'
        BY <1>0, <3>1, <3>2, <3>3 DEF SeenRecorded, Same
    <3>12. FilesInOrder'
      <4>1. /\ Increasing(todo[p])
            /\ \A i \in DOMAIN todo[p] : todo[p][i] \in dir
            /\ \A g \in dir \ Recorded : \E i \in DOMAIN todo[p] : todo[p][i] = g
          BY <1>0, <3>1 DEF FilesInOrder
      <4>2. PICK t : t = Tail(todo[p])
          OBVIOUS
      <4>3. /\ \A i \in DOMAIN t : i + 1 \in DOMAIN todo[p] /\ t[i] = todo[p][i + 1]
            /\ \A i \in DOMAIN todo[p] : i # 1 =>
                  i - 1 \in DOMAIN t /\ t[i - 1] = todo[p][i]
            /\ todo[p][1] = f
            /\ DOMAIN t \subseteq Nat
        <5>1. t \in Seq(Files)
            BY <3>1, <4>2, CurrentFile
        <5>2. DOMAIN t \subseteq Nat
            BY <5>1, LenProperties
        <5> QED
            BY <3>1, <4>2, <5>2, CurrentFile
      <4>4. Increasing(t)
        <5>1. ASSUME NEW i \in DOMAIN t, NEW j \in DOMAIN t, i < j PROVE t[i] < t[j]
          <6>1. i + 1 < j + 1 /\ i + 1 \in DOMAIN todo[p] /\ j + 1 \in DOMAIN todo[p]
              BY <4>3, <5>1
          <6> QED
              BY <4>1, <4>3, <6>1 DEF Increasing
        <5> QED
            BY <5>1 DEF Increasing
      <4>5. \A g \in dir \ (Recorded \cup {f}) : \E i \in DOMAIN t : t[i] = g
          BY <4>1, <4>3
      <4>6. dir' = dir
          BY <1>10, <2>2 DEF Insert
      <4>7. todo'[p] = t /\ \A i \in DOMAIN t : t[i] \in dir
          BY <3>1, <4>1, <4>2, <4>3
      <4>8. ASSUME NEW q \in Procs, pc'[q] \in {"batch", "migrate", "up"}
            PROVE  /\ Increasing(todo[q])'
                   /\ \A i \in DOMAIN todo'[q] : todo'[q][i] \in dir
                   /\ \A g \in dir \ Recorded' : \E i \in DOMAIN todo'[q] : todo'[q][i] = g
        <5>1. CASE q = p
            BY <3>3, <4>4, <4>5, <4>7, <5>1 DEF Increasing
        <5>2. CASE q # p
            BY <1>0, <3>2, <3>3, <4>8, <5>2 DEF FilesInOrder, Increasing, Same
        <5> QED
            BY <5>1, <5>2
      <4> QED
          BY <4>6, <4>8 DEF FilesInOrder
    <3>13. \A q \in Procs : pc'[q] \notin {"rows", "rollback", "down"}
        BY <1>0, <3>1, <3>2 DEF Running, MigratePC, RollbackPC
    <3>14. NoLaterRow' /\ RowsNewestFirst'
        BY <3>13 DEF NoLaterRow, RowsNewestFirst
    <3> QED
        BY <3>8, <3>10, <3>11, <3>12, <3>14
  <2> QED
      BY <2>1, <2>2
<1>11. ASSUME NEW p \in Procs, Delete(p)
       PROVE  (Ordered /\ SeenRecorded /\ FilesInOrder /\ AheadOrLate
                  /\ NoLaterRow /\ RowsNewestFirst)'
  <2>1. PICK f \in Files : /\ f = Head(todo[p]) /\ todo[p] # <<>> /\ todo'[p] = Tail(todo[p])
                           /\ pc[p] = "down" /\ pc'[p] = "rollback" /\ table' = Without(f)
      BY <1>11, CurrentFile DEF Delete, TypeOK
  <2>2. \A q \in Procs \ {p} : pc'[q] = pc[q] /\ Same(q)
      BY <1>11 DEF Delete, Same, TypeOK
  <2>3. /\ \A i \in DOMAIN table' : \E j \in DOMAIN table :
              (j = i \/ j = i + 1) /\ table'[i] = table[j] /\ table[j].name # f
        /\ \A i, j \in DOMAIN table' : i < j =>
              \E k, l \in DOMAIN table : k < l /\ table'[i] = table[k] /\ table'[j] = table[l]
      BY <2>1, RemainingRows
  <2>4. Ordered'
      BY <1>0, <2>3 DEF Ordered
  <2>5. \A q \in Procs : pc'[q] \notin {"glob", "batch", "migrate", "up"}
      BY <1>0, <2>1, <2>2 DEF Running, MigratePC, RollbackPC
  <2>6. SeenRecorded' /\ FilesInOrder' /\ AheadOrLate'
      BY <2>5 DEF SeenRecorded, FilesInOrder, AheadOrLate
  <2>7. NoLaterRow'
    <3>1. SUFFICES ASSUME NEW q \in Procs, pc'[q] = "rows", NEW i \in DOMAIN table'
                   PROVE  table'[i].batch <= batch'[q]
        BY DEF NoLaterRow
    <3>2. pc[q] = "rows" /\ batch'[q] = batch[q]
        BY <2>1, <2>2, <3>1 DEF Same
    <3>3. PICK j \in DOMAIN table : table'[i] = table[j]
        BY <2>3, <3>1
    <3> QED
        BY <1>0, <3>2, <3>3 DEF NoLaterRow
  <2>8. RowsNewestFirst'
    <3>1. SUFFICES ASSUME NEW q \in Procs, pc'[q] \in {"rollback", "down"},
                          NEW i \in DOMAIN todo'[q],
                          NEW k \in DOMAIN table', NEW l \in DOMAIN table',
                          table'[k].name = todo'[q][i], k < l
                   PROVE  \E j \in 1..(i - 1) : todo'[q][j] = table'[l].name
        BY DEF RowsNewestFirst, NewestFirst
    <3>2. PICK x, y \in DOMAIN table : x < y /\ table'[k] = table[x] /\ table'[l] = table[y]
        BY <2>3, <3>1
    <3>3. CASE q # p
      <4>1. NewestFirst(todo[q]) /\ todo'[q] = todo[q]
          BY <1>0, <2>2, <3>1, <3>3 DEF RowsNewestFirst, Same
      <4> QED
          BY <3>1, <3>2, <4>1 DEF NewestFirst
    <3>4. CASE q = p
      <4>1. NewestFirst(todo[p])
          BY <1>0, <2>1 DEF RowsNewestFirst
      <4>2. /\ i \in DOMAIN Tail(todo[p]) /\ i + 1 \in DOMAIN todo[p]
            /\ table[x].name = todo[p][i + 1] /\ todo[p][1] = f
        <5>1. /\ \A n \in DOMAIN Tail(todo[p]) :
                    n + 1 \in DOMAIN todo[p] /\ Tail(todo[p])[n] = todo[p][n + 1]
              /\ todo[p][1] = f
            BY <2>1, CurrentFile
        <5> QED
            BY <2>1, <3>1, <3>2, <3>4, <5>1
      <4>3. i \in Nat
        <5>1. Tail(todo[p]) \in Seq(Files)
            BY <2>1, CurrentFile
        <5> QED
            BY <4>2, <5>1, LenProperties
      <4>4. PICK j \in 1..((i + 1) - 1) : todo[p][j] = table[y].name
          BY <3>2, <4>1, <4>2 DEF NewestFirst
      <4>5. table[y].name # f
          BY <2>3, <3>1, <3>2
      <4>6. j # 1 /\ j \in DOMAIN todo[p]
        <5>1. j \in 1..(i + 1)
            BY <4>3, <4>4
        <5>2. PICK s \in Seq(Files) : s = todo[p]
            BY DEF TypeOK
        <5>3. Len(s) \in Nat /\ DOMAIN s = 1..Len(s)
            BY <5>2, LenProperties
        <5> QED
            BY <4>2, <4>3, <4>4, <4>5, <5>1, <5>2, <5>3
      <4>7. j - 1 \in DOMAIN Tail(todo[p]) /\ Tail(todo[p])[j - 1] = todo[p][j]
          BY <2>1, <4>6, CurrentFile
      <4>8. j - 1 \in 1..(i - 1)
          BY <4>3, <4>4, <4>6
      <4> QED
          BY <2>1, <3>2, <3>4, <4>4, <4>7, <4>8
    <3> QED
        BY <3>3, <3>4
  <2> QED
      BY <2>4, <2>6, <2>7, <2>8
<1>12. CASE MoveFile
  <2>1. ~Running(MigratePC) /\ UNCHANGED <<table, command>>
      BY <1>12 DEF MoveFile
  <2>2. \A q \in Procs : pc'[q] \notin {"glob", "batch", "migrate", "up"}
      BY <2>1 DEF Running, MigratePC
  <2>3. SeenRecorded' /\ FilesInOrder' /\ AheadOrLate'
      BY <2>2 DEF SeenRecorded, FilesInOrder, AheadOrLate
  <2>4. Ordered' /\ NoLaterRow' /\ RowsNewestFirst'
      BY <1>0, <2>1 DEF Ordered, NoLaterRow, RowsNewestFirst, NewestFirst
  <2> QED
      BY <2>3, <2>4
<1>13. CASE UNCHANGED vars
    BY <1>1, <1>13 DEF vars, Same
<1> QED
    BY <1>3, <1>5, <1>6, <1>7, <1>8, <1>9, <1>10, <1>11, <1>12, <1>13
       DEF Next, Migrate, Rollback

LEMMA OrderInvariant == Spec => [](TypeOK /\ UniqueNames /\ OrderInv)
<1>1. Init => OrderInv
    BY DEF Init, OrderInv, Ordered, SeenRecorded, FilesInOrder, AheadOrLate, NoLaterRow,
           RowsNewestFirst
<1>2. TypeOK /\ UniqueNames /\ Separate /\ OrderInv /\ [Next]_vars => OrderInv'
    BY OrderNext
<1> QED
    BY <1>1, <1>2, RecordsInvariant, PTL DEF Spec

\* The rows of a batch come from one migrate, also when several overlap.
THEOREM BatchesAreRuns == Spec => BatchIsRun
<1>1. TypeOK /\ OrderInv =>
         (caveats = {} => \A p \in Procs : Insert(p) /\ table' # table =>
            \A i \in DOMAIN table : table[i].batch = batch[p] => table[i].name \in mine[p])
  <2> SUFFICES ASSUME TypeOK, OrderInv, caveats = {}, NEW p \in Procs, Insert(p),
                      table' # table
               PROVE  Ahead(p)
      BY DEF Ahead
  <2>1. pc[p] = "up" /\ todo[p] # <<>> /\ Head(todo[p]) \notin Recorded
      BY DEF Insert, Breaks, TypeOK
  <2> QED
      BY <2>1 DEF OrderInv, AheadOrLate
<1> QED
    BY <1>1, OrderInvariant, PTL DEF BatchIsRun

\* A rollback deletes the newest record there is.
THEOREM RollbacksUndoNewest == Spec => RollbackUndoesNewest
<1>1. TypeOK /\ OrderInv =>
         (caveats = {} => \A p \in Procs : Delete(p) =>
            (Head(todo[p]) \in Recorded => table' = Front(table)))
  <2> SUFFICES ASSUME TypeOK, OrderInv, caveats = {}, NEW p \in Procs, Delete(p),
                      Head(todo[p]) \in Recorded
               PROVE  table' = Front(table)
      OBVIOUS
  <2>1. PICK f : f = Head(todo[p])
      OBVIOUS
  <2>2. /\ pc[p] = "down" /\ todo[p] # <<>> /\ NewestFirst(todo[p])
        /\ 1 \in DOMAIN todo[p] /\ todo[p][1] = f
      BY <2>1, CurrentFile DEF Delete, OrderInv, RowsNewestFirst, TypeOK
  <2>3. PICK n \in Nat : /\ n = Len(table) /\ DOMAIN table = 1..n /\ table \in Seq(Row)
                         /\ \A i \in 1..n : table[i] \in Row
      BY LenProperties, ElementOfSeq DEF TypeOK, Row
  <2>4. PICK k \in 1..n : /\ table[k].name = f
                          /\ Without(f) = [i \in 1..(n - 1) |->
                                              IF i < k THEN table[i] ELSE table[i + 1]]
      BY <2>1, <2>3, DeletedRow
  <2>5. k = n
    <3>1. n \in DOMAIN table /\ k \in DOMAIN table
        BY <2>3
    <3>2. k < n => \E j \in 1..(1 - 1) : todo[p][j] = table[n].name
        BY <2>2, <2>4, <3>1 DEF NewestFirst
    <3>3. ~(k < n)
        BY <3>2
    <3> QED
        BY <2>3, <3>3
  <2>6. Without(f) = [i \in 1..(n - 1) |-> table[i]]
      BY <2>4, <2>5
  <2>7. Front(table) = [i \in 1..(n - 1) |-> table[i]]
    <3>1. /\ SubSeq(table, 1, n - 1) \in Seq(Row)
          /\ Len(SubSeq(table, 1, n - 1)) = n - 1
          /\ \A i \in 1..(n - 1) : SubSeq(table, 1, n - 1)[i] = table[i]
      <4>1. \A i \in 1..(n - 1) : table[i] \in Row /\ 1 + i - 1 = i
          BY <2>3
      <4> QED
          BY <2>4, <4>1, SubSeqProperties
    <3> QED
        BY <2>3, <3>1, LenProperties DEF Front
  <2> QED
      BY <2>1, <2>6, <2>7 DEF Delete
<1> QED
    BY <1>1, OrderInvariant, PTL DEF RollbackUndoesNewest
=============================================================================
