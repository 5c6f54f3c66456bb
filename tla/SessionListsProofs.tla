-------------------------- MODULE SessionListsProofs --------------------------
(***************************************************************************)
(* What the operators of SessionLists give, for lists of any rows and any  *)
(* size: merging keeps every row once, a page has the rows of its ids,     *)
(* newest first. The pages' proofs cite these facts.                       *)
(*                                                                         *)
(* The inductions over the size of a list take a smallest set that is a    *)
(* counterexample, which exists because strict inclusion of finite sets is *)
(* well-founded.                                                           *)
(***************************************************************************)
EXTENDS SessionLists, FiniteSetTheorems, SequenceTheorems, WellFoundedInduction, TLAPS

-----------------------------------------------------------------------------
(* Finite sets of numbers, in order.                                       *)

\* A set of finite sets has a smallest one: the principle of the inductions.
LEMMA SmallestOf ==
  ASSUME NEW S, NEW F \in SUBSET FiniteSubsetsOf(S), F # {}
  PROVE  \E T \in F : \A U \in F : U \subseteq T => U = T
  <1> DEFINE R == StrictSubsetOrdering(S)
  <1>1. IsWellFoundedOn(R, FiniteSubsetsOf(S))
    BY FS_StrictSubsetOrderingWellFounded
  <1>2. \A T, U \in SUBSET S : U \subseteq T /\ U # T => <<U, T>> \in R
    BY DEF StrictSubsetOrdering
  <1>3. F \subseteq FiniteSubsetsOf(S) /\ F \subseteq SUBSET S
    BY DEF FiniteSubsetsOf
  <1> HIDE DEF R
  <1>4. PICK T \in F : \A U \in F : ~(<<U, T>> \in R)
    BY <1>1, <1>3, WFMin
  <1>. QED  BY <1>2, <1>3, <1>4

\* A set of numbers has a least one.
LEMMA LeastOf ==
  ASSUME NEW S \in SUBSET Nat, S # {}
  PROVE  \E m \in S : \A n \in S : m <= n
  <1> DEFINE R == OpToRel(<, Nat)
  <1>1. IsWellFoundedOn(R, Nat)
    BY NatLessThanWellFounded
  <1>2. \A m, n \in Nat : <<n, m>> \in R <=> n < m
    BY DEF OpToRel
  <1> HIDE DEF R
  <1>3. PICK m \in S : \A n \in S : ~(<<n, m>> \in R)
    BY <1>1, WFMin
  <1>4. ASSUME NEW n \in S
        PROVE  m <= n
    <2>1. m \in Nat /\ n \in Nat
      OBVIOUS
    <2>2. ~(n < m)
      BY <1>2, <1>3, <2>1
    <2>. QED  BY <2>1, <2>2
  <1>. QED  BY <1>4

Ascends(s, n) == \A i, j \in 1..n : i < j => s[i] < s[j]

\* Every finite set of numbers can be put in order.
LEMMA OrderExists ==
  ASSUME NEW S \in SUBSET Nat, IsFiniteSet(S)
  PROVE  \E s \in [1..Cardinality(S) -> S] : Ascends(s, Cardinality(S))
  <1> DEFINE Bad == {T \in FiniteSubsetsOf(S) :
                       ~ \E s \in [1..Cardinality(T) -> T] : Ascends(s, Cardinality(T))}
  <1>1. SUFFICES ASSUME Bad # {} PROVE FALSE
    BY DEF FiniteSubsetsOf
  <1>2. PICK T \in Bad : \A U \in Bad : U \subseteq T => U = T
    <2>1. Bad \in SUBSET FiniteSubsetsOf(S)
      OBVIOUS
    <2> HIDE DEF Bad
    <2>. QED  BY <1>1, <2>1, SmallestOf
  <1>3. IsFiniteSet(T) /\ T \in SUBSET Nat /\ Cardinality(T) \in Nat
    BY FS_CardinalityType DEF FiniteSubsetsOf
  <1> DEFINE n == Cardinality(T)
  <1>4. CASE T = {}
    <2>1. n = 0
      BY <1>4, FS_EmptySet
    <2> DEFINE s == [i \in 1..n |-> 0]
    <2>2. s \in [1..n -> T] /\ Ascends(s, n)
      BY <2>1, <1>4 DEF Ascends
    <2>. QED  BY <2>2
  <1>5. CASE T # {}
    <2>1. PICK m \in T : \A x \in T : m <= x
      BY <1>3, <1>5, LeastOf
    <2> DEFINE U == T \ {m}
    <2>2. IsFiniteSet(U) /\ Cardinality(U) = n - 1
      BY <1>3, FS_RemoveElement
    <2>3. U \in FiniteSubsetsOf(S) /\ U \subseteq T /\ U # T
      BY <2>2 DEF FiniteSubsetsOf
    <2>4. PICK s \in [1..n-1 -> U] : Ascends(s, n - 1)
      BY <1>2, <2>2, <2>3
    <2> DEFINE t == [i \in 1..n |-> IF i = 1 THEN m ELSE s[i - 1]]
    <2>5. \A i \in 1..n : i # 1 => i - 1 \in 1..n-1 /\ s[i - 1] \in U
      BY <1>3
    <2>6. t \in [1..n -> T]
      BY <2>5
    <2>7. \A x \in U : x \in Nat /\ m < x
      BY <1>3, <2>1
    <2>8. ASSUME NEW i \in 1..n, NEW j \in 1..n, i < j
          PROVE  t[i] < t[j]
      <3>1. j # 1 /\ i \in Nat /\ j \in Nat
        BY <1>3, <2>8
      <3>2. CASE i = 1
        BY <3>1, <3>2, <2>5, <2>7
      <3>3. CASE i # 1
        <4>1. i - 1 \in 1..n-1 /\ j - 1 \in 1..n-1 /\ i - 1 < j - 1
          BY <2>5, <2>8, <3>1, <3>3
        <4>2. s[i - 1] < s[j - 1]
          BY <4>1, <2>4 DEF Ascends
        <4>. QED  BY <4>2, <3>1, <3>3
      <3>. QED  BY <3>2, <3>3
    <2>9. Ascends(t, n)
      BY <2>8 DEF Ascends
    <2>. QED  BY <2>6, <2>9
  <1>. QED  BY <1>4, <1>5

\* InOrder is the set in order: each of its numbers once.
LEMMA Ordered ==
  ASSUME NEW S \in SUBSET Nat, IsFiniteSet(S)
  PROVE  /\ Cardinality(S) \in Nat
         /\ InOrder(S) \in [1..Cardinality(S) -> S]
         /\ Ascends(InOrder(S), Cardinality(S))
         /\ \A i, j \in 1..Cardinality(S) : InOrder(S)[i] = InOrder(S)[j] => i = j
         /\ \A x \in S : \E i \in 1..Cardinality(S) : InOrder(S)[i] = x
  <1> DEFINE n == Cardinality(S)
             o == InOrder(S)
  <1>1. n \in Nat
    BY FS_CardinalityType
  <1>2. o \in [1..n -> S] /\ Ascends(o, n)
    BY OrderExists DEF InOrder, Ascends
  <1> HIDE DEF o
  <1>3. \A i, j \in 1..n : o[i] = o[j] => i = j
    <2> SUFFICES ASSUME NEW i \in 1..n, NEW j \in 1..n, i # j
                 PROVE  o[i] # o[j]
      OBVIOUS
    <2>1. i < j \/ j < i
      BY <1>1
    <2>2. o[i] \in Nat /\ o[j] \in Nat
      BY <1>2
    <2>3. o[i] < o[j] \/ o[j] < o[i]
      BY <2>1, <1>2 DEF Ascends
    <2>. QED  BY <2>2, <2>3
  <1>4. ASSUME NEW x \in S, \A i \in 1..n : o[i] # x
        PROVE  FALSE
    <2>1. IsFiniteSet(S \ {x}) /\ Cardinality(S \ {x}) = n - 1
      BY FS_RemoveElement
    <2>2. IsFiniteSet(1..n) /\ Cardinality(1..n) = n
      BY <1>1, FS_Interval
    <2>3. o \in [1..n -> S \ {x}]
      BY <1>2, <1>4
    <2>4. \E i, j \in 1..n : i # j /\ o[i] = o[j]
      <3>1. Cardinality(S \ {x}) < Cardinality(1..n)
        BY <1>1, <2>1, <2>2
      <3> DEFINE I == 1..n
                 T == S \ {x}
      <3>2. IsFiniteSet(I) /\ IsFiniteSet(T) /\ Cardinality(T) < Cardinality(I) /\ o \in [I -> T]
        BY <2>1, <2>2, <2>3, <3>1
      <3> HIDE DEF I, T
      <3>3. \E i, j \in I : i # j /\ o[i] = o[j]
        BY <3>2, FS_PigeonHole
      <3>. QED  BY <3>3 DEF I
    <2>. QED  BY <2>4, <1>3
  <1>. QED  BY <1>1, <1>2, <1>3, <1>4 DEF o

Above(S, x) == {y \in S : y > x}

\* How many numbers of the set are above the one at a place of the order.
LEMMA Rank ==
  ASSUME NEW S \in SUBSET Nat, IsFiniteSet(S), NEW k \in 1..Cardinality(S)
  PROVE  Cardinality(Above(S, InOrder(S)[k])) = Cardinality(S) - k
  <1> DEFINE n == Cardinality(S)
             o == InOrder(S)
             A == Above(S, o[k])
  <1>1. /\ n \in Nat /\ o \in [1..n -> S] /\ Ascends(o, n)
        /\ \A i, j \in 1..n : o[i] = o[j] => i = j
        /\ \A x \in S : \E i \in 1..n : o[i] = x
    BY Ordered
  <1> HIDE DEF o
  <1> DEFINE f == [j \in 1..(n - k) |-> o[k + j]]
  <1>2. \A j \in 1..(n - k) : k + j \in 1..n /\ k < k + j
    BY <1>1
  <1>3. f \in [1..(n - k) -> A]
    <2> SUFFICES ASSUME NEW j \in 1..(n - k)
                 PROVE  o[k + j] \in A
      OBVIOUS
    <2>1. o[k] < o[k + j] /\ o[k + j] \in S /\ o[k] \in S
      BY <1>1, <1>2 DEF Ascends
    <2>2. o[k] \in Nat /\ o[k + j] \in Nat
      BY <2>1
    <2>3. o[k + j] > o[k]
      BY <2>1, <2>2
    <2>. QED  BY <2>1, <2>3 DEF Above
  <1>4. \A i, j \in 1..(n - k) : f[i] = f[j] => i = j
    <2> SUFFICES ASSUME NEW i \in 1..(n - k), NEW j \in 1..(n - k), o[k + i] = o[k + j]
                 PROVE  i = j
      OBVIOUS
    <2>1. k + i = k + j
      BY <1>1, <1>2
    <2>. QED  BY <2>1, <1>1
  <1>5. ASSUME NEW x \in A
        PROVE  \E j \in 1..(n - k) : f[j] = x
    <2>1. PICK i \in 1..n : o[i] = x
      BY <1>1 DEF Above
    <2>2. x > o[k] /\ x \in Nat /\ o[k] \in Nat
      BY <1>1 DEF Above
    <2>3. ~(i < k) /\ i # k
      <3>1. i < k => o[i] < o[k]
        BY <1>1 DEF Ascends
      <3>. QED  BY <2>1, <2>2, <3>1
    <2>4. i - k \in 1..(n - k) /\ k + (i - k) = i
      BY <1>1, <2>3
    <2>. QED  BY <2>1, <2>4
  <1>6. f \in Bijection(1..(n - k), A)
    BY <1>3, <1>4, <1>5 DEF Bijection, Injection, Surjection, IsInjective
  <1>7. n - k \in Nat
    BY <1>1
  <1>. QED  BY <1>6, <1>7, FS_CountingElements DEF ExistsBijection, o

-----------------------------------------------------------------------------
(* Lists of rows.                                                          *)

RowsOf(list) == {list[i] : i \in DOMAIN list}

\* No session is in a list twice.
Distinct(list) == \A i, j \in DOMAIN list : list[i].id = list[j].id => i = j

LEMMA IdsOfRows ==
  ASSUME NEW list
  PROVE  IdsOf(list) = {x.id : x \in RowsOf(list)}
  BY DEF IdsOf, RowsOf

LEMMA RowsType ==
  ASSUME NEW T, NEW list \in Seq(T)
  PROVE  /\ Len(list) \in Nat /\ DOMAIN list = 1..Len(list)
         /\ \A i \in 1..Len(list) : list[i] \in T
         /\ RowsOf(list) \subseteq T
         /\ list # <<>> => Head(list) \in RowsOf(list)
         /\ list = <<>> <=> RowsOf(list) = {}
  <1>1. Len(list) \in Nat /\ DOMAIN list = 1..Len(list) /\ \A i \in 1..Len(list) : list[i] \in T
    BY LenProperties, ElementOfSeq
  <1>2. RowsOf(list) \subseteq T
    BY <1>1 DEF RowsOf
  <1>3. list # <<>> => 1 \in DOMAIN list /\ Head(list) = list[1]
    <2>1. list # <<>> => Len(list) # 0
      BY EmptySeq
    <2>. QED  BY <1>1, <2>1
  <1>4. list = <<>> => DOMAIN list = {}
    BY <1>1
  <1>. QED  BY <1>1, <1>2, <1>3, <1>4 DEF RowsOf

\* A list made of the rows at some places of another.
LEMMA PickedRows ==
  ASSUME NEW T, NEW list \in Seq(T), NEW places \in SUBSET DOMAIN list
  PROVE  /\ Picked(list, places) \in Seq(T)
         /\ RowsOf(Picked(list, places)) = {list[i] : i \in places}
         /\ Distinct(list) => Distinct(Picked(list, places))
  <1> DEFINE n == Cardinality(places)
             o == InOrder(places)
             p == Picked(list, places)
  <1>1. places \in SUBSET Nat /\ places \subseteq 1..Len(list) /\ Len(list) \in Nat
    BY RowsType
  <1>2. IsFiniteSet(places)
    <2>1. IsFiniteSet(1..Len(list))
      BY <1>1, FS_Interval
    <2>. QED  BY <1>1, <2>1, FS_Subset
  <1>3. /\ n \in Nat /\ o \in [1..n -> places]
        /\ \A i, j \in 1..n : o[i] = o[j] => i = j
        /\ \A x \in places : \E i \in 1..n : o[i] = x
    BY <1>1, <1>2, Ordered
  <1>4. p = [i \in 1..n |-> list[o[i]]]
    BY DEF Picked
  <1> HIDE DEF n, o, p
  <1>5. \A i \in places : list[i] \in T /\ i \in DOMAIN list
    BY RowsType
  <1>6. p \in [1..n -> T]
    BY <1>3, <1>4, <1>5
  <1>7. p \in Seq(T)
    BY <1>3, <1>6
  <1>8. DOMAIN p = 1..n
    BY <1>6
  <1>9. RowsOf(p) = {list[i] : i \in places}
    <2>1. ASSUME NEW i \in 1..n
          PROVE  p[i] \in {list[j] : j \in places}
      BY <1>3, <1>4
    <2>2. ASSUME NEW j \in places
          PROVE  \E i \in 1..n : p[i] = list[j]
      BY <1>3, <1>4
    <2>. QED  BY <1>8, <2>1, <2>2 DEF RowsOf
  <1>10. Distinct(list) => Distinct(p)
    <2> SUFFICES ASSUME Distinct(list), NEW i \in 1..n, NEW j \in 1..n, p[i].id = p[j].id
                 PROVE  i = j
      BY <1>8 DEF Distinct
    <2>1. o[i] = o[j]
      BY <1>3, <1>4, <1>5 DEF Distinct
    <2>. QED  BY <2>1, <1>3
  <1>. QED  BY <1>7, <1>9, <1>10 DEF p

\* RemoveSessions removes the rows of these ids and no others.
LEMMA RemovedRows ==
  ASSUME NEW T, NEW list \in Seq(T), NEW ids
  PROVE  LET r == RemoveSessions(list, ids)
         IN  /\ r \in Seq(T) /\ RowsOf(r) = {x \in RowsOf(list) : x.id \notin ids}
             /\ Distinct(list) => Distinct(r)
  <1> DEFINE places == {i \in DOMAIN list : list[i].id \notin ids}
  <1>1. places \in SUBSET DOMAIN list
    OBVIOUS
  <1>2. {list[i] : i \in places} = {x \in RowsOf(list) : x.id \notin ids}
    BY DEF RowsOf
  <1>3. RemoveSessions(list, ids) = Picked(list, places)
    BY DEF RemoveSessions
  <1> HIDE DEF places
  <1>. QED  BY <1>1, <1>2, <1>3, PickedRows

\* Two lists, one after the other.
LEMMA JoinedRows ==
  ASSUME NEW T, NEW p \in Seq(T), NEW q \in Seq(T)
  PROVE  /\ p \o q \in Seq(T) /\ RowsOf(p \o q) = RowsOf(p) \cup RowsOf(q)
         /\ Distinct(p) /\ Distinct(q) /\ (\A x \in RowsOf(p), y \in RowsOf(q) : x.id # y.id)
              => Distinct(p \o q)
  <1> DEFINE r == p \o q
             m == Len(p)
             n == Len(q)
  <1>1. /\ r \in Seq(T) /\ Len(r) = m + n
        /\ \A i \in 1..m + n : r[i] = IF i <= m THEN p[i] ELSE q[i - m]
    BY ConcatProperties
  <1>2. m \in Nat /\ n \in Nat /\ DOMAIN p = 1..m /\ DOMAIN q = 1..n /\ DOMAIN r = 1..m + n
    BY <1>1, RowsType
  <1> HIDE DEF r, m, n
  <1>3. \A i \in 1..m : i \in 1..m + n /\ r[i] = p[i]
    BY <1>1, <1>2
  <1>4. \A i \in 1..n : m + i \in 1..m + n /\ r[m + i] = q[i]
    <2> TAKE i \in 1..n
    <2> DEFINE j == m + i
    <2>1. j \in 1..m + n /\ ~(j <= m) /\ j - m = i
      BY <1>2
    <2> HIDE DEF j
    <2>2. r[j] = q[i]
      BY <2>1, <1>1
    <2>. QED  BY <2>1, <2>2 DEF j
  <1>5. \A i \in 1..m + n : \/ i \in 1..m /\ r[i] = p[i]
                            \/ i - m \in 1..n /\ i \notin 1..m /\ r[i] = q[i - m]
    BY <1>1, <1>2
  <1>6. RowsOf(r) = RowsOf(p) \cup RowsOf(q)
    <2>1. RowsOf(r) \subseteq RowsOf(p) \cup RowsOf(q)
      BY <1>2, <1>5 DEF RowsOf
    <2>2. RowsOf(p) \subseteq RowsOf(r)
      BY <1>2, <1>3 DEF RowsOf
    <2>3. RowsOf(q) \subseteq RowsOf(r)
      BY <1>2, <1>4 DEF RowsOf
    <2>. QED  BY <2>1, <2>2, <2>3
  <1>7. ASSUME Distinct(p), Distinct(q), \A x \in RowsOf(p), y \in RowsOf(q) : x.id # y.id,
               NEW i \in 1..m + n, NEW j \in 1..m + n, r[i].id = r[j].id
        PROVE  i = j
    <2>1. CASE i \in 1..m /\ j \in 1..m
      BY <1>2, <1>3, <1>7, <2>1 DEF Distinct
    <2>2. CASE i \notin 1..m /\ j \notin 1..m
      <3>1. i - m = j - m
        BY <1>2, <1>5, <1>7, <2>2 DEF Distinct
      <3>. QED  BY <3>1, <1>2
    <2>3. CASE i \in 1..m /\ j \notin 1..m
      <3>1. r[i] \in RowsOf(p) /\ r[j] \in RowsOf(q)
        BY <1>2, <1>3, <1>5, <2>3 DEF RowsOf
      <3>. QED  BY <3>1, <1>7
    <2>4. CASE i \notin 1..m /\ j \in 1..m
      <3>1. r[j] \in RowsOf(p) /\ r[i] \in RowsOf(q)
        BY <1>2, <1>3, <1>5, <2>4 DEF RowsOf
      <3>. QED  BY <3>1, <1>7
    <2>. QED  BY <2>1, <2>2, <2>3, <2>4
  <1>8. Distinct(p) /\ Distinct(q) /\ (\A x \in RowsOf(p), y \in RowsOf(q) : x.id # y.id)
          => Distinct(r)
    BY <1>2, <1>7 DEF Distinct
  <1>. QED  BY <1>1, <1>6, <1>8 DEF r

\* An answer for another page adds the rows whose ids are not listed.
LEMMA MergedPage ==
  ASSUME NEW T, NEW prev \in Seq(T), NEW page \in Seq(T), NEW off, off # 0
  PROVE  LET r == MergePage(prev, page, off)
         IN  /\ r \in Seq(T)
             /\ RowsOf(r) = RowsOf(prev) \cup {x \in RowsOf(page) : x.id \notin IdsOf(prev)}
             /\ Distinct(prev) /\ Distinct(page) => Distinct(r)
  <1> DEFINE places == {i \in DOMAIN page : page[i].id \notin IdsOf(prev)}
             q == Picked(page, places)
  <1>1. places \in SUBSET DOMAIN page
    OBVIOUS
  <1>2. {page[i] : i \in places} = {x \in RowsOf(page) : x.id \notin IdsOf(prev)}
    BY DEF RowsOf
  <1>3. MergePage(prev, page, off) = prev \o q
    BY DEF MergePage
  <1>4. /\ q \in Seq(T) /\ RowsOf(q) = {x \in RowsOf(page) : x.id \notin IdsOf(prev)}
        /\ Distinct(page) => Distinct(q)
    <2> HIDE DEF places
    <2>. QED  BY <1>1, <1>2, PickedRows
  <1> HIDE DEF places, q
  <1>5. \A x \in RowsOf(prev), y \in RowsOf(q) : x.id # y.id
    BY <1>4 DEF RowsOf, IdsOf
  <1>. QED  BY <1>3, <1>4, <1>5, JoinedRows

\* An event replaces the row of its session, or adds one.
LEMMA MergedSession ==
  ASSUME NEW T, NEW prev \in Seq(T), NEW s \in T
  PROVE  LET r == MergeSession(prev, s)
         IN  /\ r \in Seq(T)
             /\ RowsOf(r) = {x \in RowsOf(prev) : x.id # s.id} \cup {s}
             /\ Distinct(prev) => Distinct(r)
  <1> DEFINE n == Len(prev)
  <1>1. n \in Nat /\ DOMAIN prev = 1..n /\ \A i \in 1..n : prev[i] \in T
    BY RowsType
  <1>2. CASE s.id \in IdsOf(prev)
    <2> DEFINE r == [i \in 1..n |-> IF prev[i].id = s.id THEN s ELSE prev[i]]
    <2>1. MergeSession(prev, s) = r
      BY <1>1, <1>2 DEF MergeSession
    <2>2. r \in [1..n -> T]
      BY <1>1
    <2>3. r \in Seq(T) /\ DOMAIN r = 1..n
      BY <1>1, <2>2
    <2>4. PICK i \in 1..n : prev[i].id = s.id
      BY <1>1, <1>2 DEF IdsOf
    <2>5. \A j \in 1..n : r[j].id = prev[j].id
      OBVIOUS
    <2>6. RowsOf(r) = {x \in RowsOf(prev) : x.id # s.id} \cup {s}
      <3>1. \A j \in 1..n : r[j] \in {x \in RowsOf(prev) : x.id # s.id} \cup {s}
        BY <1>1 DEF RowsOf
      <3>2. r[i] = s
        BY <2>4
      <3>3. \A j \in 1..n : prev[j].id # s.id => r[j] = prev[j]
        OBVIOUS
      <3> HIDE DEF r
      <3>. QED  BY <3>1, <3>2, <3>3, <1>1, <2>3 DEF RowsOf
    <2>7. Distinct(prev) => Distinct(r)
      BY <1>1, <2>3, <2>5 DEF Distinct
    <2>. QED  BY <2>1, <2>3, <2>6, <2>7
  <1>3. CASE s.id \notin IdsOf(prev)
    <2> DEFINE h == <<s>>
    <2>1. MergeSession(prev, s) = h \o prev
      BY <1>3 DEF MergeSession
    <2>2. h \in Seq(T) /\ DOMAIN h = {1} /\ h[1] = s
      OBVIOUS
    <2> HIDE DEF h
    <2>3. RowsOf(h) = {s} /\ Distinct(h)
      BY <2>2 DEF RowsOf, Distinct
    <2>4. \A x \in RowsOf(prev) : x.id # s.id
      BY <1>3 DEF RowsOf, IdsOf
    <2>. QED  BY <2>1, <2>2, <2>3, <2>4, JoinedRows
  <1>. QED  BY <1>2, <1>3

RowsIn(rows, ids, T) == \A s \in ids : [id |-> s, state |-> rows[s]] \in T
RowsFrom(rows, ids, list) == \A x \in RowsOf(list) : x.id \in ids /\ x.state = rows[x.id]

\* A page has the rows of its ids, none twice; the first has the newest ones, those
\* with fewer than limit above them.
LEMMA PageRows ==
  ASSUME NEW rows, NEW T, NEW ids \in SUBSET Nat, IsFiniteSet(ids),
         RowsIn(rows, ids, T), NEW off \in Nat, NEW limit \in Nat
  PROVE  LET p == PageOf(rows, ids, off, limit)
         IN  /\ p \in Seq(T) /\ Distinct(p) /\ RowsFrom(rows, ids, p)
             /\ off = 0 => IdsOf(p) = {s \in ids : Cardinality(Above(ids, s)) < limit}
  <1> DEFINE n == Cardinality(ids)
             o == InOrder(ids)
             last == IF off + limit < n THEN off + limit ELSE n
             Id(i) == o[n + 1 - off - i]
             p == [i \in 1..(last - off) |-> [id |-> Id(i), state |-> rows[Id(i)]]]
  <1>1. /\ n \in Nat /\ o \in [1..n -> ids]
        /\ \A i, j \in 1..n : o[i] = o[j] => i = j
        /\ \A x \in ids : \E i \in 1..n : o[i] = x
    BY Ordered
  <1>2. \A k \in 1..n : Cardinality(Above(ids, o[k])) = n - k
    BY Rank
  <1>3. PageOf(rows, ids, off, limit) = p
    BY DEF PageOf
  <1> HIDE DEF o, n
  <1>4. /\ last \in Nat /\ last <= n
        /\ \A i \in 1..(last - off) : n + 1 - off - i \in 1..n
    BY <1>1
  <1>5. \A i \in 1..(last - off) : Id(i) \in ids
    BY <1>1, <1>4
  <1>6. DOMAIN p = 1..(last - off) /\ \A i \in DOMAIN p : p[i] \in T
    BY <1>5 DEF RowsIn
  <1>7. p \in Seq(T)
    <2>1. CASE last - off \in Nat
      <3> DEFINE k == last - off
      <3>1. p \in [1..k -> T] /\ k \in Nat
        BY <1>6, <2>1
      <3> HIDE DEF k, p
      <3>. QED  BY <3>1
    <2>2. CASE last - off \notin Nat
      <3>1. 1..(last - off) = 1..0
        BY <1>4, <2>2
      <3>2. p \in [1..0 -> T]
        BY <1>6, <3>1
      <3> HIDE DEF p
      <3>. QED  BY <3>2
    <2>. QED  BY <2>1, <2>2
  <1>8. \A i \in DOMAIN p : p[i].id = Id(i) /\ p[i].state = rows[Id(i)]
    OBVIOUS
  <1>9. Distinct(p)
    <2> SUFFICES ASSUME NEW i \in 1..(last - off), NEW j \in 1..(last - off), Id(i) = Id(j)
                 PROVE  i = j
      BY <1>6, <1>8 DEF Distinct
    <2>1. n + 1 - off - i = n + 1 - off - j
      BY <1>1, <1>4
    <2>. QED  BY <2>1, <1>1
  <1>10. RowsFrom(rows, ids, p)
    <2>1. \A i \in DOMAIN p : p[i].id \in ids /\ p[i].state = rows[p[i].id]
      BY <1>5, <1>6, <1>8
    <2> HIDE DEF p
    <2>. QED  BY <2>1 DEF RowsOf, RowsFrom
  <1>11. ASSUME off = 0
         PROVE  IdsOf(p) = {s \in ids : Cardinality(Above(ids, s)) < limit}
    <2>1. \A i \in 1..last : n + 1 - i \in 1..n /\ n - (n + 1 - i) = i - 1 /\ i - 1 < limit
      BY <1>1, <1>4, <1>11
    <2>2. \A i \in 1..last : i \in DOMAIN p /\ p[i].id = o[n + 1 - i]
      BY <1>1, <1>6, <1>8, <1>11
    <2>3. IdsOf(p) \subseteq {s \in ids : Cardinality(Above(ids, s)) < limit}
      <3> SUFFICES ASSUME NEW i \in DOMAIN p
                   PROVE  p[i].id \in ids /\ Cardinality(Above(ids, p[i].id)) < limit
        BY DEF IdsOf
      <3>1. i \in 1..last
        BY <1>4, <1>6, <1>11
      <3>2. p[i].id = o[n + 1 - i] /\ n + 1 - i \in 1..n
        BY <2>1, <2>2, <3>1
      <3>3. Cardinality(Above(ids, p[i].id)) = i - 1
        BY <1>2, <2>1, <3>1, <3>2
      <3>. QED  BY <1>1, <2>1, <3>1, <3>2, <3>3
    <2>4. ASSUME NEW s \in ids, Cardinality(Above(ids, s)) < limit
          PROVE  s \in IdsOf(p)
      <3>1. PICK k \in 1..n : o[k] = s
        BY <1>1
      <3>2. n - k < limit
        BY <1>2, <2>4, <3>1
      <3>3. n + 1 - k \in 1..last /\ n + 1 - (n + 1 - k) = k
        BY <1>1, <1>4, <1>11, <3>2
      <3>4. p[n + 1 - k].id = s /\ n + 1 - k \in DOMAIN p
        BY <2>2, <3>1, <3>3
      <3> DEFINE i == n + 1 - k
      <3> HIDE DEF i, p
      <3>5. p[i].id = s /\ i \in DOMAIN p
        BY <3>4 DEF i
      <3>. QED  BY <3>5 DEF IdsOf
    <2>. QED  BY <2>3, <2>4
  <1>. QED  BY <1>3, <1>7, <1>9, <1>10, <1>11

-----------------------------------------------------------------------------
(* Queues of events.                                                       *)

\* A queue with one more event, and without the first.
LEMMA Enqueued ==
  ASSUME NEW S, NEW q \in Seq(S), NEW e \in S
  PROVE  LET r == Append(q, e)
         IN  /\ r \in Seq(S) /\ Len(r) = Len(q) + 1 /\ Len(q) \in Nat
             /\ \A i \in 1..Len(q) : i \in 1..Len(r) /\ r[i] = q[i] /\ q[i] \in S
             /\ Len(r) \in 1..Len(r) /\ r[Len(r)] = e
             /\ \A i \in 1..Len(r) : i # Len(r) => i \in 1..Len(q)
  <1> DEFINE r == Append(q, e)
  <1>1. /\ r \in Seq(S) /\ Len(r) = Len(q) + 1 /\ Len(q) \in Nat
        /\ \A i \in 1..Len(q) : r[i] = q[i] /\ q[i] \in S
        /\ r[Len(q) + 1] = e
    BY ElementOfSeq, LenProperties
  <1>. QED  BY <1>1

LEMMA Dequeued ==
  ASSUME NEW S, NEW q \in Seq(S), q # <<>>
  PROVE  LET r == Tail(q)
         IN  /\ r \in Seq(S) /\ Len(r) = Len(q) - 1 /\ Len(q) \in Nat \ {0}
             /\ Head(q) = q[1] /\ Head(q) \in S /\ 1 \in 1..Len(q)
             /\ \A i \in 1..Len(r) : i + 1 \in 1..Len(q) /\ r[i] = q[i + 1]
             /\ \A i \in 1..Len(q) : i # 1 => i - 1 \in 1..Len(r) /\ r[i - 1] = q[i]
  <1> DEFINE r == Tail(q)
  <1>1. /\ r \in Seq(S) /\ Len(r) = Len(q) - 1 /\ Len(q) \in Nat \ {0} /\ Head(q) = q[1]
        /\ \A i \in 1..Len(r) : r[i] = q[i + 1]
    BY HeadTailProperties, EmptySeq
  <1>2. Head(q) \in S
    BY HeadTailProperties
  <1>. QED  BY <1>1, <1>2
===============================================================================
