------------------------------ MODULE UdfProofs ------------------------------
(* What the executor of user modules keeps and what tiles are told, for any   *)
(* modules, threads, budgets, pool and capacity. A module that left the list  *)
(* is one that a full list of others was used after; a tile's fuel is what    *)
(* its budget leaves of the functions its guest has been through.             *)
EXTENDS MCPyramidHost, TLAPS, FiniteSetTheorems, FunctionTheorems, SequenceTheorems

------------------------------------------------------------------------------
(* The list of compiled modules *)

\* The modules in front of place j.
Before(list, j) == {list[i] : i \in 1..(j - 1)}

\* A list without repetitions.
Distinct(list) == \A i, j \in 1..Len(list) : list[i] = list[j] => i = j

\* What is left of a list at place p is what was there, but for that place.
LEMMA RemovedAt ==
  ASSUME NEW list \in Seq(Modules), NEW p \in 1..Len(list)
  PROVE  /\ RemoveAt(list, p) \in Seq(Modules)
         /\ Len(RemoveAt(list, p)) = Len(list) - 1
         /\ \A i \in 1..(Len(list) - 1) : RemoveAt(list, p)[i] = IF i < p THEN list[i] ELSE list[i + 1]
<1> DEFINE l == SubSeq(list, 1, p - 1)
           r == SubSeq(list, p + 1, Len(list))
<1>1. l \in Seq(Modules) /\ Len(l) = p - 1 /\ \A i \in 1..(p - 1) : l[i] = list[i]
  BY SubSeqProperties
<1>2. /\ r \in Seq(Modules) /\ Len(r) = Len(list) - p
      /\ \A i \in 1..(Len(list) - p) : r[i] = list[p + i]
  <2>1. CASE p = Len(list)
    BY <2>1
  <2>2. CASE p < Len(list)
    BY <2>2
  <2> QED BY <2>1, <2>2
<1>3. RemoveAt(list, p) = l \o r
  BY DEF RemoveAt
<1> HIDE DEF l, r
<1>a. p \in Nat /\ Len(list) \in Nat /\ 1 <= p /\ p <= Len(list)
  OBVIOUS
<1>4. /\ l \o r \in Seq(Modules) /\ Len(l \o r) = Len(list) - 1
      /\ \A i \in 1..Len(l \o r) : (l \o r)[i] = IF i <= Len(l) THEN l[i] ELSE r[i - Len(l)]
  <2>1. /\ l \o r \in Seq(Modules) /\ Len(l \o r) = Len(l) + Len(r)
        /\ \A i \in 1..(Len(l) + Len(r)) : (l \o r)[i] = IF i <= Len(l) THEN l[i] ELSE r[i - Len(l)]
    BY <1>1, <1>2, ConcatProperties
  <2> QED BY <1>a, <1>1, <1>2, <2>1
<1>5. ASSUME NEW i \in 1..(Len(list) - 1) PROVE (l \o r)[i] = IF i < p THEN list[i] ELSE list[i + 1]
  <2>1. CASE i < p
    BY <1>a, <1>1, <1>4, <2>1
  <2>2. CASE ~(i < p)
    <3>1. i - (p - 1) \in 1..(Len(list) - p) /\ p + (i - (p - 1)) = i + 1
      BY <1>a, <2>2
    <3>2. i \in 1..Len(l \o r) /\ ~(i <= Len(l)) /\ i - Len(l) = i - (p - 1)
      BY <1>a, <1>1, <1>4, <2>2
    <3>3. (l \o r)[i] = r[i - (p - 1)]
      BY <1>4, <3>2
    <3>4. r[i - (p - 1)] = list[p + (i - (p - 1))]
      BY <1>2, <3>1
    <3> QED BY <2>2, <3>1, <3>3, <3>4
  <2> QED BY <2>1, <2>2
<1> QED BY <1>3, <1>4, <1>5

\* w is the list without m: in order, each module behind those it was behind.
Left(list, m, w) ==
  /\ w \in Seq(Modules) /\ Distinct(w)
  /\ IF m \in ToSet(list) THEN Len(w) = Len(list) - 1 ELSE w = list
  /\ \A j \in 1..Len(w) :
       /\ w[j] # m
       /\ \E q \in 1..Len(list) : w[j] = list[q] /\ {m} \cup Before(w, j) = {m} \cup Before(list, q)
  /\ \A q \in 1..Len(list) : list[q] # m => \E j \in 1..Len(w) : w[j] = list[q]

LEMMA WithoutLeaves ==
  ASSUME NEW list \in Seq(Modules), Distinct(list), NEW m
  PROVE  Left(list, m, Host!Without(list, m))
<1>a. Len(list) \in Nat /\ DOMAIN list = 1..Len(list)
  OBVIOUS
<1>1. CASE m \notin ToSet(list)
  <2>1. Host!Without(list, m) = list
    BY <1>1 DEF Host!Without, Host!ToSet, ToSet
  <2>2. \A j \in 1..Len(list) : list[j] # m
    BY <1>1, <1>a DEF ToSet
  <2> QED BY <1>1, <1>a, <2>1, <2>2 DEF Left
<1>2. CASE m \in ToSet(list)
  <2> DEFINE p == CHOOSE i \in DOMAIN list : list[i] = m
             w == RemoveAt(list, p)
  <2>1. p \in 1..Len(list) /\ list[p] = m
    <3>1. \E i \in DOMAIN list : list[i] = m
      BY <1>2 DEF ToSet
    <3> QED BY <1>a, <3>1
  <2>2. Host!Without(list, m) = w
    BY <1>2 DEF Host!Without, Host!ToSet, ToSet, Host!RemoveAt, RemoveAt
  <2> HIDE DEF p
  <2>3. /\ w \in Seq(Modules) /\ Len(w) = Len(list) - 1
        /\ \A i \in 1..(Len(list) - 1) : w[i] = IF i < p THEN list[i] ELSE list[i + 1]
    BY <2>1, RemovedAt
  <2> HIDE DEF w
  <2>b. p \in Nat /\ 1 <= p /\ p <= Len(list)
    BY <2>1, <1>a
  <2> DEFINE at(j) == IF j < p THEN j ELSE j + 1
  <2>4. ASSUME NEW j \in 1..Len(w)
        PROVE  at(j) \in 1..Len(list) /\ at(j) # p /\ w[j] = list[at(j)]
    BY <1>a, <2>b, <2>3
  <2>5. Distinct(w)
    <3> SUFFICES ASSUME NEW i \in 1..Len(w), NEW j \in 1..Len(w), w[i] = w[j] PROVE i = j
      BY DEF Distinct
    <3>1. at(i) = at(j)
      BY <2>4 DEF Distinct
    <3> QED BY <1>a, <2>b, <2>3, <3>1
  <2>6. ASSUME NEW j \in 1..Len(w) PROVE w[j] # m
    BY <2>1, <2>4 DEF Distinct
  <2>7. ASSUME NEW j \in 1..Len(w) PROVE {m} \cup Before(w, j) = {m} \cup Before(list, at(j))
    <3>1. ASSUME NEW i \in 1..(j - 1) PROVE w[i] \in Before(list, at(j))
      <4>1. i \in 1..Len(w) /\ at(i) \in 1..(at(j) - 1)
        BY <1>a, <2>b, <2>3
      <4> QED BY <2>4, <4>1 DEF Before
    <3>2. ASSUME NEW k \in 1..(at(j) - 1) PROVE list[k] \in {m} \cup Before(w, j)
      <4>1. CASE k < p
        <5>1. k \in 1..(j - 1) /\ k \in 1..(Len(list) - 1)
          BY <1>a, <2>b, <2>3, <4>1
        <5> QED BY <2>3, <4>1, <5>1 DEF Before
      <4>2. CASE k = p
        BY <2>1, <4>2
      <4>3. CASE k > p
        <5>1. k - 1 \in 1..(j - 1) /\ k - 1 \in 1..(Len(list) - 1) /\ ~(k - 1 < p) /\ (k - 1) + 1 = k
          BY <1>a, <2>b, <2>3, <4>3
        <5>2. w[k - 1] = list[k]
          BY <2>3, <5>1
        <5> QED BY <5>1, <5>2 DEF Before
      <4>4. k \in Nat
        BY <1>a, <2>b, <2>3
      <4> QED BY <2>b, <4>1, <4>2, <4>3, <4>4
    <3> QED BY <3>1, <3>2 DEF Before
  <2>8. ASSUME NEW q \in 1..Len(list), list[q] # m PROVE \E j \in 1..Len(w) : w[j] = list[q]
    <3>1. q # p
      BY <2>1, <2>8
    <3>2. CASE q < p
      <4>1. q \in 1..(Len(list) - 1)
        BY <1>a, <2>b, <3>2
      <4> QED BY <2>3, <3>2, <4>1
    <3>3. CASE q > p
      <4>1. q - 1 \in 1..(Len(list) - 1) /\ ~(q - 1 < p) /\ (q - 1) + 1 = q
        BY <1>a, <2>b, <3>3
      <4>2. w[q - 1] = list[q]
        BY <2>3, <4>1
      <4> QED BY <2>3, <4>1, <4>2
    <3>4. q \in Nat
      BY <1>a
    <3> QED BY <2>b, <3>1, <3>2, <3>3, <3>4
  <2>9. \A j \in 1..Len(w) : \E q \in 1..Len(list) : w[j] = list[q] /\ {m} \cup Before(w, j) = {m} \cup Before(list, q)
    BY <2>4, <2>7
  <2> QED BY <1>2, <2>2, <2>3, <2>5, <2>6, <2>8, <2>9 DEF Left
<1> QED BY <1>1, <1>2

\* Counting the modules in front.
LEMMA BeforeCounts ==
  ASSUME NEW list \in Seq(Modules), Distinct(list), NEW j \in 1..Len(list)
  PROVE  IsFiniteSet(Before(list, j)) /\ Cardinality(Before(list, j)) = j - 1
<1> DEFINE f == [i \in 1..(j - 1) |-> list[i]]
<1>1. j \in Nat /\ Len(list) \in Nat /\ 1 <= j /\ j <= Len(list)
  OBVIOUS
<1>2. f \in Bijection(1..(j - 1), Before(list, j))
  <2>1. f \in [1..(j - 1) -> Before(list, j)]
    BY DEF Before
  <2>2. ASSUME NEW a \in 1..(j - 1), NEW b \in 1..(j - 1), f[a] = f[b] PROVE a = b
    <3>1. a \in 1..Len(list) /\ b \in 1..Len(list) /\ list[a] = list[b]
      BY <1>1, <2>2
    <3> QED BY <3>1 DEF Distinct
  <2>3. ASSUME NEW t \in Before(list, j) PROVE \E s \in 1..(j - 1) : f[s] = t
    BY <2>3 DEF Before
  <2> QED BY <2>1, <2>2, <2>3, Fun_IsBij
<1>3. IsFiniteSet(1..(j - 1)) /\ Cardinality(1..(j - 1)) = j - 1
  <2>1. j - 1 \in Int /\ 1 <= j
    BY <1>1
  <2>2. /\ IsFiniteSet(1..(j - 1))
        /\ Cardinality(1..(j - 1)) = IF 1 > j - 1 THEN 0 ELSE (j - 1) - 1 + 1
    BY <2>1, FS_Interval
  <2> QED BY <2>2, <1>1
<1> HIDE DEF f
<1>4. ExistsBijection(1..(j - 1), Before(list, j))
  BY <1>2 DEF ExistsBijection
<1> QED BY <1>3, <1>4, FS_Bijection

\* What registration lets into the list.
Admitted(m) == Host!Refusal(Guest[m]) = "none" /\ Guest[m].abi = Host!AbiVersion

\* Every module used is on record; of those in the list, the modules used
\* since are the ones in front; of those that left it, a full list of them.
ListInv ==
  /\ modules \in Seq(Modules) /\ Len(modules) <= Capacity /\ Distinct(modules)
  /\ since = [m \in DOMAIN since |-> since[m]]
  /\ \A j \in 1..Len(modules) :
       /\ modules[j] \in DOMAIN since /\ Admitted(modules[j])
       /\ since[modules[j]] = Before(modules, j)
  /\ \A m \in DOMAIN since :
       (\A j \in 1..Len(modules) : modules[j] # m) =>
         IsFiniteSet(since[m]) /\ Cardinality(since[m]) >= Capacity

\* The module goes to the front; of the others the first ones stay, all of
\* them unless the list is full.
Moved(m, w, n, new) ==
  /\ new \in Seq(Modules) /\ n \in Nat /\ n <= Len(w) /\ Len(new) = n + 1
  /\ n <= Capacity - 1 /\ (n = Len(w) \/ n = Capacity - 1)
  /\ new[1] = m /\ \A j \in 1..n : new[j + 1] = w[j]

LEMMA MovedBefore ==
  ASSUME NEW m, NEW w \in Seq(Modules), NEW n, NEW new, Moved(m, w, n, new), NEW k \in 1..n
  PROVE  Before(new, k + 1) = {m} \cup Before(w, k)
<1>1. k \in Nat /\ n \in Nat /\ 1 <= k /\ k <= n /\ (k + 1) - 1 = k
  BY DEF Moved
<1>2. ASSUME NEW i \in 1..k PROVE new[i] \in {m} \cup Before(w, k)
  <2>1. CASE i = 1
    BY <2>1 DEF Moved
  <2>2. CASE i # 1
    <3>1. i - 1 \in 1..n /\ i - 1 \in 1..(k - 1) /\ (i - 1) + 1 = i
      BY <1>1, <2>2
    <3>2. new[i] = w[i - 1]
      BY <3>1 DEF Moved
    <3> QED BY <3>1, <3>2 DEF Before
  <2> QED BY <2>1, <2>2
<1>3. m \in Before(new, k + 1)
  BY <1>1 DEF Moved, Before
<1>4. ASSUME NEW i \in 1..(k - 1) PROVE w[i] \in Before(new, k + 1)
  <2>1. i \in 1..n /\ i + 1 \in 1..((k + 1) - 1)
    BY <1>1
  <2>2. w[i] = new[i + 1]
    BY <2>1 DEF Moved
  <2> QED BY <2>1, <2>2 DEF Before
<1>5. Before(new, k + 1) = {new[i] : i \in 1..k}
  BY <1>1 DEF Before
<1> QED BY <1>2, <1>3, <1>4, <1>5 DEF Before

LEMMA MovedKeeps ==
  ASSUME ListInv, NEW m \in Modules, Admitted(m), NEW w, Left(modules, m, w),
         NEW n, Moved(m, w, n, modules'),
         since' = [other \in DOMAIN since \cup {m} |-> IF other = m THEN {} ELSE since[other] \cup {m}]
  PROVE  ListInv'
<1> DEFINE new == modules'
<1>1. /\ modules \in Seq(Modules) /\ Len(modules) \in Nat /\ Len(modules) <= Capacity /\ Distinct(modules)
      /\ w \in Seq(Modules) /\ Len(w) \in Nat /\ n \in Nat /\ n <= Len(w)
      /\ new \in Seq(Modules) /\ Len(new) = n + 1 /\ Capacity \in Nat \ {0} /\ n <= Capacity - 1
  BY HostAssumption DEF ListInv, Moved, Left, Host!HostAssumption
<1>2. /\ DOMAIN since' = DOMAIN since \cup {m}
      /\ since' = [x \in DOMAIN since' |-> since'[x]]
      /\ since'[m] = {}
      /\ \A x \in DOMAIN since : x # m => since'[x] = since[x] \cup {m}
  OBVIOUS
<1>3. ASSUME NEW k \in 1..n
      PROVE  /\ new[k + 1] # m /\ new[k + 1] \in DOMAIN since /\ Admitted(new[k + 1])
             /\ since'[new[k + 1]] = Before(new, k + 1)
  <2>1. k \in 1..Len(w) /\ new[k + 1] = w[k]
    BY <1>1 DEF Moved
  <2>2. w[k] # m
    BY <2>1 DEF Left
  <2>3. PICK q \in 1..Len(modules) : w[k] = modules[q] /\ {m} \cup Before(w, k) = {m} \cup Before(modules, q)
    BY <2>1 DEF Left
  <2>4. modules[q] \in DOMAIN since /\ Admitted(modules[q]) /\ since[modules[q]] = Before(modules, q)
    BY DEF ListInv
  <2>5. since'[w[k]] = {m} \cup Before(modules, q)
    BY <1>2, <2>2, <2>3, <2>4
  <2>6. Before(new, k + 1) = {m} \cup Before(w, k)
    BY <1>1, MovedBefore
  <2> QED BY <2>1, <2>2, <2>3, <2>4, <2>5, <2>6
<1>4. ASSUME NEW j \in 1..Len(new)
      PROVE  new[j] \in DOMAIN since' /\ Admitted(new[j]) /\ since'[new[j]] = Before(new, j)
  <2>1. CASE j = 1
    <3>1. new[1] = m
      BY DEF Moved
    <3>2. Before(new, 1) = {}
      BY DEF Before
    <3> QED BY <1>2, <2>1, <3>1, <3>2
  <2>2. CASE j # 1
    <3>1. j - 1 \in 1..n /\ (j - 1) + 1 = j
      BY <1>1, <2>2
    <3> QED BY <1>2, <1>3, <3>1
  <2> QED BY <2>1, <2>2
<1>5. Distinct(new)
  <2> SUFFICES ASSUME NEW i \in 1..Len(new), NEW j \in 1..Len(new), new[i] = new[j] PROVE i = j
    BY DEF Distinct
  <2>1. new[1] = m /\ \A k \in 1..n : new[k + 1] = w[k] /\ new[k + 1] # m
    BY <1>3 DEF Moved
  <2>2. CASE i = 1 \/ j = 1
    <3>1. ASSUME NEW k \in 1..Len(new), k # 1 PROVE new[k] # m
      <4>1. k - 1 \in 1..n /\ (k - 1) + 1 = k
        BY <1>1, <3>1
      <4> QED BY <2>1, <4>1
    <3> QED BY <2>1, <2>2, <3>1
  <2>3. CASE i # 1 /\ j # 1
    <3>1. /\ i - 1 \in 1..n /\ (i - 1) + 1 = i /\ i - 1 \in 1..Len(w)
          /\ j - 1 \in 1..n /\ (j - 1) + 1 = j /\ j - 1 \in 1..Len(w)
      BY <1>1, <2>3
    <3>2. w[i - 1] = w[j - 1]
      BY <2>1, <3>1
    <3>3. i - 1 = j - 1
      BY <3>1, <3>2 DEF Left, Distinct
    <3> QED BY <3>1, <3>3
  <2> QED BY <2>2, <2>3
<1>6. ASSUME NEW x \in DOMAIN since', \A j \in 1..Len(new) : new[j] # x
      PROVE  IsFiniteSet(since'[x]) /\ Cardinality(since'[x]) >= Capacity
  <2>1. x # m /\ x \in DOMAIN since /\ since'[x] = since[x] \cup {m}
    <3>1. 1 \in 1..Len(new) /\ new[1] = m
      BY <1>1 DEF Moved
    <3> QED BY <1>2, <1>6, <3>1
  <2>2. CASE \A j \in 1..Len(modules) : modules[j] # x
    <3>1. IsFiniteSet(since[x]) /\ Cardinality(since[x]) >= Capacity
      BY <2>1, <2>2 DEF ListInv
    <3>2. /\ IsFiniteSet(since[x] \cup {m})
          /\ Cardinality(since[x] \cup {m}) = IF m \in since[x] THEN Cardinality(since[x]) ELSE Cardinality(since[x]) + 1
      BY <3>1, FS_AddElement
    <3>3. Cardinality(since[x]) \in Nat
      BY <3>1, FS_CardinalityType
    <3> QED BY <1>1, <2>1, <3>1, <3>2, <3>3
  <2>3. CASE \E q \in 1..Len(modules) : modules[q] = x
    <3>1. PICK j \in 1..Len(w) : w[j] = x
      BY <2>1, <2>3 DEF Left
    <3>2. ~(j <= n)
      <4> SUFFICES ASSUME j <= n PROVE FALSE
        OBVIOUS
      <4>1. j \in 1..n /\ j + 1 \in 1..Len(new)
        BY <1>1
      <4>2. new[j + 1] = x
        BY <3>1, <4>1 DEF Moved
      <4> QED BY <1>6, <4>1, <4>2
    <3>3. Len(w) >= Capacity
      <4>1. n = Len(w) \/ n = Capacity - 1
        BY DEF Moved
      <4> QED BY <1>1, <3>2, <4>1
    <3>4. w = modules /\ m \notin ToSet(modules)
      <4>1. m \in ToSet(modules) => Len(w) = Len(modules) - 1
        BY DEF Left
      <4>2. m \notin ToSet(modules) => w = modules
        BY DEF Left
      <4> QED BY <1>1, <3>3, <4>1, <4>2
    <3>5. j = Capacity /\ j \in 1..Len(modules)
      <4>1. n = Capacity - 1
        BY <1>1, <3>2 DEF Moved
      <4> QED BY <1>1, <3>2, <3>4, <4>1
    <3>6. since[x] = Before(modules, j)
      BY <3>1, <3>4, <3>5 DEF ListInv
    <3>7. IsFiniteSet(since[x]) /\ Cardinality(since[x]) = j - 1
      BY <1>1, <3>5, <3>6, BeforeCounts
    <3>8. m \notin since[x]
      <4>1. \A i \in 1..Len(modules) : modules[i] # m
        BY <3>4, <1>1 DEF ToSet
      <4> QED BY <1>1, <3>5, <3>6, <4>1 DEF Before
    <3>9. IsFiniteSet(since[x] \cup {m}) /\ Cardinality(since[x] \cup {m}) = (j - 1) + 1
      BY <3>7, <3>8, FS_AddElement
    <3> QED BY <1>1, <2>1, <3>5, <3>9
  <2> QED BY <2>2, <2>3
<1>7. new \in Seq(Modules) /\ Len(new) <= Capacity
  BY <1>1
<1> QED BY <1>2, <1>4, <1>5, <1>6, <1>7 DEF ListInv, Before

\* A module in front of the first n of a list.
LEMMA InFront ==
  ASSUME NEW m \in Modules, NEW s \in Seq(Modules)
  PROVE  /\ <<m>> \o s \in Seq(Modules) /\ Len(<<m>> \o s) = Len(s) + 1
         /\ (<<m>> \o s)[1] = m /\ \A j \in 1..Len(s) : (<<m>> \o s)[j + 1] = s[j]
<1>1. <<m>> \in Seq(Modules) /\ Len(<<m>>) = 1 /\ <<m>>[1] = m
  OBVIOUS
<1> DEFINE one == <<m>>
<1> HIDE DEF one
<1>2. /\ one \o s \in Seq(Modules) /\ Len(one \o s) = Len(one) + Len(s)
      /\ \A i \in 1..(Len(one) + Len(s)) : (one \o s)[i] = IF i <= Len(one) THEN one[i] ELSE s[i - Len(one)]
  BY <1>1, ConcatProperties DEF one
<1>3. one \in Seq(Modules) /\ Len(one) = 1 /\ one[1] = m /\ Len(s) \in Nat
  BY <1>1 DEF one
<1>4. (one \o s)[1] = m
  <2>1. 1 \in 1..(Len(one) + Len(s)) /\ 1 <= Len(one)
    BY <1>3
  <2> QED BY <1>2, <1>3, <2>1
<1>5. ASSUME NEW j \in 1..Len(s) PROVE (one \o s)[j + 1] = s[j]
  <2>1. j + 1 \in 1..(Len(one) + Len(s)) /\ ~(j + 1 <= Len(one)) /\ (j + 1) - Len(one) = j
    BY <1>3
  <2> QED BY <1>2, <2>1
<1>6. Len(one \o s) = Len(s) + 1
  BY <1>2, <1>3
<1> QED BY <1>2, <1>4, <1>5, <1>6 DEF one

LEMMA UsedIs ==
  ASSUME NEW m, Host!Used(m)
  PROVE  since' = [other \in DOMAIN since \cup {m} |-> IF other = m THEN {} ELSE since[other] \cup {m}]
  BY DEF Host!Used

\* A lookup keeps the list in order.
LEMMA LookupKeeps ==
  ASSUME ListInv, NEW m \in Modules, Host!Lookup(m)
  PROVE  ListInv'
<1>1. CASE m \in Host!ToSet(modules)
  <2> DEFINE w == Host!Without(modules, m)
  <2>1. Left(modules, m, w)
    BY WithoutLeaves DEF ListInv
  <2>2. modules' = <<m>> \o w /\ Host!Used(m)
    BY <1>1 DEF Host!Lookup, Host!LookedUp
  <2> HIDE DEF w
  <2>3. m \in ToSet(modules)
    BY <1>1 DEF Host!ToSet, ToSet
  <2>4. modules \in Seq(Modules) /\ Len(modules) \in Nat /\ Len(modules) <= Capacity
    BY DEF ListInv
  <2>5. PICK q \in 1..Len(modules) : modules[q] = m
    BY <2>3, <2>4 DEF ToSet
  <2>6. Admitted(m)
    BY <2>5 DEF ListInv
  <2>7. w \in Seq(Modules) /\ Len(w) \in Nat /\ Len(w) = Len(modules) - 1
    BY <2>1, <2>3 DEF Left
  <2>8. Moved(m, w, Len(w), modules')
    <3>1. Capacity \in Nat /\ Len(w) <= Capacity - 1
      BY <2>4, <2>7, HostAssumption DEF Host!HostAssumption
    <3> QED BY <2>2, <2>7, <3>1, InFront DEF Moved
  <2> QED BY <2>1, <2>2, <2>6, <2>8, MovedKeeps, UsedIs
<1>2. CASE m \notin Host!ToSet(modules)
  <2>1. modules' = modules /\ since' = since
    BY <1>2 DEF Host!Lookup, Host!LookedUp
  <2> QED BY <2>1 DEF ListInv
<1> QED BY <1>1, <1>2

\* A module that was let in enters the list, and the last one may leave it.
LEMMA CachedKeeps ==
  ASSUME ListInv, NEW m \in Modules, Admitted(m), modules' = Host!Cached(modules, m), Host!Used(m)
  PROVE  ListInv'
<1> DEFINE w == Host!Without(modules, m)
           n == Host!Min({Len(w), Capacity - 1})
<1>1. Left(modules, m, w)
  BY WithoutLeaves DEF ListInv
<1>2. modules' = <<m>> \o SubSeq(w, 1, n)
  BY DEF Host!Cached
<1> HIDE DEF w
<1>3. w \in Seq(Modules) /\ Len(w) \in Nat
  BY <1>1 DEF Left
<1>4. n \in Nat /\ n <= Len(w) /\ n <= Capacity - 1 /\ (n = Len(w) \/ n = Capacity - 1)
  <2>1. Capacity - 1 \in Nat
    BY HostAssumption DEF Host!HostAssumption
  <2> DEFINE S == {Len(w), Capacity - 1}
  <2>2. \E x \in S : \A y \in S : x <= y
    <3>1. CASE Len(w) <= Capacity - 1
      BY <1>3, <2>1, <3>1
    <3>2. CASE ~(Len(w) <= Capacity - 1)
      BY <1>3, <2>1, <3>2
    <3> QED BY <3>1, <3>2
  <2>3. n = CHOOSE x \in S : \A y \in S : x <= y
    BY DEF Host!Min
  <2>4. n \in S /\ \A y \in S : n <= y
    BY <2>2, <2>3
  <2> QED BY <1>3, <2>1, <2>4
<1> HIDE DEF n
<1>5. SubSeq(w, 1, n) \in Seq(Modules) /\ Len(SubSeq(w, 1, n)) = n /\ \A j \in 1..n : SubSeq(w, 1, n)[j] = w[j]
  <2>1. \A i \in 1..n : w[i] \in Modules
    BY <1>3, <1>4
  <2> DEFINE s == SubSeq(w, 1, n)
  <2>2. s \in Seq(Modules) /\ Len(s) = (IF 1 <= n THEN n - 1 + 1 ELSE 0) /\ \A i \in 1..(n - 1 + 1) : s[i] = w[1 + i - 1]
    BY <1>4, <2>1, SubSeqProperties
  <2> HIDE DEF s
  <2>3. \A i \in 1..n : s[i] = w[i]
    <3>1. n - 1 + 1 = n
      BY <1>4
    <3>2. \A i \in 1..n : 1 + i - 1 = i
      OBVIOUS
    <3> QED BY <2>2, <3>1, <3>2
  <2>4. Len(s) = n
    BY <1>4, <2>2
  <2> QED BY <2>2, <2>3, <2>4 DEF s
<1>6. Moved(m, w, n, modules')
  BY <1>2, <1>4, <1>5, InFront DEF Moved
<1> QED BY <1>1, <1>6, MovedKeeps, UsedIs

LEMMA HostCounts == \A S : Host!IsFiniteSet(S) = IsFiniteSet(S) /\ Host!Cardinality(S) = Cardinality(S)
<1>1. \A S : Host!IsFiniteSet(S) = IsFiniteSet(S)
  BY Zenon DEF Host!IsFiniteSet, IsFiniteSet
<1>2. \A S : Host!Cardinality(S) = Cardinality(S)
  BY Zenon DEF Host!Cardinality, Cardinality
<1> QED BY <1>1, <1>2

\* The list as the invariant has it is the list of the most recently used.
LEMMA ListIsRecentlyUsed == ListInv => Host!RecentlyUsed
<1> SUFFICES ASSUME ListInv PROVE Host!RecentlyUsed
  OBVIOUS
<1>1. /\ modules \in Seq(Modules) /\ Distinct(modules) /\ Len(modules) \in Nat /\ Len(modules) <= Capacity
      /\ DOMAIN modules = 1..Len(modules) /\ Capacity \in Nat \ {0}
  BY HostAssumption DEF ListInv, Host!HostAssumption
<1>2. ASSUME NEW j \in 1..Len(modules)
      PROVE  /\ modules[j] \in DOMAIN since /\ Admitted(modules[j])
             /\ since[modules[j]] = Before(modules, j) /\ Cardinality(since[modules[j]]) < Capacity
  <2>1. Cardinality(Before(modules, j)) = j - 1
    BY <1>1, BeforeCounts
  <2> QED BY <1>1, <2>1 DEF ListInv
<1>3. ASSUME NEW m \in DOMAIN since, Cardinality(since[m]) < Capacity
      PROVE  \E j \in 1..Len(modules) : modules[j] = m
  <2> SUFFICES ASSUME \A j \in 1..Len(modules) : modules[j] # m PROVE FALSE
    OBVIOUS
  <2>1. IsFiniteSet(since[m]) /\ Cardinality(since[m]) >= Capacity
    BY DEF ListInv
  <2>2. Cardinality(since[m]) \in Nat
    BY <2>1, FS_CardinalityType
  <2> QED BY <1>1, <1>3, <2>1, <2>2
<1>4. Host!ToSet(modules) = {m \in DOMAIN since : Cardinality(since[m]) < Capacity}
  BY <1>1, <1>2, <1>3 DEF Host!ToSet
<1>5. Host!IsInjective(modules)
  BY <1>1 DEF Host!IsInjective, Distinct
<1>6. ASSUME NEW i \in DOMAIN modules, NEW j \in DOMAIN modules, i < j PROVE modules[i] \in since[modules[j]]
  <2>1. i \in 1..(j - 1) /\ j \in 1..Len(modules)
    BY <1>1, <1>6
  <2> QED BY <1>2, <2>1 DEF Before
<1>7. \A m \in Host!ToSet(modules) : Host!Refusal(Guest[m]) = "none" /\ Guest[m].abi = Host!AbiVersion
  BY <1>1, <1>2 DEF Host!ToSet, Admitted
<1> QED BY <1>4, <1>5, <1>6, <1>7, HostCounts DEF Host!RecentlyUsed

------------------------------------------------------------------------------
(* What a call is *)

\* A call keeps its module, arity, planes and budget.
CallOf(t, pc, work, fuel, left, slot, then, outcome) ==
  [pc |-> pc, module |-> t.module, arity |-> t.arity, planes |-> t.planes, budget |-> t.budget,
   work |-> work, fuel |-> fuel, left |-> left, slot |-> slot, then |-> then, outcome |-> outcome]

Shaped(t) == t = CallOf(t, t.pc, t.work, t.fuel, t.left, t.slot, t.then, t.outcome)

Same(t, u) ==
  Shaped(u) /\ u.module = t.module /\ u.arity = t.arity /\ u.planes = t.planes /\ u.budget = t.budget

CostOf(t, function) == Guest[t.module].steps[function]
Traps(t) == Guest[t.module].traps

\* What a tile may be told (`TilesAnswerAlike', of one call).
Permitted(t, fuel, outcome) ==
  /\ outcome = "output" /\ t.budget # Endless => t.budget - fuel = Host!FuelOf(t.module, 3)
  /\ \/ outcome = Host!Expected(t, t.budget)
     \/ outcome \in {"UnknownModule", "EpochDeadline"}
     \/ outcome = "MemoryLimit" /\ Cardinality(Callers) > PoolSlots

\* The fuel of a tile in the n-th function of its guest: what its budget
\* leaves of the functions before, less the steps taken.
Metered(t, function, n) ==
  /\ t.budget = Endless => t.fuel = Endless
  /\ t.budget # Endless => t.fuel \in Nat /\ Host!FuelOf(t.module, n - 1) <= t.budget
  /\ CostOf(t, function) = Endless => t.work = Endless
  /\ CostOf(t, function) # Endless => t.work \in Nat
  /\ t.budget # Endless /\ CostOf(t, function) # Endless =>
       t.fuel + Host!FuelOf(t.module, n) = t.budget + t.work

PastStart(t) == CostOf(t, "start") # Endless /\ "start" \notin Traps(t)
PastAlloc(t) ==
  PastStart(t) /\ CostOf(t, "alloc") # Endless /\ "alloc" \notin Traps(t)
  /\ Guest[t.module].alloc \notin {"null", "beyond"}

TileInv(t) ==
  /\ t.pc \in {"lookup", "instance", "start", "alloc", "run", "ended"} /\ t.budget \in Budgets
  /\ t.pc = "start" => t.then = "alloc" /\ Metered(t, "start", 1)
  /\ t.pc = "alloc" => PastStart(t) /\ Metered(t, "alloc", 2)
  /\ t.pc = "run" => PastAlloc(t) /\ Metered(t, "run", 3)
  /\ t.pc = "ended" => Permitted(t, t.fuel, t.outcome)

WithoutStore == {"compile", "validate", "arity", "lookup", "instance", "ended"}
WithStore == {"start", "abi", "drop", "planes", "alloc", "run"}

Underway(t) ==
  /\ Shaped(t) /\ t.module \in Modules
  /\ t.pc \in WithoutStore \cup WithStore
  /\ t.pc \in WithoutStore => t.slot = FALSE
  /\ t.pc = "start" => t.then \in {"abi", "planes", "alloc"}
  /\ t.pc = "abi" \/ (t.pc = "start" /\ t.then = "abi") => Host!Refusal(Guest[t.module]) = "none"
  /\ t.planes # 0 => TileInv(t)

CallInv(t) == t = Host!Idle \/ Underway(t)

HostInv ==
  /\ ListInv
  /\ \A stage \in pinned : stage.module \in Modules
  /\ call = [c \in Callers |-> call[c]]
  /\ \A c \in Callers : CallInv(call[c])

LEMMA Goes ==
  ASSUME HostInv, NEW c \in Callers, NEW t, CallInv(t), Host!Goes(c, t)
  PROVE  HostInv'
<1>1. call' = [call EXCEPT ![c] = t] /\ modules' = modules /\ pinned' = pinned /\ since' = since
  BY DEF Host!Goes
<1>2. ListInv'
  BY <1>1 DEF HostInv, ListInv
<1>3. call' = [d \in Callers |-> call'[d]] /\ \A d \in Callers : CallInv(call'[d])
  BY <1>1 DEF HostInv
<1> QED BY <1>1, <1>2, <1>3 DEF HostInv

LEMMA UnderIsNotIdle == ASSUME NEW t, CallInv(t), t.pc # "idle" PROVE Underway(t)
  BY DEF CallInv, Host!Idle

LEMMA FieldsOfShaped ==
  ASSUME NEW t, NEW u, NEW pc, NEW work, NEW fuel, NEW left, NEW slot, NEW then, NEW outcome,
         u = CallOf(t, pc, work, fuel, left, slot, then, outcome)
  PROVE  Same(t, u) /\ u.pc = pc /\ u.work = work /\ u.fuel = fuel /\ u.left = left /\ u.slot = slot
         /\ u.then = then /\ u.outcome = outcome
  BY DEF CallOf, Same, Shaped

LEMMA DroppedIs ==
  ASSUME NEW t, Shaped(t)
  PROVE  Host!Dropped(t) = CallOf(t, t.pc, t.work, t.fuel, 0, FALSE, "none", t.outcome)
<1> DEFINE no == FALSE
<1>1. Host!Dropped(t) = [t EXCEPT !.slot = no, !.left = 0, !.then = "none"]
  BY DEF Host!Dropped
<1> HIDE DEF no
<1>2. Host!Dropped(t) = CallOf(t, t.pc, t.work, t.fuel, 0, no, "none", t.outcome)
  BY <1>1 DEF Shaped, CallOf
<1> QED BY <1>2 DEF no

LEMMA EnteringIs ==
  ASSUME NEW t, Shaped(t), NEW function
  PROVE  Host!Entering(t, function) = CallOf(t, function, CostOf(t, function), t.fuel, t.left, t.slot, t.then, t.outcome)
<1> DEFINE work == Guest[t.module].steps[function]
<1>1. Host!Entering(t, function) = [t EXCEPT !.pc = function, !.work = work]
  BY DEF Host!Entering
<1>2. CostOf(t, function) = work
  BY DEF CostOf
<1> HIDE DEF work
<1> QED BY <1>1, <1>2 DEF Shaped, CallOf

LEMMA EndedIs ==
  ASSUME NEW t, Shaped(t), NEW outcome
  PROVE  Host!Ended(t, outcome) =
           CallOf(t, "ended", 0, IF outcome = "output" THEN t.fuel ELSE 0, 0, FALSE, "none", outcome)
<1> DEFINE d == Host!Dropped(t)
           fuel == IF outcome = "output" THEN d.fuel ELSE 0
<1>1. Host!Ended(t, outcome) = [d EXCEPT !.pc = "ended", !.outcome = outcome, !.work = 0, !.fuel = fuel]
  BY DEF Host!Ended
<1>2. d = CallOf(t, t.pc, t.work, t.fuel, 0, FALSE, "none", t.outcome)
  BY DroppedIs
<1>3. fuel = IF outcome = "output" THEN t.fuel ELSE 0
  BY <1>2 DEF CallOf
<1> HIDE DEF d, fuel
<1> QED BY <1>1, <1>2, <1>3 DEF CallOf

------------------------------------------------------------------------------
(* Fuel *)

LEMMA FuelIs ==
  ASSUME NEW m
  PROVE  LET a == Guest[m].steps["start"]
             b == Guest[m].steps["alloc"]
             d == Guest[m].steps["run"]
         IN /\ Host!FuelOf(m, 0) = 0
            /\ a \in Nat => Host!FuelOf(m, 1) = a
            /\ a \in Nat /\ b \in Nat => Host!FuelOf(m, 2) = a + b
            /\ a \in Nat /\ b \in Nat /\ d \in Nat => Host!FuelOf(m, 3) = a + b + d
<1> DEFINE a == Guest[m].steps["start"]
           b == Guest[m].steps["alloc"]
           d == Guest[m].steps["run"]
<1>1. ASSUME NEW n \in 0..3
      PROVE  Host!FuelOf(m, n) = (IF 1 > n THEN 0 ELSE a) + (IF 2 > n THEN 0 ELSE b) + (IF 3 > n THEN 0 ELSE d)
  BY DEF Host!FuelOf, Host!TileCalls
<1> HIDE DEF a, b, d
<1>2. Host!FuelOf(m, 0) = 0
  BY <1>1
<1>3. a \in Nat => Host!FuelOf(m, 1) = a
  BY <1>1
<1>4. a \in Nat /\ b \in Nat => Host!FuelOf(m, 2) = a + b
  BY <1>1
<1>5. a \in Nat /\ b \in Nat /\ d \in Nat => Host!FuelOf(m, 3) = a + b + d
  BY <1>1
<1> QED BY <1>2, <1>3, <1>4, <1>5 DEF a, b, d

LEMMA AffordsIs ==
  ASSUME NEW m, NEW budget
  PROVE  LET a == Guest[m].steps["start"]
             b == Guest[m].steps["alloc"]
             d == Guest[m].steps["run"]
         IN /\ Host!Affords(m, 1, budget) <=>
                 (budget = Endless \/ (a # Endless /\ Host!FuelOf(m, 1) <= budget))
            /\ Host!Affords(m, 2, budget) <=>
                 (budget = Endless \/ (a # Endless /\ b # Endless /\ Host!FuelOf(m, 2) <= budget))
            /\ Host!Affords(m, 3, budget) <=>
                 (budget = Endless \/ (a # Endless /\ b # Endless /\ d # Endless /\ Host!FuelOf(m, 3) <= budget))
<1>1. \A i \in 1..1 : i = 1
  OBVIOUS
<1>2. \A i \in 1..2 : i = 1 \/ i = 2
  OBVIOUS
<1>3. \A i \in 1..3 : i = 1 \/ i = 2 \/ i = 3
  OBVIOUS
<1>4. Host!TileCalls[1] = "start" /\ Host!TileCalls[2] = "alloc" /\ Host!TileCalls[3] = "run"
  BY DEF Host!TileCalls
<1> HIDE DEF Host!TileCalls, Host!FuelOf
<1>5. 1 \in 1..1 /\ 1 \in 1..2 /\ 2 \in 1..2 /\ 1 \in 1..3 /\ 2 \in 1..3 /\ 3 \in 1..3
  OBVIOUS
<1> QED BY <1>1, <1>2, <1>3, <1>4, <1>5 DEF Host!Affords

LEMMA CostsAre ==
  ASSUME NEW t, t.module \in Modules
  PROVE  /\ \A f \in {"start", "abi", "planes", "alloc", "run"} : CostOf(t, f) \in Nat \cup {Endless}
         /\ Endless \notin Nat
  BY HostAssumption DEF Host!HostAssumption, CostOf

LEMMA BudgetsAre == \A b \in Budgets : b = Endless \/ (b \in Nat /\ b # Endless)
  BY HostAssumption DEF Host!HostAssumption

\* A function that is done took what it costs, and its budget affords it.
LEMMA FunctionDone ==
  ASSUME NEW t, t.module \in Modules, t.budget \in Budgets, t.work = 0
  PROVE  /\ Metered(t, "start", 1) =>
              CostOf(t, "start") # Endless /\ Host!Affords(t.module, 1, t.budget)
         /\ PastStart(t) /\ Metered(t, "alloc", 2) =>
              CostOf(t, "alloc") # Endless /\ Host!Affords(t.module, 1, t.budget) /\ Host!Affords(t.module, 2, t.budget)
         /\ PastAlloc(t) /\ Metered(t, "run", 3) =>
              /\ CostOf(t, "run") # Endless /\ Host!Affords(t.module, 1, t.budget)
              /\ Host!Affords(t.module, 2, t.budget) /\ Host!Affords(t.module, 3, t.budget)
<1> DEFINE a == Guest[t.module].steps["start"]
           b == Guest[t.module].steps["alloc"]
           d == Guest[t.module].steps["run"]
           B == t.budget
           F(n) == Host!FuelOf(t.module, n)
<1>1. a \in Nat \cup {Endless} /\ b \in Nat \cup {Endless} /\ d \in Nat \cup {Endless} /\ Endless \notin Nat /\ Endless # 0
  BY CostsAre DEF CostOf
<1>2. CostOf(t, "start") = a /\ CostOf(t, "alloc") = b /\ CostOf(t, "run") = d
  BY DEF CostOf
<1>3. B = Endless \/ (B \in Nat /\ B # Endless)
  BY BudgetsAre
<1>4. /\ F(0) = 0
      /\ a \in Nat => F(1) = a
      /\ a \in Nat /\ b \in Nat => F(2) = a + b
      /\ a \in Nat /\ b \in Nat /\ d \in Nat => F(3) = a + b + d
  BY FuelIs
<1>5. /\ Host!Affords(t.module, 1, B) <=> (B = Endless \/ (a # Endless /\ F(1) <= B))
      /\ Host!Affords(t.module, 2, B) <=> (B = Endless \/ (a # Endless /\ b # Endless /\ F(2) <= B))
      /\ Host!Affords(t.module, 3, B) <=> (B = Endless \/ (a # Endless /\ b # Endless /\ d # Endless /\ F(3) <= B))
  BY AffordsIs
<1>6. 1 - 1 = 0 /\ 2 - 1 = 1 /\ 3 - 1 = 2
  OBVIOUS
<1>7. ASSUME Metered(t, "start", 1) PROVE a # Endless /\ (B = Endless \/ F(1) <= B)
  <2>1. a # Endless
    BY <1>1, <1>2, <1>7 DEF Metered
  <2>2. B # Endless => t.fuel \in Nat /\ t.fuel + F(1) = B + 0
    BY <1>2, <1>7, <2>1 DEF Metered
  <2> HIDE DEF a, B, F
  <2> QED BY <1>1, <1>3, <1>4, <2>1, <2>2
<1>8. ASSUME PastStart(t), Metered(t, "alloc", 2) PROVE a # Endless /\ b # Endless /\ (B = Endless \/ (F(1) <= B /\ F(2) <= B))
  <2>1. a # Endless /\ b # Endless
    BY <1>1, <1>2, <1>8 DEF Metered, PastStart
  <2>2. B # Endless => t.fuel \in Nat /\ F(1) <= B /\ t.fuel + F(2) = B + 0
    BY <1>2, <1>6, <1>8, <2>1 DEF Metered
  <2> HIDE DEF a, b, B, F
  <2> QED BY <1>1, <1>3, <1>4, <2>1, <2>2
<1>9. ASSUME PastAlloc(t), Metered(t, "run", 3)
      PROVE  a # Endless /\ b # Endless /\ d # Endless /\ (B = Endless \/ (F(1) <= B /\ F(2) <= B /\ F(3) <= B))
  <2>1. a # Endless /\ b # Endless /\ d # Endless
    BY <1>1, <1>2, <1>9 DEF Metered, PastAlloc, PastStart
  <2>2. B # Endless => t.fuel \in Nat /\ F(2) <= B /\ t.fuel + F(3) = B + 0
    BY <1>2, <1>6, <1>9, <2>1 DEF Metered
  <2> HIDE DEF a, b, d, B, F
  <2> QED BY <1>1, <1>3, <1>4, <2>1, <2>2
<1> QED BY <1>2, <1>5, <1>7, <1>8, <1>9

\* A function that is stopped for want of fuel is more than the budget
\* affords, and the functions before it are not.
LEMMA FunctionStopped ==
  ASSUME NEW t, t.module \in Modules, t.budget \in Budgets, t.work # 0, t.fuel = 0
  PROVE  /\ Metered(t, "start", 1) => ~Host!Affords(t.module, 1, t.budget)
         /\ PastStart(t) /\ Metered(t, "alloc", 2) =>
              Host!Affords(t.module, 1, t.budget) /\ ~Host!Affords(t.module, 2, t.budget)
         /\ PastAlloc(t) /\ Metered(t, "run", 3) =>
              /\ Host!Affords(t.module, 1, t.budget) /\ Host!Affords(t.module, 2, t.budget)
              /\ ~Host!Affords(t.module, 3, t.budget)
<1> DEFINE a == Guest[t.module].steps["start"]
           b == Guest[t.module].steps["alloc"]
           d == Guest[t.module].steps["run"]
           B == t.budget
           w == t.work
           F(n) == Host!FuelOf(t.module, n)
<1>1. a \in Nat \cup {Endless} /\ b \in Nat \cup {Endless} /\ d \in Nat \cup {Endless} /\ Endless \notin Nat /\ Endless # 0
  BY CostsAre DEF CostOf
<1>2. CostOf(t, "start") = a /\ CostOf(t, "alloc") = b /\ CostOf(t, "run") = d
  BY DEF CostOf
<1>3. B = Endless \/ (B \in Nat /\ B # Endless)
  BY BudgetsAre
<1>4. /\ F(0) = 0
      /\ a \in Nat => F(1) = a
      /\ a \in Nat /\ b \in Nat => F(2) = a + b
      /\ a \in Nat /\ b \in Nat /\ d \in Nat => F(3) = a + b + d
  BY FuelIs
<1>5. /\ Host!Affords(t.module, 1, B) <=> (B = Endless \/ (a # Endless /\ F(1) <= B))
      /\ Host!Affords(t.module, 2, B) <=> (B = Endless \/ (a # Endless /\ b # Endless /\ F(2) <= B))
      /\ Host!Affords(t.module, 3, B) <=> (B = Endless \/ (a # Endless /\ b # Endless /\ d # Endless /\ F(3) <= B))
  BY AffordsIs
<1>6. 1 - 1 = 0 /\ 2 - 1 = 1 /\ 3 - 1 = 2
  OBVIOUS
<1>7. ASSUME Metered(t, "start", 1) PROVE B # Endless /\ (a = Endless \/ ~(F(1) <= B))
  <2>1. B # Endless /\ (a # Endless => w \in Nat /\ w # 0 /\ 0 + F(1) = B + w)
    BY <1>1, <1>2, <1>7 DEF Metered
  <2> HIDE DEF a, B, F, w
  <2> QED BY <1>1, <1>3, <1>4, <2>1
<1>8. ASSUME PastStart(t), Metered(t, "alloc", 2)
      PROVE  B # Endless /\ a # Endless /\ F(1) <= B /\ (b = Endless \/ ~(F(2) <= B))
  <2>1. /\ B # Endless /\ a # Endless /\ F(1) <= B
        /\ b # Endless => w \in Nat /\ w # 0 /\ 0 + F(2) = B + w
    BY <1>1, <1>2, <1>6, <1>8 DEF Metered, PastStart
  <2> HIDE DEF a, b, B, F, w
  <2> QED BY <1>1, <1>3, <1>4, <2>1
<1>9. ASSUME PastAlloc(t), Metered(t, "run", 3)
      PROVE  B # Endless /\ a # Endless /\ b # Endless /\ F(1) <= B /\ F(2) <= B /\ (d = Endless \/ ~(F(3) <= B))
  <2>1. /\ B # Endless /\ a # Endless /\ b # Endless /\ F(2) <= B
        /\ d # Endless => w \in Nat /\ w # 0 /\ 0 + F(3) = B + w
    BY <1>1, <1>2, <1>6, <1>9 DEF Metered, PastAlloc, PastStart
  <2> HIDE DEF a, b, d, B, F, w
  <2> QED BY <1>1, <1>3, <1>4, <2>1
<1> QED BY <1>5, <1>7, <1>8, <1>9

LEMMA FuelOfIsNat ==
  ASSUME NEW t, t.module \in Modules
  PROVE  /\ CostOf(t, "start") # Endless => Host!FuelOf(t.module, 1) \in Nat
         /\ PastStart(t) /\ CostOf(t, "alloc") # Endless => Host!FuelOf(t.module, 2) \in Nat
         /\ PastAlloc(t) /\ CostOf(t, "run") # Endless => Host!FuelOf(t.module, 3) \in Nat
  BY FuelIs, CostsAre DEF CostOf, PastStart, PastAlloc

\* The meter starts with the budget, ...
LEMMA MeterBegins ==
  ASSUME NEW t, t.module \in Modules, t.budget \in Budgets,
         NEW u, Same(t, u), u.fuel = t.budget, u.work = CostOf(t, "start")
  PROVE  Metered(u, "start", 1)
<1>1. CostOf(u, "start") = CostOf(t, "start") /\ u.module = t.module /\ u.budget = t.budget
  BY DEF Same, CostOf
<1>2. Host!FuelOf(t.module, 0) = 0 /\ (CostOf(t, "start") \in Nat => Host!FuelOf(t.module, 1) = CostOf(t, "start"))
  BY FuelIs DEF CostOf
<1>3. CostOf(t, "start") \in Nat \cup {Endless} /\ Endless \notin Nat /\ (t.budget = Endless \/ t.budget \in Nat)
  BY CostsAre, BudgetsAre
<1>4. 1 - 1 = 0
  OBVIOUS
<1> QED BY <1>1, <1>2, <1>3, <1>4 DEF Metered

\* ... counts each step, ...
LEMMA MeterSteps ==
  ASSUME NEW t, t.module \in Modules, t.budget \in Budgets, t.work # 0, t.fuel # 0,
         NEW u, Same(t, u), u.work = Host!Fewer(t.work), u.fuel = Host!Fewer(t.fuel),
         NEW f, NEW n \in {1, 2, 3}, CostOf(t, f) # Endless => Host!FuelOf(t.module, n) \in Nat,
         Metered(t, f, n)
  PROVE  Metered(u, f, n)
<1>1. CostOf(u, f) = CostOf(t, f) /\ u.module = t.module /\ u.budget = t.budget
  BY DEF Same, CostOf
<1>2. Endless \notin Nat /\ (t.budget = Endless \/ (t.budget \in Nat /\ t.budget # Endless))
  BY CostsAre, BudgetsAre
<1> DEFINE X == Host!FuelOf(t.module, n)
           Y == Host!FuelOf(t.module, n - 1)
           w == t.work
           g == t.fuel
           B == t.budget
<1>3. /\ B = Endless => g = Endless
      /\ B # Endless => g \in Nat /\ Y <= B
      /\ CostOf(t, f) = Endless => w = Endless
      /\ CostOf(t, f) # Endless => w \in Nat /\ X \in Nat
      /\ B # Endless /\ CostOf(t, f) # Endless => g + X = B + w
  BY DEF Metered
<1>4. u.work = (IF w = Endless THEN w ELSE w - 1) /\ u.fuel = (IF g = Endless THEN g ELSE g - 1)
  BY DEF Host!Fewer
<1>5. w # 0 /\ g # 0
  OBVIOUS
<1>6. /\ u.budget = Endless => u.fuel = Endless
      /\ u.budget # Endless => u.fuel \in Nat /\ Host!FuelOf(u.module, n - 1) <= u.budget
  <2> HIDE DEF w, g, X
  <2> QED BY <1>1, <1>2, <1>3, <1>4, <1>5
<1>7. /\ CostOf(u, f) = Endless => u.work = Endless
      /\ CostOf(u, f) # Endless => u.work \in Nat
  <2> HIDE DEF w, g, X, Y, B
  <2> QED BY <1>1, <1>2, <1>3, <1>4, <1>5
<1>8. ASSUME u.budget # Endless, CostOf(u, f) # Endless
      PROVE  u.fuel + Host!FuelOf(u.module, n) = u.budget + u.work
  <2>1. X = Host!FuelOf(u.module, n) /\ u.budget = B
    BY <1>1
  <2> HIDE DEF w, g, X, Y, B
  <2>2. g \in Nat /\ w \in Nat /\ X \in Nat /\ B \in Nat /\ g + X = B + w
    BY <1>1, <1>2, <1>3, <1>8, <2>1
  <2>3. u.fuel = g - 1 /\ u.work = w - 1
    BY <1>2, <1>4, <2>2
  <2> QED BY <2>1, <2>2, <2>3
<1> QED BY <1>6, <1>7, <1>8 DEF Metered

\* ... and goes on with the next function.
LEMMA MeterGoesOn ==
  ASSUME NEW t, t.module \in Modules, t.budget \in Budgets, t.work = 0,
         NEW u, Same(t, u), u.fuel = t.fuel
  PROVE  /\ Metered(t, "start", 1) /\ u.work = CostOf(t, "alloc") => Metered(u, "alloc", 2)
         /\ PastStart(t) /\ Metered(t, "alloc", 2) /\ u.work = CostOf(t, "run") => Metered(u, "run", 3)
<1>1. /\ CostOf(u, "alloc") = CostOf(t, "alloc") /\ CostOf(u, "run") = CostOf(t, "run")
      /\ u.module = t.module /\ u.budget = t.budget
  BY DEF Same, CostOf
<1> DEFINE a == CostOf(t, "start")
           b == CostOf(t, "alloc")
           d == CostOf(t, "run")
           B == t.budget
           F(n) == Host!FuelOf(t.module, n)
<1>2. a \in Nat \cup {Endless} /\ b \in Nat \cup {Endless} /\ d \in Nat \cup {Endless} /\ Endless \notin Nat /\ Endless # 0
  BY CostsAre
<1>3. B = Endless \/ (B \in Nat /\ B # Endless)
  BY BudgetsAre
<1>4. /\ a \in Nat => F(1) = a
      /\ a \in Nat /\ b \in Nat => F(2) = a + b
      /\ a \in Nat /\ b \in Nat /\ d \in Nat => F(3) = a + b + d
  BY FuelIs DEF CostOf
<1>5. 1 - 1 = 0 /\ 2 - 1 = 1 /\ 3 - 1 = 2
  OBVIOUS
<1>6. ASSUME Metered(t, "start", 1), u.work = b PROVE Metered(u, "alloc", 2)
  <2>1. /\ a # Endless /\ (B = Endless => t.fuel = Endless)
        /\ B # Endless => t.fuel \in Nat /\ t.fuel + F(1) = B + 0
    BY <1>2, <1>6 DEF Metered
  <2>2. /\ B = Endless => u.fuel = Endless
        /\ B # Endless => u.fuel \in Nat /\ F(1) <= B
        /\ b = Endless => u.work = Endless
        /\ b # Endless => u.work \in Nat
        /\ B # Endless /\ b # Endless => u.fuel + F(2) = B + u.work
    <3> HIDE DEF a, b, d, B, F
    <3> QED BY <1>2, <1>3, <1>4, <1>6, <2>1
  <2> QED BY <1>1, <1>5, <2>2 DEF Metered
<1>7. ASSUME PastStart(t), Metered(t, "alloc", 2), u.work = d PROVE Metered(u, "run", 3)
  <2>1. /\ a # Endless /\ b # Endless /\ (B = Endless => t.fuel = Endless)
        /\ B # Endless => t.fuel \in Nat /\ t.fuel + F(2) = B + 0
    BY <1>2, <1>7 DEF Metered, PastStart
  <2>2. /\ B = Endless => u.fuel = Endless
        /\ B # Endless => u.fuel \in Nat /\ F(2) <= B
        /\ d = Endless => u.work = Endless
        /\ d # Endless => u.work \in Nat
        /\ B # Endless /\ d # Endless => u.fuel + F(3) = B + u.work
    <3> HIDE DEF a, b, d, B, F
    <3> QED BY <1>2, <1>3, <1>4, <1>7, <2>1
  <2> QED BY <1>1, <1>5, <2>2 DEF Metered
<1> QED BY <1>6, <1>7

------------------------------------------------------------------------------
(* How a call ends *)

LEMMA SameExpected ==
  ASSUME NEW t, NEW u, Same(t, u), NEW budget
  PROVE  Host!Expected(u, budget) = Host!Expected(t, budget)
  BY DEF Same, Host!Expected

LEMMA Ends ==
  ASSUME NEW t, Underway(t), NEW outcome,
         t.planes # 0 => t.budget \in Budgets /\ Permitted(t, IF outcome = "output" THEN t.fuel ELSE 0, outcome)
  PROVE  CallInv(Host!Ended(t, outcome))
<1> DEFINE u == Host!Ended(t, outcome)
           no == FALSE
<1> HIDE DEF u, no
<1>1. u = CallOf(t, "ended", 0, IF outcome = "output" THEN t.fuel ELSE 0, 0, no, "none", outcome)
  BY EndedIs DEF Underway, u, no
<1>2. /\ Same(t, u) /\ u.pc = "ended" /\ u.slot = no /\ u.outcome = outcome
      /\ u.fuel = IF outcome = "output" THEN t.fuel ELSE 0
  BY <1>1, FieldsOfShaped
<1>3. Shaped(u) /\ u.module = t.module /\ u.planes = t.planes /\ u.budget = t.budget
  BY <1>2 DEF Same
<1>4. u.planes # 0 => TileInv(u)
  <2>1. Host!Expected(u, u.budget) = Host!Expected(t, t.budget)
    BY <1>2, <1>3, SameExpected
  <2> QED BY <1>2, <1>3, <2>1 DEF TileInv, Permitted
<1>5. Underway(u)
  BY <1>2, <1>3, <1>4 DEF Underway, WithoutStore, WithStore, no
<1> QED BY <1>5 DEF CallInv, u

\* A tile is stopped for want of fuel where its budget does not get it past.
LEMMA StoppedAsExpected ==
  ASSUME NEW t, t.module \in Modules, TileInv(t), t.pc \in {"start", "alloc", "run"}, t.work # 0, t.fuel = 0
  PROVE  Host!Expected(t, t.budget) = "FuelExhausted"
<1>1. t.budget \in Budgets
  BY DEF TileInv
<1>2. CASE t.pc = "start"
  BY <1>1, <1>2, FunctionStopped DEF TileInv, Host!Expected
<1>3. CASE t.pc = "alloc"
  BY <1>1, <1>3, FunctionStopped DEF TileInv, Host!Expected, PastStart, Traps
<1>4. CASE t.pc = "run"
  BY <1>1, <1>4, FunctionStopped DEF TileInv, Host!Expected, PastAlloc, PastStart, Traps
<1> QED BY <1>2, <1>3, <1>4

LEMMA TrapsAsExpected ==
  ASSUME NEW t, t.module \in Modules, TileInv(t), t.pc \in {"start", "alloc", "run"}, t.work = 0, t.pc \in Traps(t)
  PROVE  Host!Expected(t, t.budget) = IF t.pc = "start" THEN "MemoryLimit" ELSE "Trap"
<1>1. t.budget \in Budgets
  BY DEF TileInv
<1>2. CASE t.pc = "start"
  BY <1>1, <1>2, FunctionDone DEF TileInv, Host!Expected, Traps
<1>3. CASE t.pc = "alloc"
  BY <1>1, <1>3, FunctionDone DEF TileInv, Host!Expected, PastStart, Traps
<1>4. CASE t.pc = "run"
  BY <1>1, <1>4, FunctionDone DEF TileInv, Host!Expected, PastAlloc, PastStart, Traps
<1> QED BY <1>2, <1>3, <1>4

LEMMA RefusedAsExpected ==
  ASSUME NEW t, t.module \in Modules, TileInv(t), t.pc = "alloc", t.work = 0, "alloc" \notin Traps(t),
         Guest[t.module].alloc \in {"null", "beyond"}
  PROVE  Host!Expected(t, t.budget) = IF Guest[t.module].alloc = "null" THEN "MemoryLimit" ELSE "MalformedOutput"
<1>1. t.budget \in Budgets
  BY DEF TileInv
<1> QED BY <1>1, FunctionDone DEF TileInv, Host!Expected, PastStart, Traps

LEMMA DecodedAsExpected ==
  ASSUME NEW t, t.module \in Modules, TileInv(t), t.pc = "run", t.work = 0, "run" \notin Traps(t)
  PROVE  /\ Host!Decoded(t) = Host!Expected(t, t.budget)
         /\ t.budget # Endless => t.budget - t.fuel = Host!FuelOf(t.module, 3)
<1>1. t.budget \in Budgets /\ PastAlloc(t) /\ Metered(t, "run", 3)
  BY DEF TileInv
<1>2. Guest[t.module].run.v \in {"zero", "beyond", "garbled", "planes"}
  BY HostAssumption DEF Host!HostAssumption
<1>3. /\ Host!Affords(t.module, 1, t.budget) /\ Host!Affords(t.module, 2, t.budget)
      /\ Host!Affords(t.module, 3, t.budget) /\ CostOf(t, "run") # Endless
  BY <1>1, FunctionDone
<1>4. Host!Expected(t, t.budget) =
        IF Guest[t.module].run.v = "zero" THEN "GuestFailure"
        ELSE IF Guest[t.module].run.v # "planes" THEN "MalformedOutput"
        ELSE IF Guest[t.module].run.planes[t.arity] # t.planes THEN "OutputPlanes"
        ELSE "output"
  BY <1>1, <1>3 DEF Host!Expected, PastAlloc, PastStart, Traps
<1>5. Host!Decoded(t) = Host!Expected(t, t.budget)
  BY <1>2, <1>4 DEF Host!Decoded
<1>6. ASSUME t.budget # Endless PROVE t.budget - t.fuel = Host!FuelOf(t.module, 3)
  <2>1. Host!FuelOf(t.module, 3) \in Nat
    BY <1>1, <1>3, FuelOfIsNat
  <2>2. t.fuel \in Nat /\ t.fuel + Host!FuelOf(t.module, 3) = t.budget + 0 /\ t.budget \in Nat
    BY <1>1, <1>3, <1>6, BudgetsAre DEF Metered
  <2> QED BY <2>1, <2>2
<1> QED BY <1>5, <1>6

------------------------------------------------------------------------------
(* What the steps of a call do *)

LEMMA Called ==
  ASSUME HostInv, NEW c \in Callers, NEW t, CallInv(t), call' = [call EXCEPT ![c] = t],
         ListInv', \A stage \in pinned' : stage.module \in Modules
  PROVE  HostInv'
<1>1. call' = [d \in Callers |-> call'[d]] /\ \A d \in Callers : CallInv(call'[d])
  BY DEF HostInv
<1> QED BY <1>1 DEF HostInv

\* A call that is under way is at one of its steps.
LEMMA Busy ==
  ASSUME HostInv, NEW c \in Callers, call[c].pc # "idle"
  PROVE  Underway(call[c]) /\ (call[c].planes # 0 => TileInv(call[c]) /\ call[c].budget \in Budgets)
  BY UnderIsNotIdle DEF HostInv, Underway, TileInv

\* A step that only takes the call elsewhere, outside of any store.
LEMMA Relocated ==
  ASSUME NEW t, Underway(t), NEW pc \in {"arity", "validate", "instance"},
         t.pc \in WithoutStore \/ t.pc = "drop", t.planes # 0 => pc = "instance",
         NEW u, Same(t, u), u.pc = pc, u.slot = FALSE
  PROVE  CallInv(u)
  BY DEF Underway, CallInv, Same, TileInv, WithoutStore, WithStore

LEMMA PlacedAt ==
  ASSUME NEW t, Shaped(t), NEW pc
  PROVE  /\ Same(t, [t EXCEPT !.pc = pc]) /\ [t EXCEPT !.pc = pc].pc = pc
         /\ [t EXCEPT !.pc = pc].slot = t.slot
<1>1. [t EXCEPT !.pc = pc] = CallOf(t, pc, t.work, t.fuel, t.left, t.slot, t.then, t.outcome)
  BY DEF Shaped, CallOf
<1> QED BY <1>1, FieldsOfShaped

LEMMA SameCall ==
  ASSUME NEW t, NEW u, u.module = t.module, u.arity = t.arity, u.planes = t.planes, u.budget = t.budget,
         NEW pc, NEW work, NEW fuel, NEW left, NEW slot, NEW then, NEW outcome
  PROVE  CallOf(u, pc, work, fuel, left, slot, then, outcome) = CallOf(t, pc, work, fuel, left, slot, then, outcome)
  BY DEF CallOf

LEMMA FreshIs ==
  ASSUME NEW t, Shaped(t), NEW fuel
  PROVE  Host!FreshStore(t, fuel) = CallOf(t, t.pc, t.work, fuel, DeadlineTicks, t.slot, t.then, t.outcome)
<1> DEFINE a == [t EXCEPT !.fuel = fuel]
<1>1. Host!FreshStore(t, fuel) = [a EXCEPT !.left = DeadlineTicks]
  BY DEF Host!FreshStore
<1>2. a = CallOf(t, t.pc, t.work, fuel, t.left, t.slot, t.then, t.outcome)
  BY DEF Shaped, CallOf
<1> HIDE DEF a
<1> QED BY <1>1, <1>2 DEF CallOf

Slotted(u, taken, next) == [u EXCEPT !.slot = taken, !.then = next]

LEMMA InstanceIs ==
  ASSUME NEW t, NEW work, NEW fuel, NEW left, NEW slot, NEW then, NEW outcome, NEW taken, NEW next,
         NEW u, u = CallOf(t, "start", work, fuel, left, slot, then, outcome)
  PROVE  Slotted(u, taken, next) = CallOf(t, "start", work, fuel, left, taken, next, outcome)
<1> DEFINE a == [u EXCEPT !.slot = taken]
<1>1. a = CallOf(t, "start", work, fuel, left, taken, then, outcome)
  BY DEF CallOf
<1> HIDE DEF a
<1>2. [a EXCEPT !.then = next] = CallOf(t, "start", work, fuel, left, taken, next, outcome)
  BY <1>1 DEF CallOf
<1> QED BY <1>2 DEF a, Slotted

LEMMA ProbedIs ==
  ASSUME NEW t, Shaped(t)
  PROVE  [t EXCEPT !.pc = "drop", !.fuel = 0, !.then = "none"] =
           CallOf(t, "drop", t.work, 0, t.left, t.slot, "none", t.outcome)
<1> DEFINE a == [t EXCEPT !.pc = "drop"]
           b == [a EXCEPT !.fuel = 0]
<1>1. a = CallOf(t, "drop", t.work, t.fuel, t.left, t.slot, t.then, t.outcome)
  BY DEF Shaped, CallOf
<1> HIDE DEF a
<1>2. b = CallOf(t, "drop", t.work, 0, t.left, t.slot, t.then, t.outcome)
  BY <1>1 DEF CallOf
<1> HIDE DEF b
<1>3. [b EXCEPT !.then = "none"] = CallOf(t, "drop", t.work, 0, t.left, t.slot, "none", t.outcome)
  BY <1>2 DEF CallOf
<1> QED BY <1>3 DEF a, b

\* An instance is refused when the pool is full of other calls', or starts
\* with its fuel.
LEMMA Instantiates ==
  ASSUME HostInv, NEW c \in Callers, NEW t, t = call[c], t.pc \in {"validate", "arity", "instance"},
         NEW fuel, NEW function \in {"abi", "planes", "alloc"},
         function = "abi" => Host!Refusal(Guest[t.module]) = "none",
         t.planes # 0 => fuel = t.budget /\ function = "alloc"
  PROVE  CallInv(Host!Instantiate(t, fuel, function))
<1>1. Underway(t) /\ (t.planes # 0 => TileInv(t) /\ t.budget \in Budgets)
  BY Busy
<1>2. CASE Cardinality(Host!Holding) >= PoolSlots
  <2>1. Host!Instantiate(t, fuel, function) = Host!Ended(t, "MemoryLimit")
    BY <1>2, HostCounts DEF Host!Instantiate
  <2>2. Cardinality(Callers) > PoolSlots
    <3>1. c \notin Host!Holding /\ Host!Holding \subseteq Callers
      BY <1>1 DEF Host!Holding, Underway, WithoutStore
    <3>2. IsFiniteSet(Callers) /\ PoolSlots \in Nat
      BY HostAssumption, HostCounts DEF Host!HostAssumption
    <3>3. IsFiniteSet(Host!Holding) /\ Cardinality(Host!Holding) < Cardinality(Callers)
      <4>1. Host!Holding # Callers
        BY <3>1
      <4>2. IsFiniteSet(Host!Holding)
        BY <3>1, <3>2, FS_Subset
      <4>3. Cardinality(Host!Holding) <= Cardinality(Callers) /\ (Cardinality(Host!Holding) = Cardinality(Callers) => Host!Holding = Callers)
        BY <3>1, <3>2, FS_Subset
      <4>4. Cardinality(Host!Holding) \in Nat /\ Cardinality(Callers) \in Nat
        BY <3>2, <4>2, FS_CardinalityType
      <4> QED BY <4>1, <4>2, <4>3, <4>4
    <3>4. Cardinality(Host!Holding) \in Nat /\ Cardinality(Callers) \in Nat
      BY <3>2, <3>3, FS_CardinalityType
    <3> QED BY <1>2, <3>2, <3>3, <3>4
  <2>3. t.planes # 0 => t.budget \in Budgets /\ Permitted(t, 0, "MemoryLimit")
    BY <1>1, <2>2 DEF Permitted
  <2>4. CallInv(Host!Ended(t, "MemoryLimit"))
    BY <1>1, <2>3, Ends
  <2> QED BY <2>1, <2>4
<1>3. CASE ~(Cardinality(Host!Holding) >= PoolSlots)
  <2> DEFINE fresh == Host!FreshStore(t, fuel)
             entered == Host!Entering(fresh, "start")
             yes == TRUE
             u == Slotted(entered, yes, function)
  <2>1. Host!Instantiate(t, fuel, function) = u
    BY <1>3, HostCounts DEF Host!Instantiate, Slotted
  <2>2. fresh = CallOf(t, t.pc, t.work, fuel, DeadlineTicks, t.slot, t.then, t.outcome)
    BY <1>1, FreshIs DEF Underway
  <2> HIDE DEF fresh
  <2>3. Same(t, fresh) /\ fresh.fuel = fuel /\ fresh.left = DeadlineTicks /\ Shaped(fresh)
    BY <2>2, FieldsOfShaped DEF Same
  <2>4. entered = CallOf(fresh, "start", CostOf(fresh, "start"), fuel, DeadlineTicks, fresh.slot, fresh.then, fresh.outcome)
    BY <2>3, EnteringIs
  <2> HIDE DEF entered, yes
  <2>5. CostOf(fresh, "start") = CostOf(t, "start")
    BY <2>3 DEF CostOf, Same
  <2>6. u = CallOf(t, "start", CostOf(t, "start"), fuel, DeadlineTicks, yes, function, fresh.outcome)
    <3> DEFINE cost == CostOf(fresh, "start")
               slot == fresh.slot
               then == fresh.then
               outcome == fresh.outcome
    <3>1. fresh.module = t.module /\ fresh.arity = t.arity /\ fresh.planes = t.planes /\ fresh.budget = t.budget
      BY <2>3 DEF Same
    <3>2. entered = CallOf(fresh, "start", cost, fuel, DeadlineTicks, slot, then, outcome)
      BY <2>4
    <3>3. cost = CostOf(t, "start")
      BY <2>5
    <3> HIDE DEF cost, slot, then, outcome
    <3>4. entered = CallOf(t, "start", cost, fuel, DeadlineTicks, slot, then, outcome)
      BY <3>1, <3>2, SameCall
    <3>5. u = CallOf(t, "start", cost, fuel, DeadlineTicks, yes, function, outcome)
      BY <3>4, InstanceIs
    <3> QED BY <3>3, <3>5 DEF outcome
  <2> HIDE DEF u
  <2>7. Same(t, u) /\ u.pc = "start" /\ u.work = CostOf(t, "start") /\ u.fuel = fuel /\ u.then = function
    BY <2>6, FieldsOfShaped
  <2>8. Shaped(u) /\ u.module = t.module /\ u.planes = t.planes /\ u.budget = t.budget
    BY <2>7 DEF Same
  <2>9. ASSUME u.planes # 0 PROVE TileInv(u)
    <3>1. t.module \in Modules /\ t.budget \in Budgets /\ fuel = t.budget /\ function = "alloc"
      BY <1>1, <2>8, <2>9 DEF Underway
    <3>2. Metered(u, "start", 1)
      BY <2>7, <3>1, MeterBegins
    <3> QED BY <2>7, <2>8, <3>1, <3>2 DEF TileInv
  <2>10. Underway(u)
    BY <1>1, <2>7, <2>8, <2>9 DEF Underway, WithoutStore, WithStore
  <2> QED BY <2>1, <2>10 DEF CallInv
<1> QED BY <1>2, <1>3

LEMMA BeginKeeps ==
  ASSUME HostInv, NEW c \in Callers, NEW pc, NEW stage, NEW budget, Host!Begin(c, pc, stage, budget),
         stage.module \in Modules,
         \/ pc = "compile" /\ stage.planes = 0
         \/ pc = "lookup" /\ budget \in Budgets
  PROVE  HostInv'
<1> DEFINE no == FALSE
           u == [pc |-> pc, module |-> stage.module, arity |-> stage.arity, planes |-> stage.planes,
                 budget |-> budget, work |-> 0, fuel |-> 0, left |-> 0, slot |-> no,
                 then |-> "none", outcome |-> "none"]
<1>1. Host!Goes(c, u)
  BY DEF Host!Begin
<1> HIDE DEF no
<1>2. /\ Shaped(u) /\ u.pc = pc /\ u.module = stage.module /\ u.planes = stage.planes
      /\ u.budget = budget /\ u.slot = no
  BY DEF Shaped, CallOf
<1> HIDE DEF u
<1>3. Underway(u)
  BY <1>2 DEF Underway, TileInv, WithoutStore, WithStore, no
<1> QED BY <1>1, <1>3, Goes DEF CallInv

LEMMA CompileLookupKeeps == ASSUME HostInv, NEW c \in Callers, Host!CompileLookup(c) PROVE HostInv'
<1> DEFINE t == call[c]
           pc == IF t.module \in Host!ToSet(modules) THEN "arity" ELSE "validate"
           u == [t EXCEPT !.pc = pc]
<1>1. t.pc = "compile" /\ Host!Lookup(t.module) /\ call' = [call EXCEPT ![c].pc = pc] /\ pinned' = pinned
  BY DEF Host!CompileLookup
<1>2. pc \in {"arity", "validate"}
  OBVIOUS
<1>3. Underway(t) /\ (t.planes # 0 => TileInv(t))
  BY <1>1, Busy
<1> HIDE DEF pc
<1>4. call' = [call EXCEPT ![c] = u]
  BY <1>1
<1>5. Same(t, u) /\ u.pc = pc /\ u.slot = t.slot
  BY <1>3, PlacedAt DEF Underway
<1> HIDE DEF u
<1>6. t.slot = FALSE /\ t.planes = 0
  BY <1>1, <1>3 DEF Underway, TileInv, WithoutStore
<1>7. CallInv(u)
  BY <1>1, <1>2, <1>3, <1>5, <1>6, Relocated DEF WithoutStore
<1>8. ListInv'
  BY <1>1, <1>3, LookupKeeps DEF Underway, HostInv
<1> QED BY <1>1, <1>4, <1>7, <1>8, Called DEF HostInv

LEMMA ValidateKeeps == ASSUME HostInv, NEW c \in Callers, Host!Validate(c) PROVE HostInv'
<1> DEFINE t == call[c]
           refusal == Host!Refusal(Guest[t.module])
<1>1. t.pc = "validate" /\ Host!Goes(c, IF refusal # "none" THEN Host!Ended(t, refusal)
                                         ELSE Host!Instantiate(t, RegistrationFuel, "abi"))
  BY DEF Host!Validate
<1>2. Underway(t) /\ t.planes = 0
  BY <1>1, Busy DEF TileInv
<1>3. CASE refusal # "none"
  <2>1. CallInv(Host!Ended(t, refusal))
    BY <1>2, Ends
  <2> QED BY <1>1, <1>3, <2>1, Goes
<1>4. CASE refusal = "none"
  <2>1. CallInv(Host!Instantiate(t, RegistrationFuel, "abi"))
    BY <1>1, <1>2, <1>4, Instantiates
  <2> QED BY <1>1, <1>4, <2>1, Goes
<1> QED BY <1>3, <1>4

LEMMA CompiledKeeps == ASSUME HostInv, NEW c \in Callers, Host!Compiled(c) PROVE HostInv'
<1> DEFINE t == call[c]
<1>1. t.pc = "abi"
  BY DEF Host!Compiled, Host!Answered
<1>2. Underway(t) /\ t.planes = 0
  BY <1>1, Busy DEF TileInv
<1>3. CASE Guest[t.module].abi # Host!AbiVersion
  <2>1. CallInv(Host!Ended(t, "UnsupportedAbiVersion"))
    BY <1>2, Ends
  <2>2. Host!Goes(c, Host!Ended(t, "UnsupportedAbiVersion"))
    BY <1>3 DEF Host!Compiled
  <2> QED BY <2>1, <2>2, Goes
<1>4. CASE Guest[t.module].abi = Host!AbiVersion
  <2> DEFINE u == [t EXCEPT !.pc = "drop", !.fuel = 0, !.then = "none"]
  <2>1. /\ modules' = Host!Cached(modules, t.module) /\ Host!Used(t.module)
        /\ call' = [call EXCEPT ![c] = u] /\ pinned' = pinned
    BY <1>4 DEF Host!Compiled
  <2>2. u = CallOf(t, "drop", t.work, 0, t.left, t.slot, "none", t.outcome)
    BY <1>2, ProbedIs DEF Underway
  <2> HIDE DEF u
  <2>3. Same(t, u) /\ u.pc = "drop"
    BY <2>2, FieldsOfShaped
  <2>4. CallInv(u)
    BY <1>2, <2>3 DEF Underway, Same, CallInv, WithoutStore, WithStore
  <2>5. t.module \in Modules /\ Admitted(t.module)
    BY <1>1, <1>2, <1>4 DEF Underway, Admitted
  <2>6. ListInv'
    BY <2>1, <2>5, CachedKeeps DEF HostInv
  <2> QED BY <2>1, <2>4, <2>6, Called DEF HostInv
<1> QED BY <1>3, <1>4

LEMMA DropProbeKeeps == ASSUME HostInv, NEW c \in Callers, Host!DropProbe(c) PROVE HostInv'
<1> DEFINE t == call[c]
           d == Host!Dropped(t)
           u == [d EXCEPT !.pc = "arity"]
           no == FALSE
<1>1. t.pc = "drop" /\ Host!Goes(c, u)
  BY DEF Host!DropProbe
<1>2. Underway(t) /\ t.planes = 0
  BY <1>1, Busy DEF TileInv
<1> HIDE DEF d, no
<1>3. d = CallOf(t, t.pc, t.work, t.fuel, 0, no, "none", t.outcome)
  BY <1>2, DroppedIs DEF Underway, d, no
<1>4. u = CallOf(t, "arity", t.work, t.fuel, 0, no, "none", t.outcome)
  BY <1>3 DEF CallOf
<1> HIDE DEF u
<1>5. Same(t, u) /\ u.pc = "arity" /\ u.slot = no
  BY <1>4, FieldsOfShaped
<1>6. CallInv(u)
  BY <1>1, <1>2, <1>5, Relocated DEF no
<1> QED BY <1>1, <1>6, Goes

LEMMA ProbeArityKeeps == ASSUME HostInv, NEW c \in Callers, Host!ProbeArity(c) PROVE HostInv'
<1> DEFINE t == call[c]
           u == IF t.module \notin Host!ToSet(modules) THEN Host!Ended(t, "UnknownModule")
                ELSE Host!Instantiate(t, RegistrationFuel, "planes")
<1>1. t.pc = "arity" /\ Host!Lookup(t.module) /\ call' = [call EXCEPT ![c] = u] /\ pinned' = pinned
  BY DEF Host!ProbeArity
<1>2. Underway(t) /\ t.planes = 0
  BY <1>1, Busy DEF TileInv
<1>3. CallInv(Host!Ended(t, "UnknownModule"))
  BY <1>2, Ends
<1>4. CallInv(Host!Instantiate(t, RegistrationFuel, "planes"))
  BY <1>1, <1>2, Instantiates
<1>5. CallInv(u)
  BY <1>3, <1>4
<1> HIDE DEF u
<1>6. ListInv'
  BY <1>1, <1>2, LookupKeeps DEF Underway, HostInv
<1> QED BY <1>1, <1>5, <1>6, Called DEF HostInv

LEMMA RegisteredKeeps == ASSUME HostInv, NEW c \in Callers, Host!Registered(c) PROVE HostInv'
<1> DEFINE t == call[c]
           planes == Guest[t.module].planes[t.arity]
           stage == [module |-> t.module, arity |-> t.arity, planes |-> planes]
<1>1. t.pc = "planes"
  BY DEF Host!Registered, Host!Answered
<1>2. Underway(t) /\ t.planes = 0
  BY <1>1, Busy DEF TileInv
<1>3. CASE planes <= 0
  <2>1. CallInv(Host!Ended(t, "UnsupportedArity"))
    BY <1>2, Ends
  <2>2. Host!Goes(c, Host!Ended(t, "UnsupportedArity"))
    BY <1>3 DEF Host!Registered
  <2> QED BY <2>1, <2>2, Goes
<1>4. CASE ~(planes <= 0)
  <2>1. CallInv(Host!Ended(t, "registered"))
    BY <1>2, Ends
  <2>2. /\ pinned' = pinned \cup {stage} /\ call' = [call EXCEPT ![c] = Host!Ended(t, "registered")]
        /\ modules' = modules /\ since' = since
    BY <1>4 DEF Host!Registered
  <2>3. ListInv'
    BY <2>2 DEF HostInv, ListInv
  <2>4. \A s \in pinned' : s.module \in Modules
    <3>1. stage.module = t.module
      OBVIOUS
    <3> QED BY <1>2, <2>2, <3>1 DEF Underway, HostInv
  <2> QED BY <2>1, <2>2, <2>3, <2>4, Called
<1> QED BY <1>3, <1>4

LEMMA RunLookupKeeps == ASSUME HostInv, NEW c \in Callers, Host!RunLookup(c) PROVE HostInv'
<1> DEFINE t == call[c]
           i == [t EXCEPT !.pc = "instance"]
           u == IF t.module \notin Host!ToSet(modules) THEN Host!Ended(t, "UnknownModule") ELSE i
<1>1. t.pc = "lookup" /\ Host!Lookup(t.module) /\ call' = [call EXCEPT ![c] = u] /\ pinned' = pinned
  BY DEF Host!RunLookup
<1>2. Underway(t) /\ (t.planes # 0 => t.budget \in Budgets)
  BY <1>1, Busy
<1>3. CallInv(Host!Ended(t, "UnknownModule"))
  <2>1. Permitted(t, 0, "UnknownModule")
    BY DEF Permitted
  <2> QED BY <1>2, <2>1, Ends
<1>4. CallInv(i)
  <2>1. Same(t, i) /\ i.pc = "instance" /\ i.slot = t.slot
    BY <1>2, PlacedAt DEF Underway
  <2>2. t.slot = FALSE
    BY <1>1, <1>2 DEF Underway, WithoutStore
  <2> HIDE DEF i
  <2> QED BY <1>1, <1>2, <2>1, <2>2, Relocated DEF WithoutStore
<1>5. CallInv(u)
  BY <1>3, <1>4
<1> HIDE DEF u
<1>6. ListInv'
  BY <1>1, <1>2, LookupKeeps DEF Underway, HostInv
<1> QED BY <1>1, <1>5, <1>6, Called DEF HostInv

LEMMA RunInstanceKeeps == ASSUME HostInv, NEW c \in Callers, Host!RunInstance(c) PROVE HostInv'
<1>1. call[c].pc = "instance" /\ Host!Goes(c, Host!Instantiate(call[c], call[c].budget, "alloc"))
  BY DEF Host!RunInstance
<1>2. CallInv(Host!Instantiate(call[c], call[c].budget, "alloc"))
  BY <1>1, Instantiates
<1> QED BY <1>1, <1>2, Goes

\* The call enters the next function of its guest.
LEMMA Enters ==
  ASSUME NEW t, Underway(t), NEW function
  PROVE  LET u == Host!Entering(t, function)
         IN Same(t, u) /\ u.pc = function /\ u.work = CostOf(t, function) /\ u.fuel = t.fuel
<1>1. Host!Entering(t, function) =
        CallOf(t, function, CostOf(t, function), t.fuel, t.left, t.slot, t.then, t.outcome)
  BY EnteringIs DEF Underway
<1> DEFINE u == Host!Entering(t, function)
<1> HIDE DEF u
<1>2. Same(t, u) /\ u.pc = function /\ u.work = CostOf(t, function) /\ u.fuel = t.fuel
  BY <1>1, FieldsOfShaped DEF u
<1> QED BY <1>2 DEF u

LEMMA TransferredKeeps == ASSUME HostInv, NEW c \in Callers, Host!Transferred(c) PROVE HostInv'
<1> DEFINE t == call[c]
           pointer == Guest[t.module].alloc
<1>1. /\ t.pc = "alloc" /\ t.work = 0 /\ "alloc" \notin Traps(t)
      /\ Host!Goes(c, CASE pointer = "null" -> Host!Ended(t, "MemoryLimit")
                        [] pointer = "beyond" -> Host!Ended(t, "MalformedOutput")
                        [] OTHER -> Host!Entering(t, "run"))
  BY DEF Host!Transferred, Host!Answered, Traps
<1>2. Underway(t) /\ (t.planes # 0 => TileInv(t) /\ t.budget \in Budgets) /\ t.module \in Modules
  BY <1>1, Busy DEF Underway
<1>3. CASE pointer = "null"
  <2>1. t.planes # 0 => Permitted(t, 0, "MemoryLimit")
    BY <1>1, <1>2, <1>3, RefusedAsExpected DEF Permitted
  <2>2. CallInv(Host!Ended(t, "MemoryLimit"))
    BY <1>2, <2>1, Ends
  <2>3. Host!Goes(c, Host!Ended(t, "MemoryLimit"))
    BY <1>1, <1>3
  <2> QED BY <2>2, <2>3, Goes
<1>4. CASE pointer = "beyond"
  <2>1. t.planes # 0 => Permitted(t, 0, "MalformedOutput")
    BY <1>1, <1>2, <1>4, RefusedAsExpected DEF Permitted
  <2>2. CallInv(Host!Ended(t, "MalformedOutput"))
    BY <1>2, <2>1, Ends
  <2>3. Host!Goes(c, Host!Ended(t, "MalformedOutput"))
    BY <1>1, <1>4
  <2> QED BY <2>2, <2>3, Goes
<1>5. CASE pointer \notin {"null", "beyond"}
  <2> DEFINE u == Host!Entering(t, "run")
  <2>1. Host!Goes(c, u)
    BY <1>1, <1>5
  <2>2. Same(t, u) /\ u.pc = "run" /\ u.work = CostOf(t, "run") /\ u.fuel = t.fuel
    BY <1>2, Enters
  <2> HIDE DEF u
  <2>3. Shaped(u) /\ u.module = t.module /\ u.planes = t.planes /\ u.budget = t.budget
    BY <2>2 DEF Same
  <2>4. ASSUME u.planes # 0 PROVE TileInv(u)
    <3>1. PastStart(t) /\ Metered(t, "alloc", 2) /\ t.budget \in Budgets
      BY <1>1, <1>2, <2>3, <2>4 DEF TileInv
    <3>2. Metered(u, "run", 3)
      BY <1>1, <1>2, <2>2, <3>1, MeterGoesOn
    <3>3. CostOf(t, "alloc") # Endless
      BY <1>1, <1>2, <3>1, FunctionDone
    <3>4. PastAlloc(u)
      BY <1>1, <1>5, <2>3, <3>1, <3>3 DEF PastAlloc, PastStart, CostOf, Traps
    <3> QED BY <2>2, <2>3, <3>1, <3>2, <3>4 DEF TileInv
  <2>5. Underway(u)
    BY <1>2, <2>2, <2>3, <2>4 DEF Underway, WithoutStore, WithStore
  <2> QED BY <2>1, <2>5, Goes DEF CallInv
<1> QED BY <1>3, <1>4, <1>5

LEMMA RunAnsweredKeeps == ASSUME HostInv, NEW c \in Callers, Host!RunAnswered(c) PROVE HostInv'
<1> DEFINE t == call[c]
           outcome == Host!Decoded(t)
<1>1. t.pc = "run" /\ t.work = 0 /\ "run" \notin Traps(t) /\ Host!Goes(c, Host!Ended(t, outcome))
  BY DEF Host!RunAnswered, Host!Answered, Traps
<1>2. Underway(t) /\ (t.planes # 0 => TileInv(t) /\ t.budget \in Budgets) /\ t.module \in Modules
  BY <1>1, Busy DEF Underway
<1> HIDE DEF outcome
<1>3. t.planes # 0 => Permitted(t, IF outcome = "output" THEN t.fuel ELSE 0, outcome)
  BY <1>1, <1>2, DecodedAsExpected DEF Permitted, outcome
<1>4. CallInv(Host!Ended(t, outcome))
  BY <1>2, <1>3, Ends
<1> QED BY <1>1, <1>4, Goes

LEMMA GuestStepKeeps == ASSUME HostInv, NEW c \in Callers, Host!GuestStep(c) PROVE HostInv'
<1> DEFINE t == call[c]
           work == Host!Fewer(t.work)
           fuel == Host!Fewer(t.fuel)
           u == [t EXCEPT !.work = work, !.fuel = fuel]
<1>1. /\ t.pc \in {"start", "abi", "planes", "alloc", "run"} /\ t.work # 0 /\ t.fuel # 0
      /\ Host!Goes(c, u)
  BY DEF Host!GuestStep, Host!InGuest
<1>2. Underway(t) /\ (t.planes # 0 => TileInv(t) /\ t.budget \in Budgets) /\ t.module \in Modules
  BY <1>1, Busy DEF Underway
<1>3. u = CallOf(t, t.pc, work, fuel, t.left, t.slot, t.then, t.outcome)
  <2> HIDE DEF work, fuel
  <2> DEFINE a == [t EXCEPT !.work = work]
  <2>1. a = CallOf(t, t.pc, work, t.fuel, t.left, t.slot, t.then, t.outcome)
    <3>1. Shaped(t)
      BY <1>2 DEF Underway
    <3> HIDE DEF t
    <3> QED BY <3>1 DEF Shaped, CallOf
  <2>2. u = [a EXCEPT !.fuel = fuel]
    OBVIOUS
  <2> HIDE DEF a
  <2> QED BY <2>1, <2>2 DEF CallOf
<1> HIDE DEF u
<1>4. /\ Same(t, u) /\ u.pc = t.pc /\ u.work = work /\ u.fuel = fuel /\ u.slot = t.slot /\ u.then = t.then
  BY <1>3, FieldsOfShaped
<1>5. Shaped(u) /\ u.module = t.module /\ u.planes = t.planes /\ u.budget = t.budget
  BY <1>4 DEF Same
<1>6. ASSUME u.planes # 0 PROVE TileInv(u)
  <2>1. TileInv(t) /\ t.budget \in Budgets
    BY <1>2, <1>5, <1>6
  <2>2. CASE t.pc = "start"
    <3>1. CostOf(t, "start") # Endless => Host!FuelOf(t.module, 1) \in Nat
      BY <1>2, FuelOfIsNat
    <3>2. Metered(t, "start", 1) /\ t.then = "alloc"
      BY <2>1, <2>2 DEF TileInv
    <3>3. Metered(u, "start", 1)
      BY <1>1, <1>2, <1>4, <2>1, <3>1, <3>2, MeterSteps
    <3> QED BY <1>4, <1>5, <2>1, <2>2, <3>2, <3>3 DEF TileInv
  <2>3. CASE t.pc = "alloc"
    <3>1. PastStart(t) /\ Metered(t, "alloc", 2)
      BY <2>1, <2>3 DEF TileInv
    <3>2. CostOf(t, "alloc") # Endless => Host!FuelOf(t.module, 2) \in Nat
      BY <1>2, <3>1, FuelOfIsNat
    <3>3. Metered(u, "alloc", 2)
      BY <1>1, <1>2, <1>4, <2>1, <3>1, <3>2, MeterSteps
    <3>4. PastStart(u)
      BY <1>5, <3>1 DEF PastStart, CostOf, Traps
    <3> QED BY <1>4, <1>5, <2>1, <2>3, <3>3, <3>4 DEF TileInv
  <2>4. CASE t.pc = "run"
    <3>1. PastAlloc(t) /\ Metered(t, "run", 3)
      BY <2>1, <2>4 DEF TileInv
    <3>2. CostOf(t, "run") # Endless => Host!FuelOf(t.module, 3) \in Nat
      BY <1>2, <3>1, FuelOfIsNat
    <3>3. Metered(u, "run", 3)
      BY <1>1, <1>2, <1>4, <2>1, <3>1, <3>2, MeterSteps
    <3>4. PastAlloc(u)
      BY <1>5, <3>1 DEF PastAlloc, PastStart, CostOf, Traps
    <3> QED BY <1>4, <1>5, <2>1, <2>4, <3>3, <3>4 DEF TileInv
  <2> QED BY <1>1, <2>1, <2>2, <2>3, <2>4 DEF TileInv
<1>7. Underway(u)
  BY <1>1, <1>2, <1>4, <1>5, <1>6 DEF Underway, WithoutStore, WithStore
<1> QED BY <1>1, <1>7, Goes DEF CallInv

LEMMA GuestStoppedKeeps == ASSUME HostInv, NEW c \in Callers, Host!GuestStopped(c) PROVE HostInv'
<1> DEFINE t == call[c]
<1>1. /\ t.pc \in {"start", "abi", "planes", "alloc", "run"} /\ t.work # 0
      /\ \/ t.fuel = 0 /\ Host!Goes(c, Host!Ended(t, "FuelExhausted"))
         \/ Host!Goes(c, Host!Ended(t, "EpochDeadline"))
  BY DEF Host!GuestStopped, Host!InGuest, Host!MapCallError
<1>2. Underway(t) /\ (t.planes # 0 => TileInv(t) /\ t.budget \in Budgets) /\ t.module \in Modules
  BY <1>1, Busy DEF Underway
<1>3. ASSUME t.fuel = 0, Host!Goes(c, Host!Ended(t, "FuelExhausted")) PROVE HostInv'
  <2>1. t.planes # 0 => Permitted(t, 0, "FuelExhausted")
    <3> SUFFICES ASSUME t.planes # 0 PROVE Permitted(t, 0, "FuelExhausted")
      OBVIOUS
    <3>1. t.pc \in {"start", "alloc", "run"}
      BY <1>1, <1>2 DEF TileInv
    <3> QED BY <1>1, <1>2, <1>3, <3>1, StoppedAsExpected DEF Permitted
  <2>2. CallInv(Host!Ended(t, "FuelExhausted"))
    BY <1>2, <2>1, Ends
  <2> QED BY <1>3, <2>2, Goes
<1>4. ASSUME Host!Goes(c, Host!Ended(t, "EpochDeadline")) PROVE HostInv'
  <2>1. Permitted(t, 0, "EpochDeadline")
    BY DEF Permitted
  <2>2. CallInv(Host!Ended(t, "EpochDeadline"))
    BY <1>2, <2>1, Ends
  <2> QED BY <1>4, <2>2, Goes
<1> QED BY <1>1, <1>3, <1>4

LEMMA GuestTrapsKeeps == ASSUME HostInv, NEW c \in Callers, Host!GuestTraps(c) PROVE HostInv'
<1> DEFINE t == call[c]
           outcome == IF t.pc = "start" THEN "MemoryLimit" ELSE "Trap"
<1>1. /\ t.pc \in {"start", "abi", "planes", "alloc", "run"} /\ t.work = 0 /\ t.pc \in Traps(t)
      /\ Host!Goes(c, Host!Ended(t, outcome))
  BY DEF Host!GuestTraps, Host!InGuest, Host!MapCallError, Traps
<1>2. Underway(t) /\ (t.planes # 0 => TileInv(t) /\ t.budget \in Budgets) /\ t.module \in Modules
  BY <1>1, Busy DEF Underway
<1>3. outcome # "output"
  OBVIOUS
<1>4. t.planes # 0 => Permitted(t, 0, outcome)
  <2> SUFFICES ASSUME t.planes # 0 PROVE Permitted(t, 0, outcome)
    OBVIOUS
  <2>1. t.pc \in {"start", "alloc", "run"}
    BY <1>1, <1>2 DEF TileInv
  <2>2. Host!Expected(t, t.budget) = outcome
    BY <1>1, <1>2, <2>1, TrapsAsExpected
  <2> QED BY <1>3, <2>2 DEF Permitted
<1> HIDE DEF outcome
<1>5. CallInv(Host!Ended(t, outcome))
  BY <1>2, <1>3, <1>4, Ends
<1> QED BY <1>1, <1>5, Goes

LEMMA StartedKeeps == ASSUME HostInv, NEW c \in Callers, Host!Started(c) PROVE HostInv'
<1> DEFINE t == call[c]
           e == Host!Entering(t, t.then)
           u == [e EXCEPT !.then = "none"]
<1>1. t.pc = "start" /\ t.work = 0 /\ "start" \notin Traps(t) /\ Host!Goes(c, u)
  BY DEF Host!Started, Host!Answered, Traps
<1>2. Underway(t) /\ (t.planes # 0 => TileInv(t) /\ t.budget \in Budgets) /\ t.module \in Modules
  BY <1>1, Busy DEF Underway
<1>3. t.then \in {"abi", "planes", "alloc"} /\ (t.then = "abi" => Host!Refusal(Guest[t.module]) = "none")
  BY <1>1, <1>2 DEF Underway
<1>4. Same(t, e) /\ e.pc = t.then /\ e.work = CostOf(t, t.then) /\ e.fuel = t.fuel
  BY <1>2, Enters
<1> HIDE DEF e
<1>5. u = CallOf(e, e.pc, e.work, e.fuel, e.left, e.slot, "none", e.outcome)
  BY <1>4 DEF Same, Shaped, CallOf
<1> HIDE DEF u
<1>6. Same(e, u) /\ u.pc = e.pc /\ u.work = e.work /\ u.fuel = e.fuel /\ u.then = "none"
  BY <1>5, FieldsOfShaped
<1>7. /\ Same(t, u) /\ u.pc = t.then /\ u.work = CostOf(t, t.then) /\ u.fuel = t.fuel
      /\ Shaped(u) /\ u.module = t.module /\ u.planes = t.planes /\ u.budget = t.budget
  BY <1>4, <1>6 DEF Same
<1>8. ASSUME u.planes # 0 PROVE TileInv(u)
  <2>1. t.budget \in Budgets /\ t.then = "alloc" /\ Metered(t, "start", 1)
    BY <1>1, <1>2, <1>7, <1>8 DEF TileInv
  <2>2. Metered(u, "alloc", 2)
    BY <1>1, <1>2, <1>7, <2>1, MeterGoesOn
  <2>3. CostOf(t, "start") # Endless
    BY <1>1, <1>2, <2>1, FunctionDone
  <2>4. PastStart(u)
    BY <1>1, <1>7, <2>3 DEF PastStart, CostOf, Traps
  <2> QED BY <1>7, <2>1, <2>2, <2>4 DEF TileInv
<1>9. Underway(u)
  BY <1>2, <1>3, <1>7, <1>8 DEF Underway, WithoutStore, WithStore
<1> QED BY <1>1, <1>9, Goes DEF CallInv

LEMMA ReportKeeps == ASSUME HostInv, NEW c \in Callers, Host!Report(c) PROVE HostInv'
<1>1. Host!Goes(c, Host!Idle)
  BY DEF Host!Report
<1> QED BY <1>1, Goes DEF CallInv

\* No part of a call's invariant is about the clock.
LEMMA ClockIsFree ==
  ASSUME NEW t, Underway(t), NEW left
  PROVE  Underway([t EXCEPT !.left = left])
<1> DEFINE u == [t EXCEPT !.left = left]
<1>1. u = CallOf(t, t.pc, t.work, t.fuel, left, t.slot, t.then, t.outcome)
  <2>1. Shaped(t)
    BY DEF Underway
  <2> QED BY <2>1 DEF Shaped, CallOf
<1> HIDE DEF u
<1>2. /\ Same(t, u) /\ u.pc = t.pc /\ u.work = t.work /\ u.fuel = t.fuel /\ u.slot = t.slot /\ u.then = t.then
      /\ u.outcome = t.outcome
  BY <1>1, FieldsOfShaped
<1>3. Shaped(u) /\ u.module = t.module /\ u.planes = t.planes /\ u.budget = t.budget
  BY <1>2 DEF Same
<1>4. Host!Expected(u, u.budget) = Host!Expected(t, t.budget)
  BY <1>2, <1>3, SameExpected
<1>5. ASSUME u.planes # 0 PROVE TileInv(u)
  <2>1. TileInv(t)
    BY <1>3, <1>5 DEF Underway
  <2>2. \A f : CostOf(u, f) = CostOf(t, f)
    BY <1>3 DEF CostOf
  <2>3. Traps(u) = Traps(t)
    BY <1>3 DEF Traps
  <2> QED BY <1>2, <1>3, <1>4, <2>1, <2>2, <2>3 DEF TileInv, Metered, PastStart, PastAlloc, Permitted
<1>6. Underway(u)
  BY <1>2, <1>3, <1>5 DEF Underway
<1> QED BY <1>6 DEF u

LEMMA TickKeeps == ASSUME HostInv, Host!Tick PROVE HostInv'
<1> DEFINE next(c) == IF Host!Armed(call[c]) THEN [call[c] EXCEPT !.left = call[c].left - 1] ELSE call[c]
<1>1. call' = [c \in Callers |-> next(c)] /\ modules' = modules /\ pinned' = pinned /\ since' = since
  BY DEF Host!Tick
<1>2. ASSUME NEW c \in Callers PROVE CallInv(next(c))
  <2>1. CASE Host!Armed(call[c])
    <3>1. Underway(call[c])
      BY <2>1, Busy DEF Host!Armed
    <3> DEFINE left == call[c].left - 1
    <3> HIDE DEF left
    <3>2. Underway([call[c] EXCEPT !.left = left])
      BY <3>1, ClockIsFree
    <3> QED BY <2>1, <3>2 DEF CallInv, left
  <2>2. CASE ~Host!Armed(call[c])
    BY <2>2 DEF HostInv
  <2> QED BY <2>1, <2>2
<1> HIDE DEF next
<1>3. ListInv'
  BY <1>1 DEF HostInv, ListInv
<1>4. call' = [c \in Callers |-> call'[c]] /\ \A c \in Callers : CallInv(call'[c])
  BY <1>1, <1>2
<1> QED BY <1>1, <1>3, <1>4 DEF HostInv

------------------------------------------------------------------------------
(* The theorem *)

LEMMA StepKeeps == ASSUME HostInv, NEW c \in Callers, Host!Step(c) PROVE HostInv'
<1>1. CASE Host!CompileLookup(c) \/ Host!Validate(c) \/ Host!Compiled(c) \/ Host!DropProbe(c)
  BY <1>1, CompileLookupKeeps, ValidateKeeps, CompiledKeeps, DropProbeKeeps
<1>2. CASE Host!ProbeArity(c) \/ Host!Registered(c)
  BY <1>2, ProbeArityKeeps, RegisteredKeeps
<1>3. CASE Host!RunLookup(c) \/ Host!RunInstance(c) \/ Host!Transferred(c) \/ Host!RunAnswered(c)
  BY <1>3, RunLookupKeeps, RunInstanceKeeps, TransferredKeeps, RunAnsweredKeeps
<1>4. CASE Host!GuestStep(c) \/ Host!GuestStopped(c) \/ Host!GuestTraps(c) \/ Host!Started(c)
  BY <1>4, GuestStepKeeps, GuestStoppedKeeps, GuestTrapsKeeps, StartedKeeps
<1>5. CASE Host!Report(c)
  BY <1>5, ReportKeeps
<1> QED BY <1>1, <1>2, <1>3, <1>4, <1>5 DEF Host!Step

LEMMA HostKeeps == ASSUME HostInv, Host!Next PROVE HostInv'
<1>1. ASSUME NEW c \in Callers, NEW m \in Modules, NEW arity \in Arities, Host!Register(c, m, arity)
      PROVE  HostInv'
  <2> DEFINE stage == [module |-> m, arity |-> arity, planes |-> 0]
  <2>1. Host!Begin(c, "compile", stage, RegistrationFuel)
    BY <1>1 DEF Host!Register
  <2>2. stage.module \in Modules /\ stage.planes = 0
    OBVIOUS
  <2> HIDE DEF stage
  <2> QED BY <2>1, <2>2, BeginKeeps
<1>2. ASSUME NEW c \in Callers, NEW stage \in pinned, NEW budget \in Budgets, Host!Run(c, stage, budget)
      PROVE  HostInv'
  <2>1. Host!Begin(c, "lookup", stage, budget)
    BY <1>2 DEF Host!Run
  <2>2. stage.module \in Modules
    BY DEF HostInv
  <2> QED BY <2>1, <2>2, BeginKeeps
<1>3. ASSUME NEW c \in Callers, Host!Step(c) PROVE HostInv'
  BY <1>3, StepKeeps
<1>4. CASE Host!Tick
  BY <1>4, TickKeeps
<1> QED BY <1>1, <1>2, <1>3, <1>4 DEF Host!Next

LEMMA HostStarts == Host!Init => HostInv
<1> SUFFICES ASSUME Host!Init PROVE HostInv
  OBVIOUS
<1>1. modules = <<>> /\ since = <<>> /\ pinned = {} /\ call = [c \in Callers |-> Host!Idle]
  BY DEF Host!Init
<1>2. ListInv
  <2>1. modules \in Seq(Modules) /\ Len(modules) = 0
    BY <1>1
  <2>2. DOMAIN since = {} /\ since = [m \in DOMAIN since |-> since[m]]
    BY <1>1
  <2>3. Capacity \in Nat
    BY HostAssumption DEF Host!HostAssumption
  <2> QED BY <2>1, <2>2, <2>3 DEF ListInv, Distinct
<1> QED BY <1>1, <1>2 DEF HostInv, CallInv

LEMMA TilesAnswer == HostInv => Host!TilesAnswerAlike
<1> SUFFICES ASSUME HostInv, NEW c \in Callers, call[c].pc = "ended", call[c].planes # 0
             PROVE  /\ call[c].outcome = "output" /\ call[c].budget # Endless =>
                         Host!FuelUsed(call[c]) = Host!FuelOf(call[c].module, 3)
                    /\ \/ call[c].outcome = Host!Expected(call[c], call[c].budget)
                       \/ call[c].outcome \in {"UnknownModule", "EpochDeadline"}
                       \/ call[c].outcome = "MemoryLimit" /\ Cardinality(Callers) > PoolSlots
  BY HostCounts DEF Host!TilesAnswerAlike
<1>1. Permitted(call[c], call[c].fuel, call[c].outcome)
  BY Busy DEF TileInv
<1> QED BY <1>1 DEF Permitted, Host!FuelUsed

LEMMA HostKeepsSquare == HostInv /\ [Host!Next]_<<modules, call, pinned, since>> => HostInv'
<1> SUFFICES ASSUME HostInv, [Host!Next]_<<modules, call, pinned, since>> PROVE HostInv'
  OBVIOUS
<1>1. CASE Host!Next
  BY <1>1, HostKeeps
<1>2. CASE UNCHANGED <<modules, call, pinned, since>>
  <2>1. ListInv'
    BY <1>2 DEF HostInv, ListInv
  <2> QED BY <1>2, <2>1 DEF HostInv
<1> QED BY <1>1, <1>2

LEMMA HostServes == HostInv => ModulesServeAlike
  BY ListIsRecentlyUsed, TilesAnswer DEF HostInv, ModulesServeAlike

\* For any modules, callers, budgets, pool and capacity of the list: the list
\* of compiled modules (`UdfExecutor::modules') is the most recently used
\* ones, last used first, all of them let in by registration; and a tile is
\* told what its module answers within the tile's budget, for the fuel that
\* its functions take, or that the module was evicted, the clock ran out or
\* the pool did (`run', `compile', `output_planes', `lookup').
THEOREM ModulesServe == Host!Spec => []ModulesServeAlike
<1> QED BY HostStarts, HostKeepsSquare, HostServes, PTL DEF Host!Spec, Host!vars

\* The same of a host where pyramids are built and served besides, as the runs
\* check it.
THEOREM ModulesServeBesides == PartSpec => []ModulesServeAlike
<1>1. PartInit => HostInv
  BY HostStarts DEF PartInit
<1>2. HostInv /\ [PartNext]_<<vars, alone, modules, call, pinned, since, hosting>> => HostInv'
  BY HostKeepsSquare DEF PartNext
<1> QED BY <1>1, <1>2, HostServes, PTL DEF PartSpec

==============================================================================
