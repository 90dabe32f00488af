-------------------------------- MODULE Passes --------------------------------
(***************************************************************************)
(* Facts about numbers and about functions that are computed one place     *)
(* after the other, for the proofs of what a pass over a sequence comes to.*)
(***************************************************************************)
EXTENDS Integers, FiniteSetTheorems, TLAPS

\* A set of natural numbers that is not empty has a lowest member.
LEMMA LowestNumber ==
  ASSUME NEW S, S \subseteq Nat, S # {}
  PROVE  \E x \in S : \A y \in S : x <= y
<1> DEFINE T == {0..x : x \in S}
<1>1. ASSUME NEW x \in S PROVE 0..x \in FiniteSubsetsOf(Nat)
  <2>1. 0..x \in SUBSET Nat
    OBVIOUS
  <2>2. IsFiniteSet(0..x)
    BY FS_Interval
  <2> QED BY <2>1, <2>2 DEF FiniteSubsetsOf
<1>2. T # {} /\ T \subseteq FiniteSubsetsOf(Nat)
  BY <1>1
<1>3. PICK I \in T : \A J \in T : <<J, I>> \notin StrictSubsetOrdering(Nat)
  BY <1>2, FS_StrictSubsetOrderingWellFounded, WFMin, Zenon
<1>4. PICK x \in S : I = 0..x
  OBVIOUS
<1>5. ASSUME NEW y \in S, y < x PROVE FALSE
  <2>1. y \in Nat /\ x \in Nat /\ 0..y \in T
    OBVIOUS
  <2>2. 0..y \in SUBSET Nat /\ 0..x \in SUBSET Nat
    BY <2>1
  <2>3. 0..y \subseteq 0..x /\ x \in 0..x /\ x \notin 0..y
    BY <1>5, <2>1
  <2>4. 0..y # 0..x
    BY <2>3
  <2>5. <<0..y, 0..x>> \in StrictSubsetOrdering(Nat)
    BY <2>2, <2>3, <2>4, Zenon DEF StrictSubsetOrdering
  <2> QED BY <1>3, <1>4, <2>1, <2>5
<1>6. \A y \in S : x <= y
  BY <1>5
<1> QED BY <1>6

\* A pass of steps over 1..size leads somewhere after each of them: f holds what it
\* has come to.
Passes(f, size, D, start, step) ==
  /\ f \in [0..size -> D] /\ f[0] = start
  /\ \A n \in 1..size : f[n] = step[<<n, f[n - 1]>>]

LEMMA PassExists ==
  ASSUME NEW size \in Nat, NEW D, NEW start \in D, NEW step \in [(1..size) \X D -> D]
  PROVE  \E f : Passes(f, size, D, start, step)
<1> DEFINE Never == {n \in 0..size : ~\E f : Passes(f, n, D, start, step)}
<1>1. SUFFICES ASSUME Never # {} PROVE FALSE
  OBVIOUS
<1>2. PICK n \in Never : \A m \in Never : n <= m
  <2>1. Never \subseteq Nat
    OBVIOUS
  <2> HIDE DEF Never
  <2> QED BY <1>1, <2>1, LowestNumber, Zenon
<1>3. n \in 0..size /\ ~\E f : Passes(f, n, D, start, step)
  OBVIOUS
<1>4. n - 1 \in 0..size => \E f : Passes(f, n - 1, D, start, step)
  BY <1>2, <1>3
<1> HIDE DEF Never
<1>5. CASE n = 0
  <2> DEFINE f == [i \in 0..0 |-> start]
  <2>1. f \in [0..0 -> D] /\ f[0] = start
    OBVIOUS
  <2>2. \A i \in 1..0 : f[i] = step[<<i, f[i - 1]>>]
    OBVIOUS
  <2> HIDE DEF f
  <2>3. Passes(f, 0, D, start, step)
    BY <2>1, <2>2 DEF Passes
  <2> QED BY <1>3, <1>5, <2>3
<1>6. CASE n # 0
  <2>1. PICK f : Passes(f, n - 1, D, start, step)
    BY <1>3, <1>4, <1>6
  <2>2. f \in [0..(n - 1) -> D] /\ f[0] = start /\ n \in 1..size
    BY <1>3, <1>6, <2>1 DEF Passes
  <2>3. \A i \in 1..(n - 1) : f[i] = step[<<i, f[i - 1]>>]
    BY <2>1 DEF Passes
  <2> DEFINE g == [i \in 0..n |-> IF i = n THEN step[<<n, f[n - 1]>>] ELSE f[i]]
  <2>4. /\ g[0] = start /\ g[n] = step[<<n, f[n - 1]>>]
        /\ \A i \in 0..(n - 1) : g[i] = f[i]
    BY <2>2
  <2>5. g \in [0..n -> D]
    <3>1. f[n - 1] \in D
      BY <2>2
    <3>2. step[<<n, f[n - 1]>>] \in D
      BY <2>2, <3>1
    <3>3. \A i \in 0..n : (IF i = n THEN step[<<n, f[n - 1]>>] ELSE f[i]) \in D
      BY <2>2, <3>2
    <3> QED BY <3>3
  <2> HIDE DEF g
  <2>6. ASSUME NEW i \in 1..n PROVE g[i] = step[<<i, g[i - 1]>>]
    <3>1. g[i - 1] = f[i - 1]
      BY <2>2, <2>4
    <3>2. CASE i = n
      BY <2>4, <3>1, <3>2
    <3>3. CASE i # n
      BY <2>2, <2>3, <2>4, <3>1, <3>3
    <3> QED BY <3>2, <3>3
  <2>7. Passes(g, n, D, start, step)
    BY <2>4, <2>5, <2>6 DEF Passes
  <2> QED BY <1>3, <2>7
<1> QED BY <1>5, <1>6

\* What is computed so stays in D: then it is a pass.
LEMMA PassKept ==
  ASSUME NEW size \in Nat, NEW D, NEW start \in D, NEW step \in [(1..size) \X D -> D],
         NEW f, DOMAIN f = 0..size, f = [n \in DOMAIN f |-> f[n]], f[0] = start,
         \A n \in 1..size : f[n - 1] \in D => f[n] = step[<<n, f[n - 1]>>]
  PROVE  Passes(f, size, D, start, step)
<1> DEFINE Wrong == {n \in 0..size : f[n] \notin D}
<1>1. Wrong = {}
  <2>1. SUFFICES ASSUME Wrong # {} PROVE FALSE
    OBVIOUS
  <2>2. PICK n \in Wrong : \A m \in Wrong : n <= m
    <3>1. Wrong \subseteq Nat
      OBVIOUS
    <3> HIDE DEF Wrong
    <3> QED BY <2>1, <3>1, LowestNumber, Zenon
  <2>3. n \in 1..size /\ n - 1 \in 0..size /\ n - 1 \notin Wrong
    BY <2>2
  <2>4. f[n - 1] \in D
    BY <2>3
  <2>5. f[n] = step[<<n, f[n - 1]>>] /\ step[<<n, f[n - 1]>>] \in D
    BY <2>3, <2>4
  <2> QED BY <2>2, <2>5
<1>2. \A n \in 0..size : f[n] \in D
  BY <1>1
<1>3. f \in [0..size -> D]
  BY <1>2
<1>4. \A n \in 1..size : f[n] = step[<<n, f[n - 1]>>]
  <2> SUFFICES ASSUME NEW n \in 1..size PROVE f[n] = step[<<n, f[n - 1]>>]
    OBVIOUS
  <2>1. n - 1 \in 0..size
    OBVIOUS
  <2> QED BY <1>2, <2>1
<1> QED BY <1>3, <1>4 DEF Passes

\* A bounded set of natural numbers that is not empty has a greatest member.
LEMMA GreatestNumber ==
  ASSUME NEW S, S \subseteq Nat, S # {}, NEW bound \in Nat, \A x \in S : x <= bound
  PROVE  \E x \in S : \A y \in S : x >= y
<1> DEFINE T == {bound - x : x \in S}
<1>1. T \subseteq Nat /\ T # {}
  <2>1. ASSUME NEW x \in S PROVE bound - x \in Nat
    <3>1. x \in Nat /\ x <= bound
      OBVIOUS
    <3> QED BY <3>1
  <2>2. PICK x \in S : TRUE
    OBVIOUS
  <2>3. bound - x \in T
    OBVIOUS
  <2>4. \A t \in T : t \in Nat
    BY <2>1
  <2> QED BY <2>3, <2>4
<1>2. PICK t \in T : \A u \in T : t <= u
  <2> HIDE DEF T
  <2> QED BY <1>1, LowestNumber, Zenon
<1>3. PICK x \in S : t = bound - x
  OBVIOUS
<1>4. \A y \in S : bound - x <= bound - y
  BY <1>2, <1>3
<1>5. \A y \in S : x \in Nat /\ y \in Nat
  OBVIOUS
<1> QED BY <1>4, <1>5

==============================================================================
