----------------------------- MODULE SumLemmas -----------------------------
(***************************************************************************)
(* Sums over finite sets.  They are recursive, and the library says        *)
(* nothing of them that can be cited without an operator argument; what    *)
(* the proofs need is proved here, from the fact that natural numbers that *)
(* are not none have a least one.                                          *)
(***************************************************************************)
EXTENDS Integers, FiniteSets, Functions, FiniteSetTheorems,
        WellFoundedInduction, NaturalsInduction, TLAPS

-----------------------------------------------------------------------------
(* Least elements, and sums over finite sets. *)

\* The least of some natural numbers.
LEMMA NatLeast ==
  ASSUME NEW T \in SUBSET Nat, T # {}
  PROVE  \E x \in T : \A y \in T : x <= y
<1> DEFINE R == OpToRel(<, Nat)
<1>1. IsWellFoundedOn(R, Nat)
  BY NatLessThanWellFounded
<1>2. \A x, y \in Nat : x < y => <<x, y>> \in R
  BY DEF OpToRel
<1> HIDE DEF R
<1>3. PICK x \in T : \A y \in T : ~(<<y, x>> \in R)
  BY <1>1, WFMin
<1>4. ASSUME NEW y \in T PROVE x <= y
  <2>1. ~(y < x)
    BY <1>2, <1>3
  <2> QED BY <2>1
<1> QED BY <1>4

\* A smallest of some finite sets.
LEMMA SetLeast ==
  ASSUME NEW S, IsFiniteSet(S), NEW T \in SUBSET (SUBSET S), T # {}
  PROVE  \E s \in T : \A x \in s : s \ {x} \notin T
<1>1. \A s \in SUBSET S : IsFiniteSet(s) /\ Cardinality(s) \in Nat
  BY FS_Subset, FS_CardinalityType
<1> DEFINE C == {Cardinality(s) : s \in T}
<1>2. C \in SUBSET Nat /\ C # {}
  BY <1>1
<1>3. PICK n \in C : \A m \in C : n <= m
  <2> HIDE DEF C
  <2> QED BY <1>2, NatLeast
<1>4. PICK s \in T : Cardinality(s) = n
  BY <1>3
<1>5. ASSUME NEW x \in s, s \ {x} \in T PROVE FALSE
  <2>1. Cardinality(s \ {x}) = Cardinality(s) - 1
    BY <1>1, FS_RemoveElement
  <2>2. n <= Cardinality(s \ {x})
    BY <1>3, <1>5
  <2> QED BY <1>1, <1>4, <2>1, <2>2
<1> QED BY <1>5

\* g is to be summed over S.
Summable(g, S) == IsFiniteSet(S) /\ \A x \in S : g[x] \in Int

Pick(s) == CHOOSE x \in s : TRUE

\* h gives the sums of g over the sets of D.
Sums(g, D, h) ==
  h = [s \in D |-> IF s = {} THEN 0 ELSE g[Pick(s)] + h[s \ {Pick(s)}]]

Table(g, S, h) == Sums(g, SUBSET S, h)

LEMMA SumIs ==
  ASSUME NEW g, NEW S
  PROVE  SumFunctionOnSet(g, S) = (CHOOSE h : Table(g, S, h))[S]
BY DEF Table, SumFunctionOnSet, FoldFunctionOnSet, MapThenFoldSet, Sums, Pick

LEMMA PickIn ==
  ASSUME NEW s, s # {}
  PROVE  Pick(s) \in s
BY DEF Pick

LEMMA SumsExist ==
  ASSUME NEW S, NEW g, Summable(g, S)
  PROVE  \E h \in [SUBSET S -> Int] : Table(g, S, h)
<1> USE DEF Summable
<1>1. \A s \in SUBSET S : IsFiniteSet(s) /\ Cardinality(s) \in Nat
  BY FS_Subset, FS_CardinalityType
<1> DEFINE Upto(n) == {s \in SUBSET S : Cardinality(s) <= n}
           P(n) == \E h \in [Upto(n) -> Int] : Sums(g, Upto(n), h)
           Bad == {n \in Nat : ~P(n)}
<1>2. P(0)
  <2>1. \A s \in Upto(0) : s = {}
    BY <1>1, FS_EmptySet
  <2> DEFINE h == [s \in Upto(0) |-> 0]
  <2>2. h \in [Upto(0) -> Int] /\ Sums(g, Upto(0), h)
    BY <2>1 DEF Sums
  <2> QED BY <2>2
<1>3. ASSUME NEW n \in Nat, P(n) PROVE P(n + 1)
  <2>1. PICK h \in [Upto(n) -> Int] : Sums(g, Upto(n), h)
    BY <1>3
  <2>2. ASSUME NEW s \in Upto(n + 1), s # {}
        PROVE  Pick(s) \in S /\ s \ {Pick(s)} \in Upto(n) /\ g[Pick(s)] \in Int
    <3>1. Pick(s) \in s
      BY <2>2, PickIn
    <3>2. Cardinality(s \ {Pick(s)}) = Cardinality(s) - 1
      BY <1>1, <3>1, FS_RemoveElement
    <3> QED BY <1>1, <3>1, <3>2
  <2> DEFINE k == [s \in Upto(n + 1) |-> IF s = {} THEN 0 ELSE g[Pick(s)] + h[s \ {Pick(s)}]]
  <2>3. k \in [Upto(n + 1) -> Int]
    BY <2>2
  <2>4. Upto(n) \subseteq Upto(n + 1)
    BY <1>1
  <2>5. ASSUME NEW s \in Upto(n) PROVE k[s] = h[s]
    <3>1. h[s] = IF s = {} THEN 0 ELSE g[Pick(s)] + h[s \ {Pick(s)}]
      BY <2>1 DEF Sums
    <3>2. s \in Upto(n + 1)
      BY <2>4
    <3> QED BY <3>1, <3>2
  <2>6. k = [s \in Upto(n + 1) |-> IF s = {} THEN 0 ELSE g[Pick(s)] + k[s \ {Pick(s)}]]
    BY <2>2, <2>5
  <2> HIDE DEF k
  <2>7. Sums(g, Upto(n + 1), k)
    BY <2>6 DEF Sums
  <2> QED BY <2>3, <2>7
<1>4. Bad = {}
  <2> HIDE DEF P, Bad
  <2> SUFFICES ASSUME Bad # {} PROVE FALSE
    OBVIOUS
  <2> USE DEF Bad
  <2>1. PICK n \in Bad : \A m \in Bad : n <= m
    <3>1. Bad \in SUBSET Nat
      OBVIOUS
    <3> HIDE DEF Bad
    <3> QED BY <3>1, NatLeast
  <2>2. n # 0 /\ n \in Nat
    BY <1>2, <2>1
  <2>3. n - 1 \in Nat /\ n - 1 \notin Bad
    BY <2>1, <2>2
  <2>4. P(n - 1)
    BY <2>3
  <2>5. P(n)
    BY <1>3, <2>3, <2>4
  <2> QED BY <2>1, <2>5
<1>5. P(Cardinality(S))
  <2> HIDE DEF P
  <2> QED BY <1>1, <1>4
<1>6. Upto(Cardinality(S)) = SUBSET S
  BY FS_Subset, FS_CardinalityType
<1> QED BY <1>5, <1>6 DEF Table

\* Two tables of sums agree where both are.
LEMMA SumsAgree ==
  ASSUME NEW S, IsFiniteSet(S), NEW g, NEW h, Table(g, S, h),
         NEW T, T \subseteq S, NEW k, Table(g, T, k)
  PROVE  \A s \in SUBSET T : h[s] = k[s]
<1> DEFINE Bad == {s \in SUBSET T : h[s] # k[s]}
<1> SUFFICES ASSUME Bad # {} PROVE FALSE
  OBVIOUS
<1>1. PICK s \in Bad : \A x \in s : s \ {x} \notin Bad
  <2>1. Bad \in SUBSET (SUBSET T) /\ IsFiniteSet(T)
    BY FS_Subset
  <2> HIDE DEF Bad
  <2> QED BY <2>1, SetLeast
<1>2. s \in SUBSET T /\ s \in SUBSET S
  BY <1>1
<1>3. /\ h[s] = IF s = {} THEN 0 ELSE g[Pick(s)] + h[s \ {Pick(s)}]
      /\ k[s] = IF s = {} THEN 0 ELSE g[Pick(s)] + k[s \ {Pick(s)}]
  BY <1>2 DEF Sums, Table
<1>4. s # {} => s \ {Pick(s)} \notin Bad /\ s \ {Pick(s)} \in SUBSET T
  BY <1>1, <1>2, PickIn
<1> QED BY <1>1, <1>3, <1>4

\* The sums over the sets of S.
LEMMA SumTable ==
  ASSUME NEW S, NEW g, Summable(g, S)
  PROVE  \A s \in SUBSET S :
           /\ SumFunctionOnSet(g, s) \in Int
           /\ SumFunctionOnSet(g, s) =
                IF s = {} THEN 0 ELSE g[Pick(s)] + SumFunctionOnSet(g, s \ {Pick(s)})
<1>1. PICK h \in [SUBSET S -> Int] : Table(g, S, h)
  BY SumsExist
<1>2. ASSUME NEW s \in SUBSET S PROVE SumFunctionOnSet(g, s) = h[s]
  <2>1. Summable(g, s) /\ IsFiniteSet(S)
    BY FS_Subset DEF Summable
  <2> DEFINE k == CHOOSE f : Table(g, s, f)
  <2>2. \E f : Table(g, s, f)
    BY <2>1, SumsExist
  <2>3. Table(g, s, k)
    BY <2>2
  <2> HIDE DEF k
  <2>4. \A r \in SUBSET s : h[r] = k[r]
    BY <1>1, <2>1, <2>3, SumsAgree
  <2> QED BY <2>4, SumIs DEF k
<1>3. ASSUME NEW s \in SUBSET S
      PROVE  h[s] = IF s = {} THEN 0 ELSE g[Pick(s)] + h[s \ {Pick(s)}]
  BY <1>1 DEF Sums, Table
<1>4. ASSUME NEW s \in SUBSET S PROVE s \ {Pick(s)} \in SUBSET S
  OBVIOUS
<1> QED BY <1>2, <1>3, <1>4

\* What is summed last.
LEMMA SumWithout ==
  ASSUME NEW S, NEW g, Summable(g, S), NEW r \in SUBSET S, NEW y \in r
  PROVE  SumFunctionOnSet(g, r) = g[y] + SumFunctionOnSet(g, r \ {y})
<1> DEFINE Sum(s) == SumFunctionOnSet(g, s)
           Bad == {s \in SUBSET S : \E x \in s : Sum(s) # g[x] + Sum(s \ {x})}
<1>1. \A s \in SUBSET S : /\ Sum(s) \in Int
                          /\ s # {} => Sum(s) = g[Pick(s)] + Sum(s \ {Pick(s)})
  <2>1. \A s \in SUBSET S :
          /\ SumFunctionOnSet(g, s) \in Int
          /\ SumFunctionOnSet(g, s) =
               IF s = {} THEN 0 ELSE g[Pick(s)] + SumFunctionOnSet(g, s \ {Pick(s)})
    BY SumTable
  <2> QED BY <2>1
<1> HIDE DEF Sum
<1>2. Bad = {}
  <2> SUFFICES ASSUME Bad # {} PROVE FALSE
    OBVIOUS
  <2>1. PICK s \in Bad : \A x \in s : s \ {x} \notin Bad
    <3>1. Bad \in SUBSET (SUBSET S)
      OBVIOUS
    <3> HIDE DEF Bad
    <3> QED BY <3>1, SetLeast DEF Summable
  <2>2. PICK x \in s : Sum(s) # g[x] + Sum(s \ {x})
    BY <2>1
  <2> DEFINE p == Pick(s)
  <2>3. s \in SUBSET S /\ p \in s /\ Sum(s) = g[p] + Sum(s \ {p})
    BY <1>1, <2>1, <2>2, PickIn
  <2> HIDE DEF p
  <2>4. p # x /\ x \in s \ {p} /\ p \in s \ {x} /\ (s \ {p}) \ {x} = (s \ {x}) \ {p}
    BY <2>2, <2>3
  <2>5. s \ {p} \in SUBSET S /\ s \ {x} \in SUBSET S /\ (s \ {x}) \ {p} \in SUBSET S
    BY <2>3
  <2>6. Sum(s \ {p}) = g[x] + Sum((s \ {x}) \ {p})
    <3>1. s \ {p} \notin Bad /\ s \ {p} \in SUBSET S
      BY <2>1, <2>3, <2>5
    <3>2. Sum(s \ {p}) = g[x] + Sum((s \ {p}) \ {x})
      BY <2>4, <3>1
    <3> QED BY <2>4, <3>2
  <2>7. Sum(s \ {x}) = g[p] + Sum((s \ {x}) \ {p})
    <3>1. s \ {x} \notin Bad /\ s \ {x} \in SUBSET S
      BY <2>1, <2>2, <2>5
    <3> QED BY <2>4, <3>1
  <2>8. g[x] \in Int /\ g[p] \in Int /\ Sum((s \ {x}) \ {p}) \in Int
    BY <1>1, <2>2, <2>3, <2>5 DEF Summable
  <2>9. g[p] + (g[x] + Sum((s \ {x}) \ {p})) = g[x] + (g[p] + Sum((s \ {x}) \ {p}))
    BY <2>8
  <2> QED BY <2>2, <2>3, <2>6, <2>7, <2>9
<1>3. Sum(r) = g[y] + Sum(r \ {y})
  BY <1>2
<1> QED BY <1>3 DEF Sum

\* The sum of nothing, of some numbers, with one more, and of equal ones.
LEMMA SumType ==
  ASSUME NEW S, NEW g, Summable(g, S)
  PROVE  SumFunctionOnSet(g, S) \in Int
<1>1. S \in SUBSET S
  OBVIOUS
<1> QED BY <1>1, SumTable

LEMMA SumEmpty ==
  ASSUME NEW g
  PROVE  SumFunctionOnSet(g, {}) = 0
<1>1. Summable(g, {}) /\ {} \in SUBSET {}
  BY FS_EmptySet DEF Summable
<1> QED BY <1>1, SumTable

LEMMA SumTake ==
  ASSUME NEW S, NEW g, Summable(g, S), NEW x \in S
  PROVE  SumFunctionOnSet(g, S) = g[x] + SumFunctionOnSet(g, S \ {x})
<1>1. S \in SUBSET S
  OBVIOUS
<1> QED BY <1>1, SumWithout

LEMMA SumSame ==
  ASSUME NEW S, NEW g, NEW h, Summable(g, S), Summable(h, S), \A x \in S : h[x] = g[x]
  PROVE  SumFunctionOnSet(h, S) = SumFunctionOnSet(g, S)
<1> DEFINE Bad == {s \in SUBSET S : SumFunctionOnSet(h, s) # SumFunctionOnSet(g, s)}
<1>1. Bad = {}
  <2> SUFFICES ASSUME Bad # {} PROVE FALSE
    OBVIOUS
  <2>1. PICK s \in Bad : \A x \in s : s \ {x} \notin Bad
    <3>1. Bad \in SUBSET (SUBSET S) /\ IsFiniteSet(S)
      BY DEF Summable
    <3> HIDE DEF Bad
    <3> QED BY <3>1, SetLeast
  <2>2. s \in SUBSET S /\ Summable(g, s) /\ Summable(h, s)
    BY <2>1, FS_Subset DEF Summable
  <2>3. s # {}
    BY <2>1, SumEmpty
  <2>4. PICK x \in s : TRUE
    BY <2>3
  <2>5. /\ SumFunctionOnSet(g, s) = g[x] + SumFunctionOnSet(g, s \ {x})
        /\ SumFunctionOnSet(h, s) = h[x] + SumFunctionOnSet(h, s \ {x})
    BY <2>2, SumTake
  <2>6. SumFunctionOnSet(h, s \ {x}) = SumFunctionOnSet(g, s \ {x})
    BY <2>1, <2>2
  <2> QED BY <2>1, <2>2, <2>5, <2>6
<1> QED BY <1>1

LEMMA SumChanged ==
  ASSUME NEW S, IsFiniteSet(S), NEW g \in [S -> Int], NEW h \in [S -> Int],
         NEW a \in S, \A x \in S \ {a} : h[x] = g[x]
  PROVE  SumFunctionOnSet(h, S) = SumFunctionOnSet(g, S) + (h[a] - g[a])
<1>1. /\ Summable(h, S) /\ Summable(g, S)
      /\ Summable(g, S \ {a}) /\ Summable(h, S \ {a})
  BY FS_Subset DEF Summable
<1>2. SumFunctionOnSet(h, S \ {a}) = SumFunctionOnSet(g, S \ {a})
  BY <1>1, SumSame
<1>3. SumFunctionOnSet(g, S \ {a}) \in Int
  BY <1>1, SumType
<1>4. SumFunctionOnSet(h, S) = h[a] + SumFunctionOnSet(h, S \ {a})
  BY <1>1, SumTake
<1>5. SumFunctionOnSet(g, S) = g[a] + SumFunctionOnSet(g, S \ {a})
  BY <1>1, SumTake
<1>6. g[a] \in Int /\ h[a] \in Int
  OBVIOUS
<1> QED BY <1>2, <1>3, <1>4, <1>5, <1>6

\* The sum of numbers and the next one.
LEMMA SumNext ==
  ASSUME NEW m \in Int, NEW n \in Int, m <= n + 1, NEW g, \A i \in m..(n + 1) : g[i] \in Int
  PROVE  SumFunctionOnSet(g, m..(n + 1)) = SumFunctionOnSet(g, m..n) + g[n + 1]
<1> DEFINE A == m..(n + 1)
           B == m..n
<1>1. Summable(g, A) /\ Summable(g, B)
  BY FS_Interval DEF Summable
<1>2. n + 1 \in A /\ A \ {n + 1} = B /\ g[n + 1] \in Int
  OBVIOUS
<1> HIDE DEF A, B
<1>3. SumFunctionOnSet(g, B) \in Int
  BY <1>1, SumType
<1>4. SumFunctionOnSet(g, A) = g[n + 1] + SumFunctionOnSet(g, A \ {n + 1})
  BY <1>1, <1>2, SumTake
<1>5. SumFunctionOnSet(g, A) = SumFunctionOnSet(g, B) + g[n + 1]
  BY <1>2, <1>3, <1>4
<1> QED BY <1>5 DEF A, B

\* What holds of 0, and of i + 1 if of i, holds up to n.
LEMMA UpTo ==
  ASSUME NEW n \in Nat, NEW T, 0 \in T,
         \A i \in 0..n : i < n /\ i \in T => i + 1 \in T
  PROVE  \A i \in 0..n : i \in T
<1> DEFINE Bad == {i \in 0..n : i \notin T}
<1> SUFFICES ASSUME Bad # {} PROVE FALSE
  OBVIOUS
<1>1. PICK i \in Bad : \A j \in Bad : i <= j
  <2>1. Bad \in SUBSET Nat
    OBVIOUS
  <2> HIDE DEF Bad
  <2> QED BY <2>1, NatLeast
<1>2. i # 0 /\ i - 1 \in 0..n /\ i - 1 < n
  BY <1>1
<1>3. i - 1 \in T
  BY <1>1, <1>2
<1> QED BY <1>1, <1>2, <1>3

\* f is made step by step from 0 to n.
Steps(n, S, first, step, f) ==
  /\ f \in [0..n -> S] /\ f[0] = first
  /\ \A i \in 1..n : f[i] = step[i][f[i - 1]]

\* There is such a function, and its values stay what the steps keep.
LEMMA StepsExist ==
  ASSUME NEW n \in Nat, NEW S, NEW first \in S, NEW step \in [1..n -> [S -> S]]
  PROVE  \E f : Steps(n, S, first, step, f)
<1> DEFINE P(m) == \E f : Steps(m, S, first, step, f)
           T == {m \in 0..n : P(m)}
<1>1. 0 \in T
  <2> DEFINE f == [i \in 0..0 |-> first]
  <2>1. f \in [0..0 -> S] /\ f[0] = first
    OBVIOUS
  <2>2. 1..0 = {}
    OBVIOUS
  <2> HIDE DEF f
  <2>3. Steps(0, S, first, step, f)
    BY <2>1, <2>2 DEF Steps
  <2> QED BY <2>3
<1>2. ASSUME NEW m \in 0..n, m < n, m \in T PROVE m + 1 \in T
  <2>1. PICK f : Steps(m, S, first, step, f)
    BY <1>2
  <2>2. f \in [0..m -> S] /\ f[0] = first /\ \A i \in 1..m : f[i] = step[i][f[i - 1]]
    BY <2>1 DEF Steps
  <2> DEFINE g == [i \in 0..(m + 1) |-> IF i = m + 1 THEN step[m + 1][f[m]] ELSE f[i]]
  <2>3. g \in [0..(m + 1) -> S]
    <3>1. f[m] \in S /\ m + 1 \in 1..n
      BY <1>2, <2>2
    <3>2. step[m + 1][f[m]] \in S
      BY <3>1
    <3> QED BY <2>2, <3>2
  <2>4. g[0] = first
    BY <2>2
  <2>5. ASSUME NEW i \in 1..(m + 1) PROVE g[i] = step[i][g[i - 1]]
    <3>1. CASE i = m + 1
      BY <3>1
    <3>2. CASE i # m + 1
      BY <2>2, <3>2
    <3> QED BY <3>1, <3>2
  <2> HIDE DEF g
  <2>6. Steps(m + 1, S, first, step, g)
    BY <2>3, <2>4, <2>5 DEF Steps
  <2> QED BY <1>2, <2>6
<1>3. \A m \in 0..n : m \in T
  <2> HIDE DEF T
  <2> QED BY <1>1, <1>2, UpTo
<1> QED BY <1>3

LEMMA StepsStay ==
  ASSUME NEW n \in Nat, NEW S, NEW g, g[0] \in S,
         \A i \in 1..n : g[i - 1] \in S => g[i] \in S
  PROVE  \A i \in 0..n : g[i] \in S
<1> DEFINE T == {i \in 0..n : g[i] \in S}
<1>1. 0 \in T
  OBVIOUS
<1>2. ASSUME NEW i \in 0..n, i < n, i \in T PROVE i + 1 \in T
  <2>1. i + 1 \in 1..n /\ (i + 1) - 1 = i
    BY <1>2
  <2>2. g[(i + 1) - 1] \in S => g[i + 1] \in S
    BY <2>1
  <2> QED BY <1>2, <2>1, <2>2
<1>3. \A i \in 0..n : i \in T
  <2> HIDE DEF T
  <2> QED BY <1>1, <1>2, UpTo
<1> QED BY <1>3

=============================================================================
