---------------------------- MODULE LeptVarProofs ----------------------------
(***************************************************************************)
(* No call of a leptvar is lost and a full read is off by no more than     *)
(* what moved while it read, for any number of threads and readers, any    *)
(* amounts, word and cache sizes.                                          *)
(*                                                                         *)
(* The sums over the threads are folds.  Their theory is built here from   *)
(* the well-foundedness of the strict subsets of a finite set.             *)
(***************************************************************************)
EXTENDS LeptVar, FiniteSetTheorems, SequenceTheorems, TLAPS

\* A remainder is determined by the interval it lies in.
LEMMA ModUnique ==
  ASSUME NEW m \in Nat \ {0}, NEW x \in Int, NEW q \in Int, NEW r \in 0..(m - 1),
         x = m * q + r
  PROVE  x % m = r
<1> DEFINE d == q - (x \div m)
<1>1. /\ x \div m \in Int
      /\ x % m \in 0..(m - 1)
      /\ x = m * (x \div m) + (x % m)
  BY SMT
<1>2. m * d = (x % m) - r
  BY <1>1
<1>3. d >= 1 => m * d >= m
  BY <1>1
<1>4. d <= -1 => m * d <= -m
  BY <1>1
<1>5. d = 0
  BY <1>1, <1>2, <1>3, <1>4
<1>6. QED
  BY <1>1, <1>2, <1>5

\* Adding the same number keeps remainders equal.
LEMMA ModAdd ==
  ASSUME NEW m \in Nat \ {0}, NEW a \in Int, NEW b \in Int, NEW d \in Int, a % m = b % m
  PROVE  (a + d) % m = (b + d) % m
<1>1. a \div m \in Int /\ a % m \in 0..(m - 1) /\ a = m * (a \div m) + (a % m)
  BY SMT
<1>2. b \div m \in Int /\ b = m * (b \div m) + (b % m)
  BY SMT
<1> DEFINE e == b + d
<1>3. e \div m \in Int /\ e % m \in 0..(m - 1) /\ e = m * (e \div m) + (e % m)
  BY SMT
<1>4. PICK p \in Int, q \in Int, k \in Int, r \in 0..(m - 1) :
        /\ a = m * p + (a % m) /\ b = m * q + (a % m)
        /\ b + d = m * k + r /\ r = (b + d) % m
  BY <1>1, <1>2, <1>3
<1>5. a % m \in Int
  BY <1>1
<1>6. a + d = m * ((p - q) + k) + r
  <2>1. m * p \in Int /\ m * q \in Int /\ m * k \in Int
    BY <1>4
  <2>2. m * ((p - q) + k) = (m * p - m * q) + m * k
    BY <1>4
  <2>3. PICK P \in Int, Q \in Int, K \in Int : P = m * p /\ Q = m * q /\ K = m * k
    BY <2>1
  <2>4. a = P + (a % m) /\ b = Q + (a % m) /\ b + d = K + r /\ r \in Int
    BY <1>4, <2>3
  <2>5. a + d = (P - Q) + K + r
    BY <1>5, <2>4
  <2>6. m * ((p - q) + k) = (P - Q) + K
    BY <2>2, <2>3
  <2>7. QED
    BY <2>4, <2>5, <2>6
<1>7. PICK z \in Int : a + d = m * z + r
  <2>1. (p - q) + k \in Int
    BY <1>4
  <2>2. QED
    BY <1>6, <2>1
<1>8. (a + d) % m = r
  <2>1. a + d \in Int
    OBVIOUS
  <2>2. QED
    BY <1>7, <2>1, ModUnique
<1>9. QED
  BY <1>4, <1>8

\* A remainder may be taken before a sum or after it.
LEMMA ModOnce ==
  ASSUME NEW m \in Nat \ {0}, NEW a \in Int, NEW d \in Int
  PROVE  (a % m) \in 0..(m - 1) /\ ((a % m) + d) % m = (a + d) % m
<1>1. (a % m) \in 0..(m - 1) /\ (a % m) \in Int
  BY SMT
<1>2. a % m = m * 0 + (a % m)
  BY <1>1
<1>3. (a % m) % m = a % m
  BY <1>1, <1>2, ModUnique
<1> DEFINE b == a % m
<1>4. b \in Int /\ b % m = a % m
  BY <1>1, <1>3
<1> HIDE DEF b
<1>5. (b + d) % m = (a + d) % m
  BY <1>4, ModAdd
<1>6. QED
  BY <1>1, <1>5 DEF b

\* Induction over a finite set, stated with a set of sets: an operator cannot be
\* passed to a lemma here.
LEMMA FiniteInduction ==
  ASSUME NEW S, IsFiniteSet(S), NEW Q, {} \in Q,
         \A T \in SUBSET S, x \in S : x \notin T /\ T \in Q => T \cup {x} \in Q
  PROVE  S \in Q
<1> DEFINE Bad == {T \in SUBSET S : T \notin Q}
           R == StrictSubsetOrdering(S)
<1>1. IsWellFoundedOn(R, SUBSET S)
  BY FS_StrictSubsetOrderingWellFounded, FS_FiniteSubsetsOfFinite
<1>2. SUFFICES ASSUME Bad # {} PROVE FALSE
  OBVIOUS
<1>3. PICK T \in Bad : \A U \in Bad : <<U, T>> \notin R
  <2> HIDE DEF R
  <2>1. Bad \subseteq SUBSET S
    OBVIOUS
  <2> HIDE DEF Bad
  <2>2. QED
    BY <1>1, <1>2, <2>1, WFMin
<1>4. PICK x \in T : TRUE
  OBVIOUS
<1>5. T \ {x} \notin Bad
  BY <1>3, <1>4 DEF StrictSubsetOrdering
<1>6. T \ {x} \in Q /\ (T \ {x}) \cup {x} = T
  BY <1>4, <1>5
<1>7. QED
  BY <1>4, <1>6

\* Induction over the numbers, with a set of numbers.
LEMMA NaturalInduction ==
  ASSUME NEW Q, 0 \in Q, \A n \in Nat : n \in Q => n + 1 \in Q
  PROVE  \A n \in Nat : n \in Q
<1> DEFINE Bad == {n \in Nat : n \notin Q}
           R == OpToRel(<, Nat)
<1>1. SUFFICES ASSUME Bad # {} PROVE FALSE
  OBVIOUS
<1>2. PICK n \in Bad : \A m \in Bad : <<m, n>> \notin R
  <2>1. Bad \subseteq Nat /\ IsWellFoundedOn(R, Nat)
    BY NatLessThanWellFounded
  <2> HIDE DEF Bad, R
  <2>2. QED
    BY <1>1, <2>1, WFMin
<1>3. n # 0 /\ n - 1 \in Nat /\ n - 1 < n /\ n = (n - 1) + 1
  <2> HIDE DEF R
  <2>1. n \in Nat /\ n \notin Q
    BY <1>2
  <2>2. n # 0
    BY <2>1
  <2>3. QED
    BY <2>1, <2>2
<1>4. n - 1 \notin Bad
  BY <1>2, <1>3 DEF OpToRel
<1>5. QED
  BY <1>2, <1>3, <1>4

Chosen(s) == CHOOSE x \in s : TRUE
Stepped(f, g, s) == IF s = {} THEN 0 ELSE f[Chosen(s)] + g[s \ {Chosen(s)}]

Recursive(g, f, S) == g = [s \in SUBSET S |-> Stepped(f, g, s)]

\* g[T] is the sum of f over T
Adds(g, f, S) ==
  /\ g[{}] = 0
  /\ \A T \in SUBSET S, x \in S : x \notin T => g[T \cup {x}] = g[T] + f[x]

\* There is a function that computes the sums by the fold's recursion.
LEMMA SumExists ==
  ASSUME NEW S, IsFiniteSet(S), NEW f, \A x \in S : f[x] \in Int
  PROVE  \E g \in [SUBSET S -> Int] : Recursive(g, f, S)
<1> DEFINE Q == {n \in Nat : \E g \in [SUBSET S -> Int] :
                   \A s \in SUBSET S : Cardinality(s) <= n => g[s] = Stepped(f, g, s)}
<1>1. \A s \in SUBSET S : IsFiniteSet(s) /\ Cardinality(s) \in Nat
  BY FS_Subset, FS_CardinalityType
<1>2. \A s \in SUBSET S : s # {} =>
        /\ Chosen(s) \in s /\ Chosen(s) \in S /\ s \ {Chosen(s)} \in SUBSET S
        /\ Cardinality(s \ {Chosen(s)}) = Cardinality(s) - 1
  BY <1>1, FS_RemoveElement DEF Chosen
<1>3. 0 \in Q
  <2> DEFINE g == [s \in SUBSET S |-> 0]
  <2>1. \A s \in SUBSET S : Cardinality(s) <= 0 => s = {}
    BY <1>1, FS_EmptySet
  <2>2. \A s \in SUBSET S : Cardinality(s) <= 0 => g[s] = Stepped(f, g, s)
    BY <2>1 DEF Stepped
  <2>3. g \in [SUBSET S -> Int]
    OBVIOUS
  <2>4. QED
    BY <2>2, <2>3
<1>4. ASSUME NEW n \in Nat, n \in Q
      PROVE  n + 1 \in Q
  <2>1. PICK g \in [SUBSET S -> Int] :
               \A s \in SUBSET S : Cardinality(s) <= n => g[s] = Stepped(f, g, s)
    BY <1>4
  <2> DEFINE h == [s \in SUBSET S |-> Stepped(f, g, s)]
  <2>2. h \in [SUBSET S -> Int]
    <3>1. ASSUME NEW s \in SUBSET S PROVE Stepped(f, g, s) \in Int
      <4>1. CASE s = {}
        BY <4>1 DEF Stepped
      <4>2. CASE s # {}
        <5>1. f[Chosen(s)] \in Int /\ g[s \ {Chosen(s)}] \in Int
          BY <1>2, <2>1, <4>2
        <5>2. QED
          BY <4>2, <5>1 DEF Stepped
      <4>3. QED
        BY <4>1, <4>2
    <3>2. QED
      BY <3>1
  <2>3. ASSUME NEW s \in SUBSET S, Cardinality(s) <= n + 1
        PROVE  h[s] = Stepped(f, h, s)
    <3>1. CASE s = {}
      BY <3>1 DEF Stepped
    <3>2. CASE s # {}
      <4> DEFINE r == s \ {Chosen(s)}
      <4>1. r \in SUBSET S /\ Cardinality(r) <= n
        BY <1>1, <1>2, <2>3, <3>2
      <4>2. g[r] = Stepped(f, g, r) /\ h[r] = Stepped(f, g, r)
        BY <2>1, <4>1
      <4>3. h[s] = f[Chosen(s)] + g[r] /\ Stepped(f, h, s) = f[Chosen(s)] + h[r]
        BY <3>2 DEF Stepped
      <4>4. QED
        BY <4>2, <4>3
    <3>3. QED
      BY <3>1, <3>2
  <2> HIDE DEF h
  <2>4. QED
    BY <2>2, <2>3
<1>5. Cardinality(S) \in Nat /\ Cardinality(S) \in Q
  <2> HIDE DEF Q
  <2>1. Cardinality(S) \in Nat
    BY FS_CardinalityType
  <2>2. QED
    BY <1>3, <1>4, <2>1, NaturalInduction
<1>6. PICK g \in [SUBSET S -> Int] :
             \A s \in SUBSET S : Cardinality(s) <= Cardinality(S) => g[s] = Stepped(f, g, s)
  BY <1>5
<1>7. \A s \in SUBSET S : Cardinality(s) <= Cardinality(S)
  BY FS_Subset
<1>8. g = [s \in SUBSET S |-> Stepped(f, g, s)]
  BY <1>6, <1>7
<1>9. QED
  BY <1>8 DEF Recursive

\* The fold adds: whichever element it takes first, its value is the same.
LEMMA SumOf ==
  ASSUME NEW S, IsFiniteSet(S), NEW f, \A x \in S : f[x] \in Int
  PROVE  \E g \in [SUBSET S -> Int] : SumFunctionOnSet(f, S) = g[S] /\ Adds(g, f, S)
<1> DEFINE sum == CHOOSE g : Recursive(g, f, S)
<1>1. SumFunctionOnSet(f, S) = sum[S]
  BY DEF SumFunctionOnSet, FoldFunctionOnSet, MapThenFoldSet, Stepped, Chosen, Recursive
<1>2. \E g : Recursive(g, f, S)
  BY SumExists
<1>3. sum = [s \in SUBSET S |-> Stepped(f, sum, s)]
  BY <1>2 DEF Recursive
<1> HIDE DEF sum
<1>4. DOMAIN sum = SUBSET S /\ \A s \in SUBSET S : sum[s] = Stepped(f, sum, s)
  BY <1>3
<1>5. \A s \in SUBSET S : IsFiniteSet(s) /\ Cardinality(s) \in Nat
  BY FS_Subset, FS_CardinalityType
<1>6. \A s \in SUBSET S : \A x \in s :
        s \ {x} \in SUBSET S /\ Cardinality(s \ {x}) = Cardinality(s) - 1 /\ f[x] \in Int
  BY <1>5, FS_RemoveElement
<1>7. sum[{}] = 0
  BY <1>4 DEF Stepped
<1>8. \A s \in SUBSET S : Cardinality(s) = 0 => s = {}
  BY <1>5, FS_EmptySet
<1>9. \A s \in SUBSET S : s # {} =>
        Chosen(s) \in s /\ sum[s] = f[Chosen(s)] + sum[s \ {Chosen(s)}]
  BY <1>4 DEF Stepped, Chosen
<1>10. \A s \in SUBSET S : sum[s] \in Int
  <2> DEFINE Typed == {n \in Nat : \A s \in SUBSET S : Cardinality(s) = n => sum[s] \in Int}
  <2>1. 0 \in Typed
    BY <1>7, <1>8
  <2>2. ASSUME NEW n \in Nat, n \in Typed, NEW s \in SUBSET S, Cardinality(s) = n + 1
        PROVE  sum[s] \in Int
    <3>1. s # {}
      BY <2>2, FS_EmptySet
    <3>2. PICK c \in s : sum[s] = f[c] + sum[s \ {c}]
      BY <1>9, <3>1
    <3>3. sum[s \ {c}] \in Int /\ f[c] \in Int
      BY <1>6, <2>2
    <3>4. QED
      BY <3>2, <3>3
  <2>3. \A n \in Nat : n \in Typed => n + 1 \in Typed
    BY <2>2
  <2> HIDE DEF Typed
  <2>4. \A n \in Nat : n \in Typed
    BY <2>1, <2>3, NaturalInduction
  <2>5. QED
    BY <1>5, <2>4 DEF Typed
<1>11. \A s \in SUBSET S : \A x \in s : sum[s] = sum[s \ {x}] + f[x]
  <2> DEFINE EachWay == {n \in Nat : \A s \in SUBSET S : Cardinality(s) = n =>
                       \A x \in s : sum[s] = sum[s \ {x}] + f[x]}
  <2>1. 0 \in EachWay
    BY <1>8
  <2>2. ASSUME NEW n \in Nat, n \in EachWay, NEW s \in SUBSET S, Cardinality(s) = n + 1, NEW x \in s
        PROVE  sum[s] = sum[s \ {x}] + f[x]
    <3>1. s # {}
      OBVIOUS
    <3>2. PICK c \in s : sum[s] = f[c] + sum[s \ {c}]
      BY <1>9, <3>1
    <3>3. sum[s \ {c}] \in Int /\ f[c] \in Int /\ sum[s \ {x}] \in Int /\ f[x] \in Int
      BY <1>6, <1>10
    <3>4. CASE x = c
      BY <3>2, <3>3, <3>4
    <3>5. CASE x # c
      <4>1. PICK r \in SUBSET S : r = (s \ {x}) \ {c} /\ r = (s \ {c}) \ {x}
        OBVIOUS
      <4>2. \A y \in s : s \ {y} \in SUBSET S /\ Cardinality(s \ {y}) = n
        BY <1>6, <2>2
      <4>3. \A y \in s : \A z \in s \ {y} : sum[s \ {y}] = sum[(s \ {y}) \ {z}] + f[z]
        BY <2>2, <4>2
      <4>4. sum[s \ {x}] = sum[r] + f[c]
        BY <3>5, <4>1, <4>3
      <4>5. sum[s \ {c}] = sum[r] + f[x]
        BY <3>5, <4>1, <4>3
      <4>6. sum[r] \in Int
        BY <1>10
      <4>7. QED
        BY <3>2, <3>3, <4>4, <4>5, <4>6
    <3>6. QED
      BY <3>4, <3>5
  <2>3. \A n \in Nat : n \in EachWay => n + 1 \in EachWay
    BY <2>2
  <2> HIDE DEF EachWay
  <2>4. \A n \in Nat : n \in EachWay
    BY <2>1, <2>3, NaturalInduction
  <2>5. QED
    BY <1>5, <2>4 DEF EachWay
<1>12. sum \in [SUBSET S -> Int]
  BY <1>3, <1>4, <1>10
<1>13. Adds(sum, f, S)
  <2>1. ASSUME NEW T \in SUBSET S, NEW x \in S, x \notin T
        PROVE  sum[T \cup {x}] = sum[T] + f[x]
    <3>1. (T \cup {x}) \in SUBSET S /\ (T \cup {x}) \ {x} = T
      BY <2>1
    <3>2. QED
      BY <1>11, <3>1
  <2>2. QED
    BY <1>7, <2>1 DEF Adds
<1>14. QED
  BY <1>1, <1>12, <1>13

\* The sum over no threads is 0.
LEMMA SumEmpty ==
  ASSUME NEW f PROVE SumFunctionOnSet(f, {}) = 0
<1>1. PICK g \in [SUBSET {} -> Int] : SumFunctionOnSet(f, {}) = g[{}] /\ Adds(g, f, {})
  BY FS_EmptySet, SumOf
<1>2. QED
  BY <1>1 DEF Adds

\* A sum of integers is one.
LEMMA SumInt ==
  ASSUME NEW S, IsFiniteSet(S), NEW f, \A x \in S : f[x] \in Int
  PROVE  SumFunctionOnSet(f, S) \in Int
<1>1. PICK g \in [SUBSET S -> Int] : SumFunctionOnSet(f, S) = g[S]
  BY SumOf
<1>2. QED
  BY <1>1

\* One more element adds its term.
LEMMA SumAdd ==
  ASSUME NEW S, IsFiniteSet(S), NEW f, NEW x, x \notin S, \A y \in S \cup {x} : f[y] \in Int
  PROVE  SumFunctionOnSet(f, S \cup {x}) = SumFunctionOnSet(f, S) + f[x]
<1> DEFINE U == S \cup {x}
<1>1. IsFiniteSet(U)
  BY FS_AddElement
<1>2. PICK g \in [SUBSET U -> Int] : SumFunctionOnSet(f, U) = g[U] /\ Adds(g, f, U)
  BY <1>1, SumOf
<1>3. PICK h \in [SUBSET S -> Int] : SumFunctionOnSet(f, S) = h[S] /\ Adds(h, f, S)
  BY SumOf
<1> DEFINE Same == {T \in SUBSET S : g[T] = h[T]}
<1>4. {} \in Same
  BY <1>2, <1>3 DEF Adds
<1>5. ASSUME NEW T \in SUBSET S, NEW y \in S, y \notin T, T \in Same
      PROVE  T \cup {y} \in Same
  <2>1. g[T \cup {y}] = g[T] + f[y]
    BY <1>2, <1>5 DEF Adds
  <2>2. h[T \cup {y}] = h[T] + f[y]
    BY <1>3, <1>5 DEF Adds
  <2>3. QED
    BY <1>5, <2>1, <2>2
<1>6. S \in Same
  <2> HIDE DEF Same
  <2>1. QED
    BY <1>4, <1>5, FiniteInduction
<1>7. g[S \cup {x}] = g[S] + f[x]
  BY <1>2 DEF Adds
<1>8. QED
  BY <1>2, <1>3, <1>6, <1>7

\* One element less takes its term away.
LEMMA SumRemove ==
  ASSUME NEW S, IsFiniteSet(S), NEW f, NEW x \in S, \A y \in S : f[y] \in Int
  PROVE  SumFunctionOnSet(f, S) = SumFunctionOnSet(f, S \ {x}) + f[x]
<1>1. IsFiniteSet(S \ {x})
  BY FS_Subset
<1>2. (S \ {x}) \cup {x} = S
  OBVIOUS
<1>3. SumFunctionOnSet(f, (S \ {x}) \cup {x}) = SumFunctionOnSet(f, S \ {x}) + f[x]
  BY <1>1, SumAdd
<1>4. QED
  BY <1>2, <1>3

\* Inequalities of two terms carry over to the sums.
LEMMA SumLe ==
  ASSUME NEW S, IsFiniteSet(S), NEW a, NEW b, NEW c, NEW d,
         \A x \in S : /\ a[x] \in Int /\ b[x] \in Int /\ c[x] \in Int /\ d[x] \in Int
                      /\ a[x] + b[x] <= c[x] + d[x]
  PROVE  SumFunctionOnSet(a, S) + SumFunctionOnSet(b, S)
           <= SumFunctionOnSet(c, S) + SumFunctionOnSet(d, S)
<1> DEFINE Le == {T \in SUBSET S : SumFunctionOnSet(a, T) + SumFunctionOnSet(b, T)
                                     <= SumFunctionOnSet(c, T) + SumFunctionOnSet(d, T)}
<1>1. {} \in Le
  BY SumEmpty
<1>2. ASSUME NEW T \in SUBSET S, NEW x \in S, x \notin T, T \in Le
      PROVE  T \cup {x} \in Le
  <2>1. IsFiniteSet(T)
    BY FS_Subset
  <2>2. /\ SumFunctionOnSet(a, T) \in Int /\ SumFunctionOnSet(b, T) \in Int
        /\ SumFunctionOnSet(c, T) \in Int /\ SumFunctionOnSet(d, T) \in Int
    BY <2>1, SumInt
  <2>3. /\ SumFunctionOnSet(a, T \cup {x}) = SumFunctionOnSet(a, T) + a[x]
        /\ SumFunctionOnSet(b, T \cup {x}) = SumFunctionOnSet(b, T) + b[x]
        /\ SumFunctionOnSet(c, T \cup {x}) = SumFunctionOnSet(c, T) + c[x]
        /\ SumFunctionOnSet(d, T \cup {x}) = SumFunctionOnSet(d, T) + d[x]
    BY <1>2, <2>1, SumAdd
  <2>4. /\ a[x] \in Int /\ b[x] \in Int /\ c[x] \in Int /\ d[x] \in Int
        /\ a[x] + b[x] <= c[x] + d[x]
    OBVIOUS
  <2>5. SumFunctionOnSet(a, T) + SumFunctionOnSet(b, T)
          <= SumFunctionOnSet(c, T) + SumFunctionOnSet(d, T)
    BY <1>2
  <2>6. SumFunctionOnSet(a, T \cup {x}) + SumFunctionOnSet(b, T \cup {x})
          <= SumFunctionOnSet(c, T \cup {x}) + SumFunctionOnSet(d, T \cup {x})
    BY <2>2, <2>3, <2>4, <2>5
  <2>7. QED
    BY <2>6
<1>3. S \in Le
  <2> HIDE DEF Le
  <2>1. QED
    BY <1>1, <1>2, FiniteInduction
<1>4. QED
  BY <1>3

\* Equal terms have equal sums.
LEMMA SumSame ==
  ASSUME NEW S, IsFiniteSet(S), NEW f, NEW g,
         \A x \in S : f[x] \in Int /\ g[x] = f[x]
  PROVE  SumFunctionOnSet(g, S) = SumFunctionOnSet(f, S)
<1>1. SumFunctionOnSet(f, S) \in Int /\ SumFunctionOnSet(g, S) \in Int
  BY SumInt
<1>2. SumFunctionOnSet(f, S) + SumFunctionOnSet(f, S)
        <= SumFunctionOnSet(g, S) + SumFunctionOnSet(g, S)
  BY SumLe
<1>3. SumFunctionOnSet(g, S) + SumFunctionOnSet(g, S)
        <= SumFunctionOnSet(f, S) + SumFunctionOnSet(f, S)
  BY SumLe
<1>4. QED
  BY <1>1, <1>2, <1>3

\* Terms that are 0 add nothing.
LEMMA SumZero ==
  ASSUME NEW S, IsFiniteSet(S), NEW f, \A x \in S : f[x] = 0
  PROVE  SumFunctionOnSet(f, S) = 0
<1> DEFINE Zero == {T \in SUBSET S : SumFunctionOnSet(f, T) = 0}
<1>1. {} \in Zero
  BY SumEmpty
<1>2. ASSUME NEW T \in SUBSET S, NEW x \in S, x \notin T, T \in Zero
      PROVE  T \cup {x} \in Zero
  <2>1. IsFiniteSet(T)
    BY FS_Subset
  <2>2. x \notin T /\ \A y \in T \cup {x} : f[y] \in Int
    BY <1>2
  <2>3. SumFunctionOnSet(f, T \cup {x}) = SumFunctionOnSet(f, T) + f[x]
    <3> HIDE DEF Zero
    <3>1. QED
      BY <2>1, <2>2, SumAdd
  <2>4. QED
    BY <1>2, <2>3
<1>3. S \in Zero
  <2> HIDE DEF Zero
  <2>1. QED
    BY <1>1, <1>2, FiniteInduction
<1>4. QED
  BY <1>3

\* The terms outside a subset count as 0.
LEMMA SumRestricted ==
  ASSUME NEW S, IsFiniteSet(S), NEW T \in SUBSET S, NEW f, NEW g,
         \A x \in S : /\ f[x] \in Int
                      /\ x \in T => g[x] = f[x]
                      /\ x \notin T => g[x] = 0
  PROVE  SumFunctionOnSet(f, T) = SumFunctionOnSet(g, S)
<1> DEFINE Same == {A \in SUBSET S : SumFunctionOnSet(f, A \cap T) = SumFunctionOnSet(g, A)}
<1>1. {} \in Same
  <2>1. {} \cap T = {}
    OBVIOUS
  <2>2. QED
    BY <2>1, SumEmpty
<1>2. ASSUME NEW A \in SUBSET S, NEW x \in S, x \notin A, A \in Same
      PROVE  A \cup {x} \in Same
  <2>1. IsFiniteSet(A) /\ IsFiniteSet(A \cap T)
    BY FS_Subset
  <2>2. \A y \in S : f[y] \in Int /\ g[y] \in Int
    OBVIOUS
  <2>3. SumFunctionOnSet(g, A \cup {x}) = SumFunctionOnSet(g, A) + g[x]
    <3> HIDE DEF Same
    <3>1. x \notin A /\ \A y \in A \cup {x} : g[y] \in Int
      BY <1>2, <2>2
    <3>2. QED
      BY <2>1, <3>1, SumAdd
  <2>4. SumFunctionOnSet(g, A) \in Int /\ SumFunctionOnSet(f, A \cap T) = SumFunctionOnSet(g, A)
    BY <1>2, <2>1, <2>2, SumInt
  <2>5. CASE x \in T
    <3>1. (A \cup {x}) \cap T = (A \cap T) \cup {x} /\ x \notin A \cap T
      BY <1>2, <2>5
    <3>2. SumFunctionOnSet(f, (A \cap T) \cup {x}) = SumFunctionOnSet(f, A \cap T) + f[x]
      <4> HIDE DEF Same
      <4>1. \A y \in (A \cap T) \cup {x} : f[y] \in Int
        BY <2>2
      <4>2. QED
        BY <2>1, <3>1, <4>1, SumAdd
    <3>3. f[x] = g[x]
      BY <2>5
    <3>4. SumFunctionOnSet(f, (A \cup {x}) \cap T) = SumFunctionOnSet(g, A \cup {x})
      BY <2>3, <2>4, <3>1, <3>2, <3>3
    <3>5. QED
      BY <3>4
  <2>6. CASE x \notin T
    <3>1. (A \cup {x}) \cap T = A \cap T
      BY <2>6
    <3>2. g[x] = 0
      BY <2>6
    <3>3. SumFunctionOnSet(g, A \cup {x}) = SumFunctionOnSet(g, A)
      BY <2>3, <2>4, <3>2
    <3>4. SumFunctionOnSet(f, (A \cup {x}) \cap T) = SumFunctionOnSet(g, A \cup {x})
      BY <2>4, <3>1, <3>3
    <3>5. QED
      BY <3>4
  <2>7. QED
    BY <2>5, <2>6
<1>3. S \in Same
  <2> HIDE DEF Same
  <2>1. QED
    BY <1>1, <1>2, FiniteInduction
<1>4. S \cap T = T
  OBVIOUS
<1>5. QED
  BY <1>3, <1>4

-----------------------------------------------------------------------------
\* What a thread does in a call, and after it.
Calling == {"idle", "link", "store", "add", "count"}
Flushing == {"flush", "clear", "exit", "exit clear", "exited"}
ReadSteps == {"idle", "lock", "visit"}

\* The types, apart from the places.
Numbers ==
  /\ target \in Int /\ total \in 0..(Word - 1) /\ cacheSize \in CacheSizes
  /\ cacheVar \in [Threads -> Int] /\ numUpdate \in [Threads -> Nat]
  /\ list \in Seq(Threads)
  /\ res \in [Readers -> Int] /\ at \in [Readers -> Nat]
  /\ low \in [Readers -> Int] /\ high \in [Readers -> Int]

Steps ==
  /\ DOMAIN pc = Threads \cup Readers /\ stored \subseteq Threads
  /\ \A t \in Threads : pc[t] \in Calling \cup Flushing
  /\ \A r \in Readers : pc[r] \in ReadSteps

TypeOK == Numbers /\ Steps

\* t is in the list.
Linked(t) == \E i \in 1..Len(list) : list[i] = t

\* The list has nobody twice ...
Distinct == \A i, j \in 1..Len(list) : list[i] = list[j] => i = j

\* ... and has those who are between Link and Exit.
Members ==
  \A t \in Threads : Linked(t) <=>
     \/ pc[t] = "store"
     \/ t \in stored /\ pc[t] \notin {"exit", "exit clear"}

\* A thread without a stored pointer has counted nothing.
Caches ==
  /\ \A t \in stored : pc[t] \notin {"link", "store", "exited"}
  /\ \A t \in Threads \ stored :
       cacheVar[t] = 0 /\ pc[t] \in {"idle", "link", "store", "exited"}

\* Who reads the list holds the mutex.
Visiting == \A r \in Readers : pc[r] = "visit" => mutex = r /\ at[r] >= 1

ListInv == Distinct /\ Members /\ Caches /\ Visiting

\* Between flushes a cache has fewer calls than some cache size.
CacheInv ==
  \A t \in Threads : pc[t] \in Calling =>
    \E c \in CacheSizes : numUpdate[t] < c

\* The sum over the threads.
Altogether(f) == SumFunctionOnSet(f, Threads)

\* What is still in the caches.
Kept == [t \in Threads |-> IF pc[t] \in {"clear", "exit clear"} THEN 0 ELSE cacheVar[t]]

\* NothingLost, as a sum over all threads.
SumInv == (target + Altogether(Kept)) % Word = total

\* r has t before it: in the whole list before the accessor, then in the rest.
Ahead(r, t) == \E i \in 1..Len(list) : list[i] = t /\ (pc[r] = "visit" => at[r] <= i)

\* What r will still add; what of it is in the target too, and may have been read there:
\* too much ...
Owed(r) == [t \in Threads |-> IF Ahead(r, t) THEN cacheVar[t] ELSE 0]
Over(r) == [t \in Threads |->
             IF Ahead(r, t) /\ pc[t] = "clear" /\ cacheVar[t] > 0 THEN cacheVar[t] ELSE 0]
\* ... or too little.
Under(r) == [t \in Threads |->
              IF Ahead(r, t) /\ pc[t] = "clear" /\ cacheVar[t] < 0 THEN -cacheVar[t] ELSE 0]

\* The sum that r will return is that of some number which stays in range, whatever
\* of what it has before it is cleared first.
Within(r) ==
  \E n \in Int : /\ (res[r] + Altogether(Owed(r))) % Word = n % Word
                 /\ low[r] + Altogether(Over(r)) <= n
                 /\ n + Altogether(Under(r)) <= high[r]

ReaderInv == \A r \in Readers : Reading(r) => Within(r)

\* The inductive invariant.
IInv == TypeOK /\ ListInv /\ CacheInv /\ SumInv /\ ReaderInv

-----------------------------------------------------------------------------
\* A sequence without duplicates loses just the element that is removed.
LEMMA RemoveOnce ==
  ASSUME NEW S, NEW s \in Seq(S), NEW e,
         \A i, j \in 1..Len(s) : s[i] = s[j] => i = j
  PROVE  LET u == RemoveFirst(s, e) IN
         /\ u \in Seq(S)
         /\ \A i, j \in 1..Len(u) : u[i] = u[j] => i = j
         /\ \A x : (\E i \in 1..Len(u) : u[i] = x) <=> x # e /\ (\E i \in 1..Len(s) : s[i] = x)
<1> DEFINE u == RemoveFirst(s, e)
<1>1. CASE ~ \E i \in 1..Len(s) : s[i] = e
  <2>1. u = s
    BY <1>1 DEF RemoveFirst
  <2>2. QED
    BY <1>1, <2>1
<1>2. CASE \E i \in 1..Len(s) : s[i] = e
  <2>1. PICK k \in 1..Len(s) : s[k] = e
    BY <1>2
  <2> DEFINE I == {i \in 1..Len(s) : s[i] = e}
  <2>2. I = {k}
    BY <2>1
  <2>3. Min(I) = k
    <3>1. k \in I /\ \A y \in I : k <= y /\ y = k
      BY <2>2
    <3> HIDE DEF I
    <3>2. QED
      BY <3>1 DEF Min
  <2>4. SelectInSeq(s, LAMBDA v : v = e) = k
    BY <2>2, <2>3 DEF SelectInSeq
  <2>5. u = SubSeq(s, 1, k - 1) \o SubSeq(s, k + 1, Len(s))
    BY <1>2, <2>4 DEF RemoveFirst, RemoveAt
  <2> HIDE DEF I, u
  <2>6. /\ u \in Seq(S) /\ Len(u) = Len(s) - 1
        /\ \A i \in 1..Len(u) : /\ i < k => u[i] = s[i]
                                /\ i >= k => u[i] = s[i + 1]
    <3> DEFINE a == SubSeq(s, 1, k - 1)
               b == SubSeq(s, k + 1, Len(s))
    <3>1. a \in Seq(S) /\ Len(a) = k - 1 /\ \A i \in 1..(k - 1) : a[i] = s[i]
      OBVIOUS
    <3>2. b \in Seq(S) /\ Len(b) = Len(s) - k /\ \A i \in 1..(Len(s) - k) : b[i] = s[i + k]
      OBVIOUS
    <3> HIDE DEF a, b
    <3>3. u = a \o b
      BY <2>5 DEF a, b
    <3>4. /\ u \in Seq(S) /\ Len(u) = Len(a) + Len(b)
          /\ \A i \in 1..Len(u) : u[i] = IF i <= Len(a) THEN a[i] ELSE b[i - Len(a)]
      <4>1. a \in Seq(S) /\ b \in Seq(S)
        BY <3>1, <3>2
      <4>2. QED
        BY <3>3, <4>1, ConcatProperties
    <3>5. Len(u) = Len(s) - 1
      BY <3>1, <3>2, <3>4
    <3>6. ASSUME NEW i \in 1..Len(u), i < k PROVE u[i] = s[i]
      BY <3>1, <3>4, <3>6
    <3>7. ASSUME NEW i \in 1..Len(u), i >= k PROVE u[i] = s[i + 1]
      <4>1. u[i] = b[i - (k - 1)] /\ i - (k - 1) \in 1..(Len(s) - k)
        BY <3>1, <3>4, <3>5, <3>7
      <4>2. (i - (k - 1)) + k = i + 1
        OBVIOUS
      <4>3. QED
        BY <3>2, <4>1, <4>2
    <3>8. QED
      BY <3>4, <3>5, <3>6, <3>7
  <2>7. \A i, j \in 1..Len(u) : u[i] = u[j] => i = j
    BY <2>6
  <2>8. ASSUME NEW i \in 1..Len(u)
        PROVE  u[i] # e /\ \E j \in 1..Len(s) : s[j] = u[i]
    BY <2>1, <2>6
  <2>9. ASSUME NEW j \in 1..Len(s), s[j] # e
        PROVE  \E i \in 1..Len(u) : u[i] = s[j]
    <3>1. CASE j < k
      <4>1. j \in 1..Len(u) /\ u[j] = s[j]
        BY <2>6, <3>1
      <4>2. QED
        BY <4>1
    <3>2. CASE j > k
      <4>1. j - 1 \in 1..Len(u) /\ u[j - 1] = s[j]
        BY <2>6, <3>2
      <4>2. QED
        BY <4>1
    <3>3. QED
      BY <2>1, <2>9, <3>1, <3>2
  <2>10. /\ u \in Seq(S)
         /\ \A i, j \in 1..Len(u) : u[i] = u[j] => i = j
         /\ \A x : (\E i \in 1..Len(u) : u[i] = x) <=> x # e /\ (\E i \in 1..Len(s) : s[i] = x)
    BY <2>6, <2>7, <2>8, <2>9
  <2>11. QED
    BY <2>10 DEF u
<1>3. QED
  BY <1>1, <1>2

\* A sequence without duplicates takes a new element at its end.
LEMMA AppendOnce ==
  ASSUME NEW S, NEW s \in Seq(S), NEW e \in S,
         \A i, j \in 1..Len(s) : s[i] = s[j] => i = j,
         ~ \E i \in 1..Len(s) : s[i] = e
  PROVE  LET u == Append(s, e) IN
         /\ u \in Seq(S)
         /\ \A i, j \in 1..Len(u) : u[i] = u[j] => i = j
         /\ \A x : (\E i \in 1..Len(u) : u[i] = x) <=> x = e \/ (\E i \in 1..Len(s) : s[i] = x)
<1> DEFINE u == Append(s, e)
<1>1. /\ u \in Seq(S) /\ Len(u) = Len(s) + 1 /\ u[Len(s) + 1] = e
      /\ \A i \in 1..Len(s) : u[i] = s[i]
  OBVIOUS
<1> HIDE DEF u
<1>2. \A i, j \in 1..Len(u) : u[i] = u[j] => i = j
  BY <1>1
<1>3. \A x : (\E i \in 1..Len(u) : u[i] = x) <=> x = e \/ (\E i \in 1..Len(s) : s[i] = x)
  <2>1. \A i \in 1..Len(u) : i = Len(s) + 1 \/ i \in 1..Len(s)
    BY <1>1
  <2>2. Len(s) + 1 \in 1..Len(u) /\ \A i \in 1..Len(s) : i \in 1..Len(u)
    BY <1>1
  <2>3. QED
    BY <1>1, <2>1, <2>2
<1>4. QED
  BY <1>1, <1>2, <1>3 DEF u

\* A call adds a number.
LEMMA IncsInt == \A inc \in Incs : inc \in Int
<1> SUFFICES ASSUME NEW inc \in Incs PROVE inc \in Int
  OBVIOUS
<1>1. \A a \in Amounts : a \in Nat
  BY LeptVarAssumption
<1>2. CASE inc \in Amounts
  BY <1>1, <1>2
<1>3. CASE inc \in {-a : a \in Amounts}
  <2>1. PICK a \in Amounts : inc = -a
    BY <1>3
  <2>2. a \in Nat
    BY <1>1
  <2>3. QED
    BY <2>1, <2>2
<1>4. QED
  BY <1>2, <1>3 DEF Incs

\* Threads and readers stay in the steps they have.
LEMMA StepsKept == Steps /\ [Next]_vars => Steps'
<1> SUFFICES ASSUME Steps, [Next]_vars PROVE Steps'
  OBVIOUS
<1>1. DOMAIN pc' = Threads \cup Readers
  BY DEF Steps, Next, vars, Get, Link, Store, Add, Count, FlushAdd, FlushClear, Exit, ReadTarget,
         Lock, Visit, Return, SetCacheSize, ReadFastAndReset, Go
<1>2. stored' \subseteq Threads
  BY DEF Steps, Next, vars, Get, Link, Store, Add, Count, FlushAdd, FlushClear, Exit, ReadTarget,
         Lock, Visit, Return, SetCacheSize, ReadFastAndReset, storage
<1>3. \A t \in Threads : pc'[t] # pc[t] => pc'[t] \in Calling \cup Flushing
  BY LeptVarAssumption
     DEF Steps, Next, vars, Get, Link, Store, Add, Count, FlushAdd, FlushClear, Exit, ReadTarget,
         Lock, Visit, Return, SetCacheSize, ReadFastAndReset, Go, Calling, Flushing
<1>4. \A r \in Readers : pc'[r] # pc[r] => pc'[r] \in ReadSteps
  BY LeptVarAssumption
     DEF Steps, Next, vars, Get, Link, Store, Add, Count, FlushAdd, FlushClear, Exit, ReadTarget,
         Lock, Visit, Return, SetCacheSize, ReadFastAndReset, Go, ReadSteps
<1>5. QED
  BY <1>1, <1>2, <1>3, <1>4 DEF Steps

\* The numbers stay numbers, and the list a list of threads.
LEMMA NumbersKept == Numbers /\ ListInv /\ [Next]_vars => Numbers'
<1> SUFFICES ASSUME Numbers, ListInv, [Next]_vars PROVE Numbers'
  OBVIOUS
<1> USE DEF caches, storage, reading, range
<1>1. Word \in Nat \ {0} /\ Word \in Int
  BY LeptVarAssumption
<1>2. ASSUME NEW t \in Threads, Get(t) PROVE Numbers'
  BY <1>2 DEF Get, Numbers
<1>3. ASSUME NEW t \in Threads, Link(t) PROVE Numbers'
  <2>1. list' \in Seq(Threads)
    BY <1>3 DEF Link, Numbers
  <2>2. QED
    BY <1>3, <2>1 DEF Link, Numbers
<1>4. ASSUME NEW t \in Threads, Store(t) PROVE Numbers'
  BY <1>4 DEF Store, Numbers
<1>5. ASSUME NEW t \in Threads, Add(t) PROVE Numbers'
  <2>1. PICK inc \in Incs :
           /\ cacheVar' = [cacheVar EXCEPT ![t] = @ + inc]
           /\ total' = (total + inc) % Word
           /\ low' = [r \in Readers |-> IF Reading(r) /\ inc < 0 THEN low[r] + inc ELSE low[r]]
           /\ high' = [r \in Readers |-> IF Reading(r) /\ inc > 0 THEN high[r] + inc ELSE high[r]]
    BY <1>5 DEF Add
  <2>2. inc \in Int
    BY IncsInt
  <2>3. cacheVar' \in [Threads -> Int] /\ low' \in [Readers -> Int] /\ high' \in [Readers -> Int]
    BY <2>1, <2>2 DEF Numbers
  <2>4. total' \in 0..(Word - 1)
    <3>1. total + inc \in Int
      BY <1>1, <2>2 DEF Numbers
    <3>2. QED
      BY <2>1, <1>1, <3>1, ModOnce
  <2>5. QED
    BY <1>5, <2>3, <2>4 DEF Add, Numbers
<1>6. ASSUME NEW t \in Threads, Count(t) PROVE Numbers'
  BY <1>6 DEF Count, Numbers
<1>7. ASSUME NEW t \in Threads, FlushAdd(t) PROVE Numbers'
  <2>1. cacheVar[t] \in Int /\ target \in Int
    BY DEF Numbers
  <2>2. target' \in Int
    <3>1. target + cacheVar[t] \in Int
      BY <2>1
    <3>2. (target + cacheVar[t]) % Word \in 0..(Word - 1)
      BY <1>1, <3>1, ModOnce
    <3>3. target' = (target + cacheVar[t]) % Word
      BY <1>7 DEF FlushAdd
    <3>4. QED
      BY <1>1, <3>2, <3>3
  <2>3. AbsOf(cacheVar[t]) \in Int
    BY <2>1 DEF AbsOf
  <2>4. low' \in [Readers -> Int] /\ high' \in [Readers -> Int]
    <3>1. Moves(cacheVar[t])
      BY <1>7 DEF FlushAdd
    <3>2. QED
      BY <2>3, <3>1 DEF Moves, Numbers
  <2>5. UNCHANGED <<total, cacheSize, cacheVar, numUpdate, list, res, at>>
    BY <1>7 DEF FlushAdd
  <2>6. QED
    BY <2>2, <2>4, <2>5 DEF Numbers
<1>8. ASSUME NEW t \in Threads, FlushClear(t) PROVE Numbers'
  <2>1. /\ cacheVar' = [cacheVar EXCEPT ![t] = 0] /\ numUpdate' = [numUpdate EXCEPT ![t] = 0]
        /\ UNCHANGED <<target, total, cacheSize, list, res, at, low, high>>
    BY <1>8 DEF FlushClear
  <2>2. QED
    BY <2>1 DEF Numbers
<1>9. ASSUME NEW t \in Threads, Exit(t) PROVE Numbers'
  <2>1. list' \in Seq(Threads)
    BY <1>9, RemoveOnce DEF Exit, Numbers, ListInv, Distinct
  <2>2. AbsOf(cacheVar[t]) \in Int
    BY DEF AbsOf, Numbers
  <2>3. low' \in [Readers -> Int] /\ high' \in [Readers -> Int]
    <3>1. Moves(cacheVar[t])
      BY <1>9 DEF Exit
    <3>2. QED
      BY <2>2, <3>1 DEF Moves, Numbers
  <2>4. QED
    BY <1>9, <2>1, <2>3 DEF Exit, Numbers
<1>10. ASSUME NEW r \in Readers, ReadTarget(r) PROVE Numbers'
  <2>1. Underway \in Int
    <3> DEFINE T == {t \in Threads : pc[t] \in {"clear", "exit", "exit clear"}}
               f == [t \in Threads |-> AbsOf(cacheVar[t])]
    <3>1. IsFiniteSet(T)
      BY LeptVarAssumption, FS_Subset
    <3>2. \A t \in T : f[t] \in Int
      <4>1. \A t \in Threads : cacheVar[t] \in Int
        BY DEF Numbers
      <4>2. \A t \in Threads : AbsOf(cacheVar[t]) \in Int
        BY <4>1 DEF AbsOf
      <4>3. QED
        BY <4>2
    <3> HIDE DEF T, f
    <3>3. SumFunctionOnSet(f, T) \in Int
      BY <3>1, <3>2, SumInt
    <3>4. QED
      BY <3>3 DEF Underway, T, f
  <2>2. total \in Int /\ target \in Int
    BY <1>1 DEF Numbers
  <2>3. /\ res' \in [Readers -> Int] /\ low' \in [Readers -> Int] /\ high' \in [Readers -> Int]
    BY <1>10, <2>1, <2>2 DEF ReadTarget, Numbers
  <2>4. QED
    BY <1>10, <2>3 DEF ReadTarget, Numbers
<1>11. ASSUME NEW r \in Readers, Lock(r) PROVE Numbers'
  BY <1>11 DEF Lock, Numbers
<1>12. ASSUME NEW r \in Readers, Visit(r) PROVE Numbers'
  <2>1. at[r] \in Nat /\ res[r] \in Int /\ Len(list) \in Nat
    BY DEF Numbers
  <2>2. at' \in [Readers -> Nat]
    BY <1>12 DEF Visit, Numbers
  <2>3. res' \in [Readers -> Int]
    <3>1. at[r] >= 1 /\ at[r] <= Len(list)
      BY <1>12 DEF Visit, ListInv, Visiting
    <3>2. list[at[r]] \in Threads
      BY <2>1, <3>1 DEF Numbers
    <3>3. cacheVar[list[at[r]]] \in Int
      BY <3>2 DEF Numbers
    <3>4. QED
      BY <1>12, <2>1, <3>3 DEF Visit, Numbers
  <2>4. QED
    BY <1>12, <2>2, <2>3 DEF Visit, Numbers
<1>13. ASSUME NEW r \in Readers, Return(r) PROVE Numbers'
  BY <1>13 DEF Return, Numbers
<1>14. CASE SetCacheSize
  BY <1>14 DEF SetCacheSize, Numbers
<1>15. CASE ReadFastAndReset
  <2>1. total - target \in Int
    BY <1>1 DEF Numbers
  <2>2. total' \in 0..(Word - 1)
    BY <1>15, <1>1, <2>1, ModOnce DEF ReadFastAndReset
  <2>3. QED
    BY <1>15, <2>2 DEF ReadFastAndReset, Numbers
<1>16. CASE UNCHANGED vars
  BY <1>16 DEF vars, Numbers
<1>17. QED
  BY <1>2, <1>3, <1>4, <1>5, <1>6, <1>7, <1>8, <1>9, <1>10, <1>11, <1>12, <1>13, <1>14,
     <1>15, <1>16 DEF Next

\* A reader that walks the list holds the mutex.
LEMMA VisitingKept == TypeOK /\ Visiting /\ [Next]_vars => Visiting'
<1> SUFFICES ASSUME TypeOK, Visiting, [Next]_vars, NEW r \in Readers, pc'[r] = "visit"
             PROVE  mutex' = r /\ at'[r] >= 1
  BY DEF Visiting
<1> USE DEF TypeOK
<1>1. CASE \E t \in Threads :
         \/ Get(t) \/ Link(t) \/ Store(t) \/ Add(t) \/ Count(t)
         \/ FlushAdd(t) \/ FlushClear(t) \/ Exit(t)
  <2>1. UNCHANGED <<mutex, at>>
    BY <1>1 DEF Get, Link, Store, Add, Count, FlushAdd, FlushClear, Exit, reading
  <2>2. pc'[r] = pc[r]
    BY <1>1, LeptVarAssumption
       DEF Get, Link, Store, Add, Count, FlushAdd, FlushClear, Exit, Go, Steps
  <2>3. QED
    BY <2>1, <2>2 DEF Visiting
<1>2. ASSUME NEW q \in Readers, ReadTarget(q) PROVE mutex' = r /\ at'[r] >= 1
  BY <1>2 DEF ReadTarget, Go, Steps, Visiting
<1>3. ASSUME NEW q \in Readers, Lock(q) PROVE mutex' = r /\ at'[r] >= 1
  <2>1. CASE r = q
    BY <1>3, <2>1 DEF Lock, Numbers
  <2>2. CASE r # q
    <3>1. pc[r] = "visit" /\ mutex = NoThread
      BY <1>3, <2>2 DEF Lock, Go, Steps
    <3>2. QED
      BY <3>1, LeptVarAssumption DEF Visiting
  <2>3. QED
    BY <2>1, <2>2
<1>4. ASSUME NEW q \in Readers, Visit(q) PROVE mutex' = r /\ at'[r] >= 1
  <2>1. /\ pc' = pc /\ mutex' = mutex /\ at' = [at EXCEPT ![q] = @ + 1]
    BY <1>4 DEF Visit
  <2>2. mutex = r /\ at[r] >= 1 /\ at[r] \in Nat
    BY <2>1 DEF Visiting, Numbers
  <2>3. at'[r] = at[r] \/ at'[r] = at[r] + 1
    BY <2>1, <2>2 DEF Numbers
  <2>4. QED
    BY <2>1, <2>2, <2>3
<1>5. ASSUME NEW q \in Readers, Return(q) PROVE mutex' = r /\ at'[r] >= 1
  <2>1. pc[q] = "visit" /\ pc'[q] = "idle" /\ \A u \in Readers \ {q} : pc'[u] = pc[u]
    BY <1>5 DEF Return, Go, Steps
  <2>2. mutex = q /\ mutex = r
    BY <2>1 DEF Visiting
  <2>3. QED
    BY <2>1, <2>2
<1>6. CASE SetCacheSize \/ ReadFastAndReset \/ UNCHANGED vars
  BY <1>6 DEF SetCacheSize, ReadFastAndReset, vars, reading, Visiting
<1>7. QED
  BY <1>1, <1>2, <1>3, <1>4, <1>5, <1>6 DEF Next

\* A thread without a stored cache has nothing in one.
LEMMA CachesKept == TypeOK /\ Caches /\ [Next]_vars => Caches'
<1> SUFFICES ASSUME TypeOK, Caches, [Next]_vars PROVE Caches'
  OBVIOUS
<1> USE DEF TypeOK
<1>1. \A t \in Threads : t \in stored => pc[t] \notin {"link", "store", "exited"}
  BY DEF Caches
<1>2. \A t \in Threads : t \notin stored =>
        cacheVar[t] = 0 /\ pc[t] \in {"idle", "link", "store", "exited"}
  BY DEF Caches
<1>3. SUFFICES ASSUME NEW t \in Threads
      PROVE  /\ t \in stored' => pc'[t] \notin {"link", "store", "exited"}
             /\ t \notin stored' =>
                  cacheVar'[t] = 0 /\ pc'[t] \in {"idle", "link", "store", "exited"}
  BY StepsKept DEF Caches, Steps
<1>4. CASE \E u \in Threads \ {t} :
         \/ Get(u) \/ Link(u) \/ Store(u) \/ Add(u) \/ Count(u)
         \/ FlushAdd(u) \/ FlushClear(u) \/ Exit(u)
  <2>1. (t \in stored' <=> t \in stored) /\ pc'[t] = pc[t]
    BY <1>4 DEF Get, Link, Store, Add, Count, FlushAdd, FlushClear, Exit, storage, Go, Steps
  <2>2. cacheVar'[t] = cacheVar[t]
    BY <1>4 DEF Get, Link, Store, Add, Count, FlushAdd, FlushClear, Exit, caches, Numbers
  <2>3. QED
    BY <1>1, <1>2, <2>1, <2>2
<1>5. CASE Get(t)
  BY <1>1, <1>2, <1>5 DEF Get, Go, Steps, storage, caches
<1>6. CASE Link(t)
  BY <1>1, <1>2, <1>6 DEF Link, Go, Steps, storage, caches
<1>7. CASE Store(t)
  BY <1>1, <1>2, <1>7 DEF Store, Go, Steps, storage, caches
<1>8. CASE Add(t) \/ Count(t) \/ FlushAdd(t)
  <2>1. /\ pc[t] \in {"add", "count", "flush", "exit"}
        /\ pc'[t] \in {"count", "flush", "idle", "clear", "exit clear"}
    BY <1>8 DEF Add, Count, FlushAdd, Go, Steps
  <2>2. stored' = stored
    BY <1>8 DEF Add, Count, FlushAdd, storage
  <2>3. t \in stored
    BY <1>2, <2>1
  <2>4. QED
    BY <2>1, <2>2, <2>3
<1>9. CASE FlushClear(t)
  <2>1. t \in stored
    BY <1>2, <1>9 DEF FlushClear, Go
  <2>2. cacheVar'[t] = 0
    BY <1>9 DEF FlushClear, Numbers
  <2>3. \/ pc'[t] = "idle" /\ stored' = stored
        \/ pc'[t] = "exited" /\ stored' = stored \ {t}
    BY <1>9 DEF FlushClear, Go, Steps
  <2>4. QED
    BY <2>1, <2>2, <2>3
<1>10. CASE Exit(t)
  BY <1>1, <1>2, <1>10 DEF Exit, Go, Steps, caches
<1>11. CASE \E r \in Readers : ReadTarget(r) \/ Lock(r) \/ Visit(r) \/ Return(r)
  <2>1. pc'[t] = pc[t]
    BY <1>11, LeptVarAssumption DEF ReadTarget, Lock, Visit, Return, Go, Steps
  <2>2. UNCHANGED <<stored, cacheVar>>
    BY <1>11 DEF ReadTarget, Lock, Visit, Return, storage, caches
  <2>3. QED
    BY <1>1, <1>2, <2>1, <2>2
<1>12. CASE SetCacheSize \/ ReadFastAndReset \/ UNCHANGED vars
  BY <1>1, <1>2, <1>12 DEF SetCacheSize, ReadFastAndReset, vars, storage, caches
<1>13. QED
  BY <1>4, <1>5, <1>6, <1>7, <1>8, <1>9, <1>10, <1>11, <1>12 DEF Next

\* The list has each thread once: from Link to Exit.
LEMMA MembersKept == TypeOK /\ ListInv /\ [Next]_vars => (Distinct /\ Members)'
<1> SUFFICES ASSUME TypeOK, ListInv, [Next]_vars PROVE (Distinct /\ Members)'
  OBVIOUS
<1> USE DEF TypeOK
<1>1. Distinct /\ \A t \in Threads : Linked(t) <=>
         \/ pc[t] = "store"
         \/ t \in stored /\ pc[t] \notin {"exit", "exit clear"}
  BY DEF ListInv, Members
<1>2. \A t \in Threads : pc[t] \in {"link", "store"} => t \notin stored
  BY DEF ListInv, Caches
<1>3. \A t \in Threads : t \notin stored => pc[t] \in {"idle", "link", "store", "exited"}
  BY DEF ListInv, Caches
<1>4. list \in Seq(Threads)
  BY DEF Numbers
\* The list stays as it is.
<1>5. ASSUME list' = list,
             \A t \in Threads :
                (pc'[t] = "store" \/ (t \in stored' /\ pc'[t] \notin {"exit", "exit clear"}))
                  <=> (pc[t] = "store" \/ (t \in stored /\ pc[t] \notin {"exit", "exit clear"}))
      PROVE  (Distinct /\ Members)'
  <2>1. Distinct' /\ \A t \in Threads : Linked(t)' <=> Linked(t)
    BY <1>1, <1>5 DEF Distinct, Linked
  <2>2. QED
    BY <1>1, <1>5, <2>1 DEF Members
<1>6. ASSUME NEW t \in Threads, Link(t) PROVE (Distinct /\ Members)'
  <2>1. list' = Append(list, t) /\ stored' = stored
    BY <1>6 DEF Link
  <2>2. pc[t] = "link" /\ pc'[t] = "store" /\ \A u \in Threads \ {t} : pc'[u] = pc[u]
    BY <1>6 DEF Link, Go, Steps
  <2>3. ~Linked(t)
    BY <1>1, <1>2, <2>2
  <2>4. /\ \A i, j \in 1..Len(list') : list'[i] = list'[j] => i = j
        /\ \A x : (\E i \in 1..Len(list') : list'[i] = x)
                   <=> (x = t) \/ (\E i \in 1..Len(list) : list[i] = x)
    <3>1. \A i, j \in 1..Len(list) : list[i] = list[j] => i = j
      BY <1>1 DEF Distinct
    <3>2. ~ \E i \in 1..Len(list) : list[i] = t
      BY <2>3 DEF Linked
    <3>3. LET u == Append(list, t) IN
          /\ u \in Seq(Threads)
          /\ \A i, j \in 1..Len(u) : u[i] = u[j] => i = j
          /\ \A x : (\E i \in 1..Len(u) : u[i] = x)
                     <=> (x = t) \/ (\E i \in 1..Len(list) : list[i] = x)
      BY <1>4, <3>1, <3>2, AppendOnce
    <3>4. QED
      BY <2>1, <3>3
  <2>5. Distinct' /\ \A x : Linked(x)' <=> (x = t \/ Linked(x))
    BY <2>4 DEF Distinct, Linked
  <2>6. QED
    BY <1>1, <2>1, <2>2, <2>5 DEF Members
<1>7. ASSUME NEW t \in Threads, Exit(t) PROVE (Distinct /\ Members)'
  <2>1. list' = RemoveFirst(list, t) /\ stored' = stored
    BY <1>7 DEF Exit
  <2>2. /\ pc[t] = "idle" /\ pc'[t] = IF t \in stored THEN "exit" ELSE "exited"
        /\ \A u \in Threads \ {t} : pc'[u] = pc[u]
    BY <1>7 DEF Exit, Go, Steps
  <2>3. /\ \A i, j \in 1..Len(list') : list'[i] = list'[j] => i = j
        /\ \A x : (\E i \in 1..Len(list') : list'[i] = x)
                   <=> x # t /\ (\E i \in 1..Len(list) : list[i] = x)
    <3>1. \A i, j \in 1..Len(list) : list[i] = list[j] => i = j
      BY <1>1 DEF Distinct
    <3>2. LET u == RemoveFirst(list, t) IN
          /\ u \in Seq(Threads)
          /\ \A i, j \in 1..Len(u) : u[i] = u[j] => i = j
          /\ \A x : (\E i \in 1..Len(u) : u[i] = x)
                     <=> x # t /\ (\E i \in 1..Len(list) : list[i] = x)
      BY <1>4, <3>1, RemoveOnce
    <3>3. QED
      BY <2>1, <3>2
  <2>4. Distinct' /\ \A x : Linked(x)' <=> (x # t /\ Linked(x))
    BY <2>3 DEF Distinct, Linked
  <2>5. QED
    BY <1>1, <2>1, <2>2, <2>4 DEF Members
<1>8. ASSUME NEW t \in Threads,
             Get(t) \/ Store(t) \/ Add(t) \/ Count(t) \/ FlushAdd(t) \/ FlushClear(t)
      PROVE  (Distinct /\ Members)'
  <2>1. list' = list
    BY <1>8 DEF Get, Store, Add, Count, FlushAdd, FlushClear, storage
  <2>2. /\ \A u \in Threads \ {t} : pc'[u] = pc[u]
        /\ \A u \in Threads \ {t} : u \in stored' <=> u \in stored
    BY <1>8 DEF Get, Store, Add, Count, FlushAdd, FlushClear, storage, Go, Steps
  <2>3. (pc'[t] = "store" \/ (t \in stored' /\ pc'[t] \notin {"exit", "exit clear"}))
          <=> (pc[t] = "store" \/ (t \in stored /\ pc[t] \notin {"exit", "exit clear"}))
    <3>1. CASE Get(t)
      BY <3>1, <1>2 DEF Get, storage, Go, Steps
    <3>2. CASE Store(t)
      BY <3>2, <1>2 DEF Store, storage, Go, Steps
    <3>3. CASE Add(t) \/ Count(t)
      BY <3>3, <1>2 DEF Add, Count, storage, Go, Steps
    <3>4. CASE FlushAdd(t)
      BY <3>4, <1>2 DEF FlushAdd, storage, Go, Steps
    <3>5. CASE FlushClear(t)
      BY <3>5, <1>3 DEF FlushClear, Go, Steps
    <3>6. QED
      BY <1>8, <3>1, <3>2, <3>3, <3>4, <3>5
  <2>4. QED
    BY <1>5, <2>1, <2>2, <2>3
<1>9. ASSUME NEW r \in Readers, ReadTarget(r) \/ Lock(r) \/ Visit(r) \/ Return(r)
      PROVE  (Distinct /\ Members)'
  <2>1. /\ list' = list /\ stored' = stored
        /\ \A t \in Threads : pc'[t] = pc[t]
    BY <1>9, LeptVarAssumption DEF ReadTarget, Lock, Visit, Return, storage, Go, Steps
  <2>2. QED
    BY <1>5, <2>1
<1>10. CASE SetCacheSize \/ ReadFastAndReset \/ UNCHANGED vars
  <2>1. list' = list /\ stored' = stored /\ pc' = pc
    BY <1>10 DEF SetCacheSize, ReadFastAndReset, vars, storage
  <2>2. QED
    BY <1>5, <2>1
<1>11. QED
  BY <1>6, <1>7, <1>8, <1>9, <1>10 DEF Next

\* A cache that has reached the size is flushed before the next call.
LEMMA CacheKept == TypeOK /\ CacheInv /\ [Next]_vars => CacheInv'
<1> SUFFICES ASSUME TypeOK, CacheInv, [Next]_vars, NEW t \in Threads, pc'[t] \in Calling
             PROVE  \E c \in CacheSizes : numUpdate'[t] < c
  BY DEF CacheInv
<1> USE DEF TypeOK
<1>1. CASE Count(t)
  <2>1. pc'[t] = "idle" /\ ~(numUpdate[t] + 1 >= cacheSize)
    BY <1>1 DEF Count, Go, Steps, Calling
  <2>2. numUpdate'[t] = numUpdate[t] + 1 /\ numUpdate[t] \in Nat /\ cacheSize \in CacheSizes
    BY <1>1 DEF Count, Numbers
  <2>3. cacheSize \in Nat
    BY <2>2, LeptVarAssumption
  <2>4. numUpdate'[t] < cacheSize
    BY <2>1, <2>2, <2>3
  <2>5. QED
    BY <2>2, <2>4
<1>2. CASE FlushClear(t)
  <2>1. numUpdate'[t] = 0
    BY <1>2 DEF FlushClear, Numbers
  <2>2. PICK c \in CacheSizes : TRUE
    BY LeptVarAssumption
  <2>3. c \in Nat \ {0}
    BY LeptVarAssumption
  <2>4. 0 < c
    BY <2>3
  <2>5. QED
    BY <2>1, <2>4
<1>3. CASE ~Count(t) /\ ~FlushClear(t)
  <2>1. numUpdate'[t] = numUpdate[t]
    BY <1>3 DEF Next, Get, Link, Store, Add, Count, FlushAdd, FlushClear, Exit, ReadTarget, Lock,
                Visit, Return, SetCacheSize, ReadFastAndReset, vars, caches, Numbers
  <2>2. pc[t] \in Calling
    BY <1>3, LeptVarAssumption
       DEF Next, Get, Link, Store, Add, Count, FlushAdd, FlushClear, Exit, ReadTarget, Lock,
           Visit, Return, SetCacheSize, ReadFastAndReset, vars, Go, Steps, Calling
  <2>3. QED
    BY <2>1, <2>2 DEF CacheInv
<1>4. QED
  BY <1>1, <1>2, <1>3

\* What is still in the caches: all but the sums added and not yet cleared.
LEMMA KeptIs ==
  ASSUME Numbers
  PROVE  \A t \in Threads :
           /\ pc[t] \in {"clear", "exit clear"} => Kept[t] = 0
           /\ pc[t] \notin {"clear", "exit clear"} => Kept[t] = cacheVar[t]
           /\ Kept[t] \in Int
<1>1. \A t \in Threads : cacheVar[t] \in Int
  BY DEF Numbers
<1>2. ASSUME NEW t \in Threads
      PROVE  /\ pc[t] \in {"clear", "exit clear"} => Kept[t] = 0
             /\ pc[t] \notin {"clear", "exit clear"} => Kept[t] = cacheVar[t]
  BY DEF Kept
<1>3. ASSUME NEW t \in Threads
      PROVE  Kept[t] \in Int
  <2>1. CASE pc[t] \in {"clear", "exit clear"}
    <3>1. Kept[t] = 0
      BY <1>2, <2>1
    <3>2. QED
      BY <3>1
  <2>2. CASE pc[t] \notin {"clear", "exit clear"}
    <3>1. Kept[t] = cacheVar[t]
      BY <1>2, <2>2
    <3>2. QED
      BY <1>1, <3>1
  <2>3. QED
    BY <2>1, <2>2
<1>4. QED
  BY <1>2, <1>3

\* What is kept is a number.
LEMMA KeptInt ==
  ASSUME Numbers
  PROVE  Altogether(Kept) \in Int
BY KeptIs, SumInt, LeptVarAssumption DEF Altogether

\* A step changes the term of at most one thread.
LEMMA OneTerm ==
  ASSUME NEW f, NEW g, NEW t \in Threads, NEW d \in Int,
         \A u \in Threads : f[u] \in Int /\ (u # t => g[u] = f[u]),
         g[t] = f[t] + d
  PROVE  Altogether(f) \in Int /\ Altogether(g) = Altogether(f) + d
<1> DEFINE rest == Threads \ {t}
<1>1. IsFiniteSet(Threads) /\ IsFiniteSet(rest)
  BY LeptVarAssumption, FS_Subset
<1>2. \A u \in Threads : f[u] \in Int /\ g[u] \in Int
  OBVIOUS
<1>3. Altogether(f) \in Int /\ SumFunctionOnSet(f, rest) \in Int
  BY <1>1, <1>2, SumInt DEF Altogether
<1>4. SumFunctionOnSet(g, rest) = SumFunctionOnSet(f, rest)
  <2>1. \A u \in rest : f[u] \in Int /\ g[u] = f[u]
    OBVIOUS
  <2> HIDE DEF rest
  <2>2. QED
    BY <1>1, <2>1, SumSame
<1>5. Altogether(f) = SumFunctionOnSet(f, rest) + f[t]
  BY <1>1, <1>2, SumRemove DEF Altogether
<1>6. Altogether(g) = SumFunctionOnSet(g, rest) + g[t]
  BY <1>1, <1>2, SumRemove DEF Altogether
<1>7. f[t] \in Int
  BY <1>2
<1> HIDE DEF rest
<1>8. QED
  BY <1>3, <1>4, <1>5, <1>6, <1>7

\* The target, the caches and the total move together.
LEMMA SumMoves ==
  ASSUME Numbers, Numbers', SumInv, NEW t \in Threads, NEW d \in Int, NEW c \in Int,
         \A u \in Threads \ {t} : Kept'[u] = Kept[u],
         Kept'[t] = Kept[t] + c,
         target' = target + d \/ target' = (target + d) % Word,
         total' = (total + (d + c)) % Word
  PROVE  SumInv'
<1>1. Word \in Nat \ {0}
  BY LeptVarAssumption
<1>2. \A u \in Threads : Kept[u] \in Int
  BY KeptIs
<1>3. PICK f, g : f = Kept /\ g = Kept'
  OBVIOUS
<1>4. Altogether(f) \in Int /\ Altogether(g) = Altogether(f) + c
  BY <1>2, <1>3, OneTerm
<1>5. PICK s \in Int : s = Altogether(Kept) /\ Altogether(Kept)' = s + c
  BY <1>3, <1>4 DEF Altogether
<1>6. PICK x \in Int, y \in Int : x = target /\ y = target'
  BY DEF Numbers
<1>7. (y + (s + c)) % Word = ((x + d) + (s + c)) % Word
  <2>1. CASE y = x + d
    BY <2>1
  <2>2. CASE y = (x + d) % Word
    <3>1. x + d \in Int /\ s + c \in Int
      OBVIOUS
    <3>2. QED
      BY <1>1, <2>2, <3>1, ModOnce
  <2>3. QED
    BY <1>6, <2>1, <2>2
<1>8. (x + d) + (s + c) = (x + s) + (d + c)
  OBVIOUS
<1>9. ((x + s) + (d + c)) % Word = (((x + s) % Word) + (d + c)) % Word
  <2>1. x + s \in Int /\ d + c \in Int
    OBVIOUS
  <2>2. QED
    BY <1>1, <2>1, ModOnce
<1>10. (x + s) % Word = total
  BY <1>5, <1>6 DEF SumInv
<1>11. (y + (s + c)) % Word = total'
  BY <1>7, <1>8, <1>9, <1>10
<1>12. QED
  BY <1>5, <1>6, <1>11 DEF SumInv

\* Nothing moves.
LEMMA SumStays ==
  ASSUME Kept' = Kept, target' = target, total' = total, SumInv
  PROVE  SumInv'
BY DEF SumInv, Altogether

\* Nobody changes a cache but its thread.
LEMMA SumKept == TypeOK /\ TypeOK' /\ SumInv /\ [Next]_vars => SumInv'
<1> SUFFICES ASSUME TypeOK, TypeOK', SumInv, [Next]_vars PROVE SumInv'
  OBVIOUS
<1>1. Numbers /\ Numbers' /\ Steps /\ Word \in Nat \ {0}
  BY LeptVarAssumption DEF TypeOK
<1>2. \A t \in Threads : cacheVar[t] \in Int
  BY <1>1 DEF Numbers
<1>3. ASSUME NEW t \in Threads, Get(t) \/ Link(t) \/ Store(t) \/ Count(t) \/ Exit(t) PROVE SumInv'
  <2>1. UNCHANGED <<cacheVar, target, total>>
    BY <1>3 DEF Get, Link, Store, Count, Exit, caches
  <2>2. \A u \in Threads : pc'[u] \in {"clear", "exit clear"} <=> pc[u] \in {"clear", "exit clear"}
    BY <1>1, <1>3 DEF Get, Link, Store, Count, Exit, Go, Steps
  <2>3. Kept' = Kept
    BY <2>1, <2>2 DEF Kept
  <2>4. QED
    BY <2>1, <2>3, SumStays
<1>4. ASSUME NEW t \in Threads, Add(t) PROVE SumInv'
  <2>1. PICK inc \in Int : cacheVar' = [cacheVar EXCEPT ![t] = @ + inc]
                            /\ total' = (total + inc) % Word
    BY <1>4, IncsInt DEF Add
  <2>2. pc[t] = "add" /\ pc'[t] = "count" /\ \A u \in Threads \ {t} : pc'[u] = pc[u]
    BY <1>1, <1>4 DEF Add, Go, Steps
  <2>3. cacheVar'[t] = cacheVar[t] + inc /\ \A u \in Threads \ {t} : cacheVar'[u] = cacheVar[u]
    BY <1>1, <2>1 DEF Numbers
  <2>4. Kept'[t] = Kept[t] + inc
    BY <2>2, <2>3 DEF Kept
  <2>5. \A u \in Threads \ {t} : Kept'[u] = Kept[u]
    BY <2>2, <2>3 DEF Kept
  <2>6. target' = target + 0 /\ total' = (total + (0 + inc)) % Word
    <3>1. target' = target /\ target \in Int
      BY <1>1, <1>4 DEF Add, Numbers
    <3>2. target' = target + 0 /\ 0 + inc = inc
      BY <3>1
    <3>3. QED
      BY <2>1, <3>2
  <2>7. QED
    BY <1>1, <2>4, <2>5, <2>6, SumMoves
<1>5. ASSUME NEW t \in Threads, FlushAdd(t) PROVE SumInv'
  <2>1. PICK c \in Int : c = cacheVar[t]
    BY <1>2
  <2>2. /\ pc[t] \in {"flush", "exit"} /\ pc'[t] \in {"clear", "exit clear"}
        /\ \A u \in Threads \ {t} : pc'[u] = pc[u]
    BY <1>1, <1>5 DEF FlushAdd, Go, Steps
  <2>3. UNCHANGED <<cacheVar, total>> /\ target' = (target + c) % Word
    BY <1>5, <2>1 DEF FlushAdd, caches
  <2>4. Kept[t] = c /\ Kept'[t] = 0
    BY <2>1, <2>2 DEF Kept
  <2>5. Kept'[t] = Kept[t] + (-c) /\ -c \in Int
    BY <2>4
  <2>6. \A u \in Threads \ {t} : Kept'[u] = Kept[u]
    BY <2>2, <2>3 DEF Kept
  <2>7. total' = (total + (c + (-c))) % Word
    <3>1. c + (-c) = 0
      OBVIOUS
    <3>2. total \in 0..(Word - 1)
      BY <1>1 DEF Numbers
    <3>3. total = Word * 0 + total /\ total \in Int
      BY <1>1, <3>2
    <3>4. total % Word = total
      BY <1>1, <3>2, <3>3, ModUnique
    <3>5. QED
      BY <2>3, <3>1, <3>3, <3>4
  <2>8. QED
    BY <1>1, <2>3, <2>5, <2>6, <2>7, SumMoves
<1>6. ASSUME NEW t \in Threads, FlushClear(t) PROVE SumInv'
  <2>1. cacheVar' = [cacheVar EXCEPT ![t] = 0] /\ UNCHANGED <<target, total>>
    BY <1>6 DEF FlushClear
  <2>2. /\ pc[t] \in {"clear", "exit clear"} /\ pc'[t] \in {"idle", "exited"}
        /\ \A u \in Threads \ {t} : pc'[u] = pc[u]
    BY <1>1, <1>6 DEF FlushClear, Go, Steps
  <2>3. cacheVar'[t] = 0 /\ \A u \in Threads \ {t} : cacheVar'[u] = cacheVar[u]
    BY <1>1, <2>1 DEF Numbers
  <2>4. \A u \in Threads : Kept'[u] = Kept[u]
    BY <2>2, <2>3 DEF Kept
  <2>5. Kept' = Kept
    BY <2>4 DEF Kept
  <2>6. QED
    BY <2>1, <2>5, SumStays
<1>7. ASSUME NEW r \in Readers, ReadTarget(r) \/ Lock(r) \/ Visit(r) \/ Return(r) PROVE SumInv'
  <2>1. \A t \in Threads : pc'[t] = pc[t]
    BY <1>1, <1>7, LeptVarAssumption DEF ReadTarget, Lock, Visit, Return, Go, Steps
  <2>2. UNCHANGED <<cacheVar, target, total>>
    BY <1>7 DEF ReadTarget, Lock, Visit, Return, caches
  <2>3. Kept' = Kept
    BY <2>1, <2>2 DEF Kept
  <2>4. QED
    BY <2>2, <2>3, SumStays
<1>8. CASE SetCacheSize \/ UNCHANGED vars
  <2>1. UNCHANGED <<cacheVar, target, total, pc>>
    BY <1>8 DEF SetCacheSize, vars, caches
  <2>2. Kept' = Kept
    BY <2>1 DEF Kept
  <2>3. QED
    BY <2>1, <2>2, SumStays
<1>9. CASE ReadFastAndReset
  <2>1. UNCHANGED <<cacheVar, pc>> /\ target' = 0 /\ total' = (total - target) % Word
    BY <1>9 DEF ReadFastAndReset, caches
  <2>2. Kept' = Kept
    BY <2>1 DEF Kept
  <2>3. PICK x \in Int, s \in Int, w \in Int : x = target /\ s = Altogether(Kept) /\ w = total
    BY <1>1, KeptInt DEF Numbers
  <2>4. (x + s) % Word = w
    BY <2>3 DEF SumInv
  <2>5. (((x + s) % Word) + (-x)) % Word = ((x + s) + (-x)) % Word
    <3>1. x + s \in Int /\ -x \in Int
      OBVIOUS
    <3>2. QED
      BY <1>1, <3>1, ModOnce
  <2>6. (x + s) + (-x) = 0 + s /\ w + (-x) = w - x
    OBVIOUS
  <2>7. (0 + s) % Word = (w - x) % Word
    BY <2>4, <2>5, <2>6
  <2>8. Altogether(Kept)' = s
    BY <2>2, <2>3 DEF Altogether
  <2>9. QED
    BY <2>1, <2>3, <2>7, <2>8 DEF SumInv
<1>10. QED
  BY <1>3, <1>4, <1>5, <1>6, <1>7, <1>8, <1>9 DEF Next

-----------------------------------------------------------------------------
\* The terms of one thread in what a reader is owed.
TermsOf(r, t) ==
  /\ Owed(r)[t] \in Int /\ Over(r)[t] \in Int /\ Under(r)[t] \in Int
  /\ ~Ahead(r, t) => Owed(r)[t] = 0 /\ Over(r)[t] = 0 /\ Under(r)[t] = 0
  /\ Ahead(r, t) => Owed(r)[t] = cacheVar[t]
  /\ pc[t] # "clear" => Over(r)[t] = 0 /\ Under(r)[t] = 0
  /\ Ahead(r, t) /\ pc[t] = "clear" =>
       /\ cacheVar[t] > 0 => Over(r)[t] = cacheVar[t] /\ Under(r)[t] = 0
       /\ cacheVar[t] = 0 => Over(r)[t] = 0 /\ Under(r)[t] = 0
       /\ cacheVar[t] < 0 => Over(r)[t] = 0 /\ Under(r)[t] = -cacheVar[t]

\* What the terms of one thread are.
LEMMA Terms ==
  ASSUME Numbers, NEW r \in Readers, NEW t \in Threads
  PROVE  TermsOf(r, t)
<1>1. cacheVar[t] \in Int
  BY DEF Numbers
<1> DEFINE a == Ahead(r, t)
           c == cacheVar[t]
           p == pc[t] = "clear"
<1>2. /\ Owed(r)[t] = IF a THEN c ELSE 0
      /\ Over(r)[t] = IF a /\ p /\ c > 0 THEN c ELSE 0
      /\ Under(r)[t] = IF a /\ p /\ c < 0 THEN -c ELSE 0
  BY DEF Owed, Over, Under
<1> HIDE DEF a, c, p
<1>3. c \in Int
  BY <1>1 DEF c
<1>4. /\ Owed(r)[t] \in Int /\ Over(r)[t] \in Int /\ Under(r)[t] \in Int
      /\ ~a => Owed(r)[t] = 0 /\ Over(r)[t] = 0 /\ Under(r)[t] = 0
      /\ a => Owed(r)[t] = c
      /\ ~p => Over(r)[t] = 0 /\ Under(r)[t] = 0
      /\ a /\ p => /\ c > 0 => Over(r)[t] = c /\ Under(r)[t] = 0
                   /\ c = 0 => Over(r)[t] = 0 /\ Under(r)[t] = 0
                   /\ c < 0 => Over(r)[t] = 0 /\ Under(r)[t] = -c
  <2>1. PICK o, u, d : o = Owed(r)[t] /\ u = Over(r)[t] /\ d = Under(r)[t]
    OBVIOUS
  <2>2. CASE ~a
    <3>1. o = 0 /\ u = 0 /\ d = 0
      BY <1>2, <2>1, <2>2
    <3>2. QED
      BY <2>1, <2>2, <3>1
  <2>3. CASE a /\ ~p
    <3>1. o = c /\ u = 0 /\ d = 0
      BY <1>2, <2>1, <2>3
    <3>2. QED
      BY <1>3, <2>1, <2>3, <3>1
  <2>4. CASE a /\ p
    <3>1. o = c
      BY <1>2, <2>1, <2>4
    <3>2. CASE c > 0
      <4>1. u = c /\ d = 0
        BY <1>2, <1>3, <2>1, <2>4, <3>2
      <4>2. QED
        BY <1>3, <2>1, <2>4, <3>1, <3>2, <4>1
    <3>3. CASE c = 0
      <4>1. u = 0 /\ d = 0
        BY <1>2, <1>3, <2>1, <2>4, <3>3
      <4>2. QED
        BY <1>3, <2>1, <2>4, <3>1, <3>3, <4>1
    <3>4. CASE c < 0
      <4>1. u = 0 /\ d = -c
        BY <1>2, <1>3, <2>1, <2>4, <3>4
      <4>2. QED
        BY <1>3, <2>1, <2>4, <3>1, <3>4, <4>1
    <3>5. QED
      BY <1>3, <3>2, <3>3, <3>4
  <2>5. QED
    BY <2>2, <2>3, <2>4
<1>5. QED
  BY <1>4 DEF a, c, p, TermsOf

\* The sum moves by k, and what a reader may return with it.
Shift(r, t) ==
  \E k \in Int :
    /\ res'[r] + Owed(r)'[t] = res[r] + Owed(r)[t] + k
    /\ low'[r] + Over(r)'[t] <= low[r] + Over(r)[t] + k
    /\ high[r] + Under(r)'[t] + k <= high'[r] + Under(r)[t]

SameBut(r, t) ==
  \A u \in Threads \ {t} :
    Owed(r)'[u] = Owed(r)[u] /\ Over(r)'[u] = Over(r)[u] /\ Under(r)'[u] = Under(r)[u]

\* A step moves one thread's terms, the reader's sum and its range: the sum stays
\* in the range.
LEMMA WithinShifts ==
  ASSUME Numbers, Numbers', NEW r \in Readers, NEW t \in Threads,
         TermsOf(r, t)', SameBut(r, t), Shift(r, t), Within(r)
  PROVE  Within(r)'
<1>1. Word \in Nat \ {0}
  BY LeptVarAssumption
<1>2. PICK o, u, d, o1, u1, d1 :
        /\ o = Owed(r) /\ u = Over(r) /\ d = Under(r)
        /\ o1 = Owed(r)' /\ u1 = Over(r)' /\ d1 = Under(r)'
  OBVIOUS
<1>3. /\ \A v \in Threads : o[v] \in Int /\ u[v] \in Int /\ d[v] \in Int
      /\ o1[t] \in Int /\ u1[t] \in Int /\ d1[t] \in Int
  BY <1>2, Terms DEF TermsOf
<1>4. \A v \in Threads : v # t => o1[v] = o[v] /\ u1[v] = u[v] /\ d1[v] = d[v]
  BY <1>2 DEF SameBut
<1>5. PICK x \in Int, y \in Int, z \in Int :
        o1[t] = o[t] + x /\ u1[t] = u[t] + y /\ d1[t] = d[t] + z
  <2>1. PICK x \in Int : o1[t] = o[t] + x
    <3>1. o1[t] - o[t] \in Int /\ o1[t] = o[t] + (o1[t] - o[t])
      BY <1>3
    <3>2. QED
      BY <3>1
  <2>2. PICK y \in Int : u1[t] = u[t] + y
    <3>1. u1[t] - u[t] \in Int /\ u1[t] = u[t] + (u1[t] - u[t])
      BY <1>3
    <3>2. QED
      BY <3>1
  <2>3. PICK z \in Int : d1[t] = d[t] + z
    <3>1. d1[t] - d[t] \in Int /\ d1[t] = d[t] + (d1[t] - d[t])
      BY <1>3
    <3>2. QED
      BY <3>1
  <2>4. QED
    BY <2>1, <2>2, <2>3
<1>6. Altogether(o) \in Int /\ Altogether(o1) = Altogether(o) + x
  BY <1>3, <1>4, <1>5, OneTerm
<1>7. Altogether(u) \in Int /\ Altogether(u1) = Altogether(u) + y
  BY <1>3, <1>4, <1>5, OneTerm
<1>8. Altogether(d) \in Int /\ Altogether(d1) = Altogether(d) + z
  BY <1>3, <1>4, <1>5, OneTerm
<1>9. PICK s \in Int, lo \in Int, hi \in Int, s1 \in Int, lo1 \in Int, hi1 \in Int :
        /\ s = res[r] /\ lo = low[r] /\ hi = high[r]
        /\ s1 = res'[r] /\ lo1 = low'[r] /\ hi1 = high'[r]
  BY DEF Numbers
<1>10. PICK k \in Int : /\ s1 + o1[t] = s + o[t] + k
                       /\ lo1 + u1[t] <= lo + u[t] + k
                       /\ hi + d1[t] + k <= hi1 + d[t]
  BY <1>2, <1>9 DEF Shift
<1>11. s1 + x = s + k /\ lo1 + y <= lo + k /\ hi + z + k <= hi1
  BY <1>3, <1>5, <1>10
<1>12. PICK O \in Int, U \in Int, D \in Int :
         O = Altogether(o) /\ U = Altogether(u) /\ D = Altogether(d)
  BY <1>6, <1>7, <1>8
<1>13. PICK n \in Int : (s + O) % Word = n % Word /\ lo + U <= n /\ n + D <= hi
  BY <1>2, <1>9, <1>12 DEF Within
<1>14. s1 + (O + x) = (s + O) + k
  BY <1>11
<1>15. (s1 + (O + x)) % Word = (n + k) % Word
  <2>1. PICK e \in Int : e = s + O
    OBVIOUS
  <2>2. e % Word = n % Word
    BY <1>13, <2>1
  <2>3. (e + k) % Word = (n + k) % Word
    <3>1. Word \in Nat \ {0} /\ e \in Int /\ n \in Int /\ k \in Int
      BY <1>1, <1>10, <1>13, <2>1
    <3>2. ((e % Word) + k) % Word = (e + k) % Word
      BY <3>1, ModOnce
    <3>3. ((n % Word) + k) % Word = (n + k) % Word
      BY <3>1, ModOnce
    <3>4. QED
      BY <2>2, <3>2, <3>3
  <2>4. QED
    BY <1>14, <2>1, <2>3
<1>16. lo1 + (U + y) <= n + k /\ (n + k) + (D + z) <= hi1 /\ n + k \in Int
  BY <1>11, <1>13
<1>17. /\ Altogether(Owed(r))' = O + x
       /\ Altogether(Over(r))' = U + y
       /\ Altogether(Under(r))' = D + z
  BY <1>2, <1>6, <1>7, <1>8, <1>12 DEF Altogether
<1>18. QED
  BY <1>9, <1>15, <1>16, <1>17 DEF Within

\* For all of them.
AllTerms == \A r \in Readers, t \in Threads : TermsOf(r, t)

\* The same for all threads ...
LEMMA TermsNow == Numbers => AllTerms
BY Terms DEF AllTerms

\* ... and after a step.
LEMMA TermsThen == Numbers' => AllTerms'
BY TermsNow, PTL

\* Threads whose terms are the same for r.
LEMMA SameTerms ==
  ASSUME NEW r \in Readers, NEW u \in Threads, Ahead(r, u)' <=> Ahead(r, u),
         cacheVar'[u] = cacheVar[u], pc'[u] = "clear" <=> pc[u] = "clear"
  PROVE  Owed(r)'[u] = Owed(r)[u] /\ Over(r)'[u] = Over(r)[u] /\ Under(r)'[u] = Under(r)[u]
BY DEF Owed, Over, Under

\* A step that the reader does not notice, but for a wider range.
LEMMA WithinStays ==
  ASSUME Numbers, NEW r \in Readers, Within(r),
         \A u \in Threads : /\ Ahead(r, u)' <=> Ahead(r, u)
                            /\ cacheVar'[u] = cacheVar[u]
                            /\ pc'[u] = "clear" <=> pc[u] = "clear",
         res'[r] = res[r], low'[r] <= low[r], high[r] <= high'[r], Numbers'
  PROVE  Within(r)'
<1>1. Owed(r)' = Owed(r) /\ Over(r)' = Over(r) /\ Under(r)' = Under(r)
  BY DEF Owed, Over, Under
<1>2. PICK U \in Int, D \in Int : U = Altogether(Over(r)) /\ D = Altogether(Under(r))
  <2>1. \A t \in Threads : Over(r)[t] \in Int /\ Under(r)[t] \in Int
    BY Terms DEF TermsOf
  <2>2. QED
    BY <2>1, SumInt, LeptVarAssumption DEF Altogether
<1>3. PICK n \in Int : /\ (res[r] + Altogether(Owed(r))) % Word = n % Word
                       /\ low[r] + U <= n /\ n + D <= high[r]
  BY <1>2 DEF Within
<1>4. low[r] \in Int /\ low'[r] \in Int /\ high[r] \in Int /\ high'[r] \in Int
  BY DEF Numbers
<1>5. low'[r] + U <= n /\ n + D <= high'[r]
  BY <1>3, <1>4
<1>6. QED
  BY <1>1, <1>2, <1>3, <1>5 DEF Within, Altogether

\* A call adds to a cache.
LEMMA WithinAdd ==
  ASSUME TypeOK, TypeOK', NEW r \in Readers, Reading(r), Within(r), NEW t \in Threads, Add(t)
  PROVE  Within(r)'
<1>1. Numbers /\ Numbers' /\ Steps
  BY DEF TypeOK
<1>2. PICK inc \in Int :
         /\ cacheVar' = [cacheVar EXCEPT ![t] = @ + inc]
         /\ low' = [q \in Readers |-> IF Reading(q) /\ inc < 0 THEN low[q] + inc ELSE low[q]]
         /\ high' = [q \in Readers |-> IF Reading(q) /\ inc > 0 THEN high[q] + inc ELSE high[q]]
  BY IncsInt DEF Add
<1>3. /\ pc[t] = "add" /\ pc'[t] = "count" /\ \A u \in Threads \ {t} : pc'[u] = pc[u]
      /\ pc'[r] = pc[r] /\ list' = list /\ at' = at /\ res' = res
  BY <1>1, LeptVarAssumption DEF Add, Go, Steps, storage, reading
<1>4. \A u \in Threads : Ahead(r, u)' <=> Ahead(r, u)
  BY <1>3 DEF Ahead
<1>5. cacheVar'[t] = cacheVar[t] + inc /\ \A u \in Threads \ {t} : cacheVar'[u] = cacheVar[u]
  BY <1>1, <1>2 DEF Numbers
<1>6. SameBut(r, t)
  BY <1>3, <1>4, <1>5, SameTerms DEF SameBut
<1>7. /\ inc < 0 => low'[r] = low[r] + inc /\ high'[r] = high[r]
      /\ inc = 0 => low'[r] = low[r] /\ high'[r] = high[r]
      /\ inc > 0 => low'[r] = low[r] /\ high'[r] = high[r] + inc
  BY <1>2
<1>8. TermsOf(r, t) /\ TermsOf(r, t)'
  BY <1>1, TermsNow, TermsThen DEF AllTerms
<1>9. Over(r)[t] = 0 /\ Over(r)'[t] = 0 /\ Under(r)[t] = 0 /\ Under(r)'[t] = 0
  BY <1>3, <1>8 DEF TermsOf
<1>10. Shift(r, t)
  <2>1. /\ low[r] \in Int /\ high[r] \in Int /\ res[r] \in Int /\ res'[r] = res[r]
        /\ cacheVar[t] \in Int
    BY <1>1, <1>3 DEF Numbers
  <2>2. CASE Ahead(r, t)
    <3>1. Owed(r)[t] = cacheVar[t] /\ Owed(r)'[t] = cacheVar[t] + inc
      BY <1>4, <1>5, <1>8, <2>2 DEF TermsOf
    <3>2. /\ res'[r] + (cacheVar[t] + inc) = res[r] + cacheVar[t] + inc
          /\ low'[r] + 0 <= low[r] + 0 + inc
          /\ high[r] + 0 + inc <= high'[r] + 0
      BY <1>7, <2>1
    <3>3. QED
      BY <1>9, <3>1, <3>2 DEF Shift
  <2>3. CASE ~Ahead(r, t)
    <3>1. Owed(r)[t] = 0 /\ Owed(r)'[t] = 0
      BY <1>4, <1>8, <2>3 DEF TermsOf
    <3>2. /\ res'[r] + 0 = res[r] + 0 + 0
          /\ low'[r] + 0 <= low[r] + 0 + 0
          /\ high[r] + 0 + 0 <= high'[r] + 0
      BY <1>7, <2>1
    <3>3. QED
      BY <1>9, <3>1, <3>2 DEF Shift
  <2>4. QED
    BY <2>2, <2>3
<1>11. QED
  BY <1>1, <1>6, <1>8, <1>10, WithinShifts

\* A sum moves: a reader has it twice, or not at all.
LEMMA MovesIs ==
  ASSUME Numbers, NEW r \in Readers, Reading(r), NEW c \in Int, Moves(c)
  PROVE  /\ c > 0 => low'[r] = low[r] - c /\ high'[r] = high[r] + c
         /\ c = 0 => low'[r] = low[r] /\ high'[r] = high[r]
         /\ c < 0 => low'[r] = low[r] + c /\ high'[r] = high[r] - c
<1>1. low'[r] = low[r] - AbsOf(c) /\ high'[r] = high[r] + AbsOf(c)
  BY DEF Moves
<1>2. /\ c < 0 => AbsOf(c) = -c
      /\ c >= 0 => AbsOf(c) = c
  BY DEF AbsOf
<1>3. low[r] \in Int /\ high[r] \in Int
  BY DEF Numbers
<1>4. CASE c < 0
  BY <1>1, <1>2, <1>3, <1>4
<1>5. CASE c >= 0
  BY <1>1, <1>2, <1>3, <1>5
<1>6. QED
  BY <1>4, <1>5

\* A flush adds the sum to the target: it may be counted twice until it is cleared.
LEMMA WithinFlushAdd ==
  ASSUME TypeOK, TypeOK', ListInv, NEW r \in Readers, Reading(r), Within(r), NEW t \in Threads,
         FlushAdd(t)
  PROVE  Within(r)'
<1>1. Numbers /\ Numbers' /\ Steps
  BY DEF TypeOK
<1>2. PICK c \in Int : c = cacheVar[t]
  BY <1>1 DEF Numbers
<1>3. /\ \/ pc[t] = "flush" /\ pc'[t] = "clear"
         \/ pc[t] = "exit" /\ pc'[t] = "exit clear"
      /\ \A u \in Threads \ {t} : pc'[u] = pc[u]
      /\ pc'[r] = pc[r]
  BY <1>1, LeptVarAssumption DEF FlushAdd, Go, Steps
<1>4. list' = list /\ at' = at /\ res' = res /\ cacheVar' = cacheVar /\ Moves(c)
  BY <1>2 DEF FlushAdd, storage, reading, caches
<1>5. \A u \in Threads : Ahead(r, u)' <=> Ahead(r, u)
  BY <1>3, <1>4 DEF Ahead
<1>6. /\ c > 0 => low'[r] = low[r] - c /\ high'[r] = high[r] + c
      /\ c = 0 => low'[r] = low[r] /\ high'[r] = high[r]
      /\ c < 0 => low'[r] = low[r] + c /\ high'[r] = high[r] - c
  BY <1>1, <1>4, MovesIs
<1>7. SameBut(r, t)
  BY <1>3, <1>4, <1>5, SameTerms DEF SameBut
<1>8. TermsOf(r, t) /\ TermsOf(r, t)'
  BY <1>1, TermsNow, TermsThen DEF AllTerms
<1>9. Over(r)[t] = 0 /\ Under(r)[t] = 0 /\ Owed(r)'[t] = Owed(r)[t]
  BY <1>3, <1>4, <1>5, <1>8 DEF TermsOf
<1>10. /\ low[r] \in Int /\ high[r] \in Int /\ res[r] \in Int /\ res'[r] = res[r]
       /\ Owed(r)[t] \in Int
  BY <1>1, <1>4, <1>8 DEF Numbers, TermsOf
<1>11. \/ c > 0 /\ Over(r)'[t] \in {0, c} /\ Under(r)'[t] = 0
       \/ c = 0 /\ Over(r)'[t] = 0 /\ Under(r)'[t] = 0
       \/ c < 0 /\ Over(r)'[t] = 0 /\ Under(r)'[t] \in {0, -c}
  <2>1. PICK y \in Int, z \in Int : y = Over(r)'[t] /\ z = Under(r)'[t]
    BY <1>8 DEF TermsOf
  <2>2. cacheVar'[t] = c
    BY <1>2, <1>4
  <2>3. \/ y = 0 /\ z = 0
        \/ /\ c > 0 => y = c /\ z = 0
           /\ c = 0 => y = 0 /\ z = 0
           /\ c < 0 => y = 0 /\ z = -c
    BY <1>8, <2>1, <2>2 DEF TermsOf
  <2>4. \/ c > 0 /\ y \in {0, c} /\ z = 0
        \/ c = 0 /\ y = 0 /\ z = 0
        \/ c < 0 /\ y = 0 /\ z \in {0, -c}
    BY <2>3
  <2>5. QED
    BY <2>1, <2>4
<1>12. Shift(r, t)
  <2>1. /\ res'[r] + Owed(r)[t] = res[r] + Owed(r)[t] + 0
        /\ low'[r] + Over(r)'[t] <= low[r] + 0 + 0
        /\ high[r] + Under(r)'[t] + 0 <= high'[r] + 0
    BY <1>6, <1>10, <1>11
  <2>2. QED
    BY <1>9, <2>1 DEF Shift
<1>13. QED
  BY <1>1, <1>7, <1>8, <1>12, WithinShifts

\* A cache that the reader has still to visit is cleared: the sum is not
\* counted twice after all.
LEMMA WithinFlushClear ==
  ASSUME TypeOK, TypeOK', ListInv, NEW r \in Readers, Reading(r), Within(r), NEW t \in Threads,
         FlushClear(t)
  PROVE  Within(r)'
<1>1. Numbers /\ Numbers' /\ Steps
  BY DEF TypeOK
<1>2. PICK c \in Int : c = cacheVar[t]
  BY <1>1 DEF Numbers
<1>3. /\ \/ pc[t] = "clear" /\ pc'[t] = "idle"
         \/ pc[t] = "exit clear" /\ pc'[t] = "exited"
      /\ \A u \in Threads \ {t} : pc'[u] = pc[u]
      /\ pc'[r] = pc[r]
  BY <1>1, LeptVarAssumption DEF FlushClear, Go, Steps
<1>4. /\ list' = list /\ at' = at /\ res' = res /\ low' = low /\ high' = high
      /\ cacheVar' = [cacheVar EXCEPT ![t] = 0]
  BY DEF FlushClear, reading, range
<1>5. cacheVar'[t] = 0 /\ \A u \in Threads \ {t} : cacheVar'[u] = cacheVar[u]
  BY <1>1, <1>4 DEF Numbers
<1>6. \A u \in Threads : Ahead(r, u)' <=> Ahead(r, u)
  BY <1>3, <1>4 DEF Ahead
<1>7. SameBut(r, t)
  BY <1>3, <1>5, <1>6, SameTerms DEF SameBut
<1>8. TermsOf(r, t) /\ TermsOf(r, t)'
  BY <1>1, TermsNow, TermsThen DEF AllTerms
<1>9. Owed(r)'[t] = 0 /\ Over(r)'[t] = 0 /\ Under(r)'[t] = 0
  BY <1>3, <1>5, <1>8 DEF TermsOf
<1>10. PICK x \in Int, y \in Int, z \in Int : x = Owed(r)[t] /\ y = Over(r)[t] /\ z = Under(r)[t]
  BY <1>8 DEF TermsOf
<1>11. \/ x = 0 /\ y = 0 /\ z = 0
       \/ x = y /\ z = 0 /\ x >= 0
       \/ x = -z /\ y = 0 /\ x <= 0
  <2>1. CASE Ahead(r, t)
    <3>1. pc[t] = "clear"
      <4>1. Linked(t)
        BY <2>1 DEF Ahead, Linked
      <4>2. pc[t] # "exit clear"
        BY <4>1 DEF ListInv, Members
      <4>3. QED
        BY <1>3, <4>2
    <3>2. /\ x = c
          /\ c > 0 => y = c /\ z = 0
          /\ c = 0 => y = 0 /\ z = 0
          /\ c < 0 => y = 0 /\ z = -c
      BY <1>2, <1>8, <1>10, <2>1, <3>1 DEF TermsOf
    <3>3. QED
      BY <3>2
  <2>2. CASE ~Ahead(r, t)
    BY <1>8, <1>10, <2>2 DEF TermsOf
  <2>3. QED
    BY <2>1, <2>2
<1>12. Shift(r, t)
  <2>1. /\ low[r] \in Int /\ high[r] \in Int /\ res[r] \in Int
        /\ res'[r] = res[r] /\ low'[r] = low[r] /\ high'[r] = high[r]
    BY <1>1, <1>4 DEF Numbers
  <2>2. /\ res'[r] + 0 = res[r] + x + (-x)
        /\ low'[r] + 0 <= low[r] + y + (-x)
        /\ high[r] + 0 + (-x) <= high'[r] + z
        /\ -x \in Int
    BY <1>11, <2>1
  <2>3. QED
    BY <1>9, <1>10, <2>2 DEF Shift
<1>13. QED
  BY <1>1, <1>7, <1>8, <1>12, WithinShifts

\* An exiting thread's node leaves the list before the accessor is made: its sum
\* is missed.
LEMMA WithinExit ==
  ASSUME TypeOK, TypeOK', ListInv, ListInv', NEW r \in Readers, Reading(r), Within(r),
         NEW t \in Threads, Exit(t)
  PROVE  Within(r)'
<1>1. Numbers /\ Numbers' /\ Steps
  BY DEF TypeOK
<1>2. PICK c \in Int : c = cacheVar[t]
  BY <1>1 DEF Numbers
<1>3. /\ pc[t] = "idle" /\ pc'[t] \in {"exit", "exited"}
      /\ \A u \in Threads \ {t} : pc'[u] = pc[u]
      /\ pc'[r] = pc[r] /\ mutex = NoThread
  BY <1>1, LeptVarAssumption DEF Exit, Go, Steps
<1>4. /\ stored' = stored /\ at' = at /\ res' = res /\ cacheVar' = cacheVar /\ Moves(c)
  BY <1>2 DEF Exit, reading, caches
<1>5. pc[r] # "visit" /\ pc'[r] # "visit"
  BY <1>3, LeptVarAssumption DEF ListInv, Visiting
<1>6. \A u \in Threads : (Ahead(r, u) <=> Linked(u)) /\ (Ahead(r, u)' <=> Linked(u)')
  BY <1>5 DEF Ahead, Linked
<1>7. \A u \in Threads \ {t} : Ahead(r, u)' <=> Ahead(r, u)
  BY <1>3, <1>4, <1>6 DEF ListInv, Members
<1>8. ~Ahead(r, t)'
  <2>1. ~Linked(t)'
    BY <1>3 DEF ListInv, Members, Caches
  <2>2. QED
    BY <1>6, <2>1
<1>9. /\ c > 0 => low'[r] = low[r] - c /\ high'[r] = high[r] + c
      /\ c = 0 => low'[r] = low[r] /\ high'[r] = high[r]
      /\ c < 0 => low'[r] = low[r] + c /\ high'[r] = high[r] - c
  BY <1>1, <1>4, MovesIs
<1>10. SameBut(r, t)
  BY <1>3, <1>4, <1>7, SameTerms DEF SameBut
<1>11. TermsOf(r, t) /\ TermsOf(r, t)'
  BY <1>1, TermsNow, TermsThen DEF AllTerms
<1>12. /\ Owed(r)'[t] = 0 /\ Over(r)'[t] = 0 /\ Under(r)'[t] = 0
       /\ Over(r)[t] = 0 /\ Under(r)[t] = 0 /\ Owed(r)[t] \in {0, c}
  BY <1>2, <1>3, <1>8, <1>11 DEF TermsOf
<1>13. PICK x \in {0, c} : x = Owed(r)[t]
  BY <1>12
<1>14. Shift(r, t)
  <2>1. /\ low[r] \in Int /\ high[r] \in Int /\ res[r] \in Int /\ res'[r] = res[r]
    BY <1>1, <1>4 DEF Numbers
  <2>2. /\ res'[r] + 0 = res[r] + x + (-x)
        /\ low'[r] + 0 <= low[r] + 0 + (-x)
        /\ high[r] + 0 + (-x) <= high'[r] + 0
        /\ -x \in Int
    BY <1>9, <1>13, <2>1
  <2>3. QED
    BY <1>12, <1>13, <2>2 DEF Shift
<1>15. QED
  BY <1>1, <1>10, <1>11, <1>14, WithinShifts

\* The terms of what is on its way between a cache and the target.
Way == [t \in Threads |->
         IF pc[t] \in {"clear", "exit", "exit clear"} THEN AbsOf(cacheVar[t]) ELSE 0]

\* What is under way is at least the cache, whatever its sign.
LEMMA WayIs ==
  ASSUME Numbers, NEW t \in Threads
  PROVE  /\ Way[t] \in Int /\ Way[t] >= 0
         /\ pc[t] \in {"clear", "exit", "exit clear"} =>
              Way[t] >= cacheVar[t] /\ Way[t] >= -cacheVar[t]
         /\ pc[t] \notin {"clear", "exit", "exit clear"} => Way[t] = 0
<1>1. PICK c \in Int, a \in Int : c = cacheVar[t] /\ a = AbsOf(c) /\ a >= 0 /\ a >= c /\ a >= -c
  <2>1. PICK c \in Int : c = cacheVar[t]
    BY DEF Numbers
  <2>2. PICK a : a = AbsOf(c)
    OBVIOUS
  <2>3. (c < 0 => a = -c) /\ (c >= 0 => a = c)
    BY <2>2 DEF AbsOf
  <2>4. a \in Int /\ a >= 0 /\ a >= c /\ a >= -c
    BY <2>3
  <2>5. QED
    BY <2>1, <2>2, <2>4
<1>2. CASE pc[t] \in {"clear", "exit", "exit clear"}
  <2>1. Way[t] = a
    BY <1>1, <1>2 DEF Way
  <2>2. QED
    BY <1>1, <1>2, <2>1
<1>3. CASE pc[t] \notin {"clear", "exit", "exit clear"}
  <2>1. Way[t] = 0
    BY <1>3 DEF Way
  <2>2. Way[t] \in Int /\ Way[t] >= 0
    BY <2>1
  <2>3. QED
    BY <1>3, <2>1, <2>2
<1>4. QED
  BY <1>2, <1>3

\* It is a sum over all threads.
LEMMA UnderwayIs ==
  ASSUME Numbers
  PROVE  Underway = Altogether(Way) /\ Altogether(Way) \in Int
<1> DEFINE T == {t \in Threads : pc[t] \in {"clear", "exit", "exit clear"}}
           f == [t \in Threads |-> AbsOf(cacheVar[t])]
<1>1. IsFiniteSet(Threads) /\ T \in SUBSET Threads
  BY LeptVarAssumption
<1>2. ASSUME NEW t \in Threads
      PROVE  f[t] \in Int /\ (t \in T => Way[t] = f[t]) /\ (t \notin T => Way[t] = 0)
  <2>1. cacheVar[t] \in Int
    BY DEF Numbers
  <2>2. AbsOf(cacheVar[t]) \in Int
    BY <2>1 DEF AbsOf
  <2>3. QED
    BY <2>2 DEF Way
<1> HIDE DEF T, f
<1>3. SumFunctionOnSet(f, T) = SumFunctionOnSet(Way, Threads)
  BY <1>1, <1>2, SumRestricted
<1>4. Altogether(Way) \in Int
  BY <1>1, WayIs, SumInt DEF Altogether
<1>5. QED
  BY <1>3, <1>4 DEF Underway, Altogether, T, f

\* When a read begins, the linked caches and the target make the total, but for
\* what is under way.
LEMMA WithinReadTarget ==
  ASSUME TypeOK, TypeOK', ListInv, SumInv, NEW r \in Readers, ReadTarget(r)
  PROVE  Within(r)'
<1>1. Numbers /\ Numbers' /\ Steps /\ Word \in Nat \ {0} /\ IsFiniteSet(Threads)
  BY LeptVarAssumption DEF TypeOK
<1>2. /\ pc'[r] = "lock" /\ \A t \in Threads : pc'[t] = pc[t]
      /\ list' = list /\ cacheVar' = cacheVar
  BY <1>1, LeptVarAssumption DEF ReadTarget, Go, Steps, storage, caches
<1>3. res'[r] = target /\ low'[r] = total - Underway /\ high'[r] = total + Underway
  BY <1>1 DEF ReadTarget, Numbers
<1>4. \A t \in Threads : Ahead(r, t)' <=> Linked(t)
  BY <1>2 DEF Ahead, Linked
<1>5. PICK o, u, d : o = Owed(r)' /\ u = Over(r)' /\ d = Under(r)'
  OBVIOUS
<1>6. ASSUME NEW t \in Threads
      PROVE  /\ o[t] \in Int /\ u[t] \in Int /\ d[t] \in Int /\ Kept[t] \in Int /\ Way[t] \in Int
             /\ u[t] + Kept[t] <= o[t] + Way[t]
             /\ o[t] + d[t] <= Kept[t] + Way[t]
  <2>1. TermsOf(r, t)'
    BY <1>1, TermsThen DEF AllTerms
  <2>2. PICK c \in Int : c = cacheVar[t]
    BY <1>1 DEF Numbers
  <2>3. PICK x \in Int, y \in Int, z \in Int, k \in Int, w \in Int :
           x = o[t] /\ y = u[t] /\ z = d[t] /\ k = Kept[t] /\ w = Way[t]
    BY <1>1, <1>5, <2>1, KeptIs, WayIs DEF TermsOf
  <2>4. /\ pc[t] \in {"clear", "exit clear"} => k = 0
        /\ pc[t] \notin {"clear", "exit clear"} => k = c
    BY <1>1, <2>2, <2>3, KeptIs
  <2>5. /\ pc[t] \in {"clear", "exit", "exit clear"} => w >= c /\ w >= -c
        /\ pc[t] \notin {"clear", "exit", "exit clear"} => w = 0
        /\ w >= 0
    BY <1>1, <2>2, <2>3, WayIs
  <2>6. /\ ~Linked(t) => x = 0 /\ y = 0 /\ z = 0
        /\ Linked(t) => x = c
        /\ pc[t] # "clear" => y = 0 /\ z = 0
        /\ Linked(t) /\ pc[t] = "clear" =>
             /\ c > 0 => y = c /\ z = 0
             /\ c = 0 => y = 0 /\ z = 0
             /\ c < 0 => y = 0 /\ z = -c
    BY <1>2, <1>4, <1>5, <2>1, <2>2, <2>3 DEF TermsOf
  <2>7. /\ pc[t] = "clear" => Linked(t)
        /\ pc[t] \in {"exit", "exit clear"} => ~Linked(t)
        /\ pc[t] \notin {"clear", "exit", "exit clear"} /\ ~Linked(t) => c = 0
    BY <2>2 DEF ListInv, Members, Caches
  <2>8. y + k <= x + w /\ x + z <= k + w
    <3>1. CASE pc[t] = "clear"
      <4>1. /\ x = c /\ k = 0 /\ w >= c /\ w >= -c
            /\ c > 0 => y = c /\ z = 0
            /\ c = 0 => y = 0 /\ z = 0
            /\ c < 0 => y = 0 /\ z = -c
        BY <2>4, <2>5, <2>6, <2>7, <3>1
      <4>2. QED
        BY <4>1
    <3>2. CASE pc[t] = "exit clear"
      <4>1. x = 0 /\ y = 0 /\ z = 0 /\ k = 0 /\ w >= 0
        BY <2>4, <2>5, <2>6, <2>7, <3>2
      <4>2. QED
        BY <4>1
    <3>3. CASE pc[t] = "exit"
      <4>1. x = 0 /\ y = 0 /\ z = 0 /\ k = c /\ w >= c /\ w >= -c
        BY <2>4, <2>5, <2>6, <2>7, <3>3
      <4>2. QED
        BY <4>1
    <3>4. CASE pc[t] \notin {"clear", "exit", "exit clear"}
      <4>1. y = 0 /\ z = 0 /\ k = c /\ w = 0 /\ x = c
        BY <2>4, <2>5, <2>6, <2>7, <3>4
      <4>2. QED
        BY <4>1
    <3>5. QED
      BY <3>1, <3>2, <3>3, <3>4
  <2>9. QED
    BY <2>3, <2>8
<1>7. /\ Altogether(u) + Altogether(Kept) <= Altogether(o) + Altogether(Way)
      /\ Altogether(o) + Altogether(d) <= Altogether(Kept) + Altogether(Way)
  <2>1. PICK k, w : k = Kept /\ w = Way
    OBVIOUS
  <2>2. \A t \in Threads : /\ u[t] \in Int /\ k[t] \in Int /\ o[t] \in Int /\ w[t] \in Int
                           /\ u[t] + k[t] <= o[t] + w[t]
    BY <1>6, <2>1
  <2>3. \A t \in Threads : /\ o[t] \in Int /\ d[t] \in Int /\ k[t] \in Int /\ w[t] \in Int
                           /\ o[t] + d[t] <= k[t] + w[t]
    BY <1>6, <2>1
  <2>4. SumFunctionOnSet(u, Threads) + SumFunctionOnSet(k, Threads)
          <= SumFunctionOnSet(o, Threads) + SumFunctionOnSet(w, Threads)
    BY <1>1, <2>2, SumLe
  <2>5. SumFunctionOnSet(o, Threads) + SumFunctionOnSet(d, Threads)
          <= SumFunctionOnSet(k, Threads) + SumFunctionOnSet(w, Threads)
    BY <1>1, <2>3, SumLe
  <2>6. QED
    BY <2>1, <2>4, <2>5 DEF Altogether
<1>8. PICK O \in Int, U \in Int, D \in Int, K \in Int, W \in Int, x \in Int, y \in Int :
         /\ O = Altogether(o) /\ U = Altogether(u) /\ D = Altogether(d)
         /\ K = Altogether(Kept) /\ W = Altogether(Way)
         /\ x = target /\ y = total
  <2>1. Altogether(o) \in Int /\ Altogether(u) \in Int /\ Altogether(d) \in Int
    BY <1>1, <1>6, SumInt DEF Altogether
  <2>2. Altogether(Kept) \in Int /\ Altogether(Way) \in Int
    BY <1>1, KeptInt, UnderwayIs
  <2>3. target \in Int /\ total \in Int
    BY <1>1 DEF Numbers
  <2>4. QED
    BY <2>1, <2>2, <2>3
<1>9. U + K <= O + W /\ O + D <= K + W
  BY <1>7, <1>8
<1>10. (x + K) % Word = y
  BY <1>8 DEF SumInv
<1>11. (((x + K) % Word) + (O - K)) % Word = ((x + K) + (O - K)) % Word
  <2>1. x + K \in Int /\ O - K \in Int
    OBVIOUS
  <2>2. QED
    BY <1>1, <2>1, ModOnce
<1>12. (x + K) + (O - K) = x + O
  OBVIOUS
<1>13. (x + O) % Word = (y + (O - K)) % Word
  BY <1>10, <1>11, <1>12
<1>14. /\ y + (O - K) \in Int
       /\ (y - W) + U <= y + (O - K)
       /\ (y + (O - K)) + D <= y + W
  BY <1>9
<1>15. res'[r] = x /\ low'[r] = y - W /\ high'[r] = y + W
  BY <1>1, <1>3, <1>8, UnderwayIs
<1>16. /\ Altogether(Owed(r))' = O /\ Altogether(Over(r))' = U /\ Altogether(Under(r))' = D
  BY <1>5, <1>8 DEF Altogether
<1>17. QED
  BY <1>13, <1>14, <1>15, <1>16 DEF Within

\* A visited cache is no longer owed.
LEMMA WithinVisit ==
  ASSUME TypeOK, TypeOK', ListInv, NEW r \in Readers, Within(r), Visit(r)
  PROVE  Within(r)'
<1>1. Numbers /\ Numbers'
  BY DEF TypeOK
<1>2. PICK i \in 1..Len(list) : i = at[r]
  BY <1>1 DEF Visit, ListInv, Visiting, Numbers
<1>3. PICK t \in Threads : t = list[i]
  <2>1. list \in Seq(Threads)
    BY <1>1 DEF Numbers
  <2>2. list[i] \in Threads
    BY <2>1
  <2>3. QED
    BY <2>2
<1>4. PICK c \in Int : c = cacheVar[t]
  BY <1>1 DEF Numbers
<1>5. /\ UNCHANGED <<pc, list, cacheVar, stored, low, high>>
      /\ pc[r] = "visit" /\ at'[r] = i + 1
      /\ res'[r] = IF t \in stored THEN res[r] + c ELSE res[r]
  BY <1>1, <1>2, <1>3, <1>4 DEF Visit, Numbers, storage, caches, range
<1>6. res'[r] = res[r] + c
  <2>1. res[r] \in Int
    BY <1>1 DEF Numbers
  <2>2. t \notin stored => c = 0
    BY <1>4 DEF ListInv, Caches
  <2>3. CASE t \in stored
    BY <1>5, <2>3
  <2>4. CASE t \notin stored
    BY <1>5, <2>1, <2>2, <2>4
  <2>5. QED
    BY <2>3, <2>4
<1>7. Ahead(r, t)
  BY <1>2, <1>3 DEF Ahead
<1>8. ~Ahead(r, t)'
  <2>1. ASSUME NEW j \in 1..Len(list), list[j] = t PROVE ~(i + 1 <= j)
    BY <1>2, <1>3, <2>1 DEF ListInv, Distinct
  <2>2. QED
    BY <1>5, <2>1 DEF Ahead
<1>9. \A u \in Threads \ {t} : Ahead(r, u)' <=> Ahead(r, u)
  <2>1. ASSUME NEW u \in Threads \ {t}, NEW j \in 1..Len(list), list[j] = u
        PROVE  i + 1 <= j <=> i <= j
    BY <1>3, <2>1
  <2>2. QED
    BY <1>2, <1>5, <2>1 DEF Ahead
<1>10. SameBut(r, t)
  BY <1>5, <1>9, SameTerms DEF SameBut
<1>11. TermsOf(r, t) /\ TermsOf(r, t)'
  BY <1>1, TermsNow, TermsThen DEF AllTerms
<1>12. PICK y \in Int, z \in Int : y = Over(r)[t] /\ z = Under(r)[t] /\ y >= 0 /\ z >= 0
  <2>1. PICK y \in Int, z \in Int : y = Over(r)[t] /\ z = Under(r)[t]
    BY <1>11 DEF TermsOf
  <2>2. \/ y = 0 /\ z = 0
        \/ /\ c > 0 => y = c /\ z = 0
           /\ c = 0 => y = 0 /\ z = 0
           /\ c < 0 => y = 0 /\ z = -c
    BY <1>4, <1>7, <1>11, <2>1 DEF TermsOf
  <2>3. y >= 0 /\ z >= 0
    BY <2>2
  <2>4. QED
    BY <2>1, <2>3
<1>13. /\ Owed(r)[t] = c
       /\ Owed(r)'[t] = 0 /\ Over(r)'[t] = 0 /\ Under(r)'[t] = 0
  BY <1>4, <1>7, <1>8, <1>11 DEF TermsOf
<1>14. Shift(r, t)
  <2>1. /\ low[r] \in Int /\ high[r] \in Int /\ res[r] \in Int
        /\ low'[r] = low[r] /\ high'[r] = high[r]
    BY <1>1, <1>5 DEF Numbers
  <2>2. /\ res'[r] + 0 = res[r] + c + 0
        /\ low'[r] + 0 <= low[r] + y + 0
        /\ high[r] + 0 + 0 <= high'[r] + z
    BY <1>6, <1>12, <2>1
  <2>3. QED
    BY <1>12, <1>13, <2>2 DEF Shift
<1>15. QED
  BY <1>1, <1>10, <1>11, <1>14, WithinShifts

\* The steps that a read does not notice.
LEMMA Unnoticed ==
  ASSUME TypeOK, TypeOK', NEW r \in Readers, Within(r),
         pc'[r] = "visit" <=> pc[r] = "visit",
         UNCHANGED <<list, cacheVar>>,
         at'[r] = at[r], res'[r] = res[r], low'[r] = low[r], high'[r] = high[r],
         \A t \in Threads : pc'[t] = "clear" <=> pc[t] = "clear"
  PROVE  Within(r)'
<1>1. Numbers /\ Numbers'
  BY DEF TypeOK
<1>2. \A t \in Threads : Ahead(r, t)' <=> Ahead(r, t)
  BY DEF Ahead
<1>3. low'[r] <= low[r] /\ high[r] <= high'[r]
  BY <1>1 DEF Numbers
<1>4. QED
  BY <1>1, <1>2, <1>3, WithinStays

\* Every step keeps every read in its range.
LEMMA ReaderKept ==
  TypeOK /\ TypeOK' /\ ListInv /\ ListInv' /\ SumInv /\ ReaderInv /\ [Next]_vars => ReaderInv'
<1> SUFFICES ASSUME TypeOK, TypeOK', ListInv, ListInv', SumInv, ReaderInv, [Next]_vars,
                    NEW r \in Readers, Reading(r)'
             PROVE  Within(r)'
  BY DEF ReaderInv
<1>1. Numbers /\ Numbers' /\ Steps
  BY DEF TypeOK
<1>2. CASE ReadTarget(r)
  BY <1>2, WithinReadTarget
<1>3. Reading(r) /\ ~ReadTarget(r) => Within(r)
  BY DEF ReaderInv
<1>4. ASSUME NEW t \in Threads, Get(t) \/ Store(t) \/ Count(t)
      PROVE  Within(r)'
  <2>1. /\ pc'[r] = pc[r] /\ \A u \in Threads : pc'[u] = "clear" <=> pc[u] = "clear"
        /\ UNCHANGED <<list, cacheVar, at, res, low, high>>
    BY <1>1, <1>4, LeptVarAssumption
       DEF Get, Store, Count, Go, Steps, storage, caches, reading, range
  <2>2. Within(r)
    BY <2>1 DEF Reading, ReaderInv
  <2>3. QED
    BY <2>1, <2>2, Unnoticed
<1>5. ASSUME NEW t \in Threads, Link(t) PROVE Within(r)'
  <2>1. /\ pc[t] = "link" /\ pc'[t] = "store" /\ \A u \in Threads \ {t} : pc'[u] = pc[u]
        /\ pc'[r] = pc[r] /\ mutex = NoThread
        /\ UNCHANGED <<cacheVar, stored, res, low, high>>
    BY <1>1, <1>5, LeptVarAssumption DEF Link, Go, Steps, caches, reading, range
  <2>2. pc[r] # "visit" /\ pc'[r] # "visit" /\ Within(r)
    BY <2>1, LeptVarAssumption DEF ListInv, Visiting, Reading, ReaderInv
  <2>3. \A u \in Threads : (Ahead(r, u) <=> Linked(u)) /\ (Ahead(r, u)' <=> Linked(u)')
    BY <2>2 DEF Ahead, Linked
  <2>4. \A u \in Threads \ {t} : Ahead(r, u)' <=> Ahead(r, u)
    BY <2>1, <2>3 DEF ListInv, Members
  <2>5. cacheVar[t] = 0
    BY <2>1 DEF ListInv, Caches
  <2>6. SameBut(r, t)
    BY <2>1, <2>4, SameTerms DEF SameBut
  <2>7. TermsOf(r, t) /\ TermsOf(r, t)'
    BY <1>1, TermsNow, TermsThen DEF AllTerms
  <2>8. /\ Owed(r)[t] = 0 /\ Over(r)[t] = 0 /\ Under(r)[t] = 0
        /\ Owed(r)'[t] = 0 /\ Over(r)'[t] = 0 /\ Under(r)'[t] = 0
    BY <2>1, <2>5, <2>7 DEF TermsOf
  <2>9. Shift(r, t)
    <3>1. /\ res[r] \in Int /\ low[r] \in Int /\ high[r] \in Int
          /\ res'[r] = res[r] /\ low'[r] = low[r] /\ high'[r] = high[r]
      BY <1>1, <2>1 DEF Numbers
    <3>2. /\ res'[r] + 0 = res[r] + 0 + 0
          /\ low'[r] + 0 <= low[r] + 0 + 0
          /\ high[r] + 0 + 0 <= high'[r] + 0
      BY <3>1
    <3>3. QED
      BY <2>8, <3>2 DEF Shift
  <2>10. QED
    BY <1>1, <2>2, <2>6, <2>7, <2>9, WithinShifts
<1>6. ASSUME NEW t \in Threads, Add(t) \/ FlushAdd(t) \/ FlushClear(t) \/ Exit(t) PROVE Within(r)'
  <2>1. pc'[r] = pc[r]
    BY <1>1, <1>6, LeptVarAssumption DEF Add, FlushAdd, FlushClear, Exit, Go, Steps
  <2>2. Reading(r) /\ Within(r)
    BY <2>1 DEF Reading, ReaderInv
  <2>3. QED
    BY <1>6, <2>2, WithinAdd, WithinFlushAdd, WithinFlushClear, WithinExit
<1>7. ASSUME NEW q \in Readers \ {r}, ReadTarget(q) \/ Lock(q) \/ Visit(q) \/ Return(q)
      PROVE  Within(r)'
  <2>1. /\ pc'[r] = pc[r] /\ \A u \in Threads : pc'[u] = pc[u]
        /\ UNCHANGED <<list, cacheVar>>
        /\ at'[r] = at[r] /\ res'[r] = res[r] /\ low'[r] = low[r] /\ high'[r] = high[r]
    <3>1. pc'[r] = pc[r] /\ \A u \in Threads : pc'[u] = pc[u]
      BY <1>1, <1>7, LeptVarAssumption DEF ReadTarget, Lock, Visit, Return, Go, Steps
    <3>2. UNCHANGED <<list, cacheVar>>
      BY <1>7 DEF ReadTarget, Lock, Visit, Return, storage, caches
    <3>3. /\ \/ at' = at
             \/ \E n : at' = [at EXCEPT ![q] = n]
          /\ \/ res' = res
             \/ \E n : res' = [res EXCEPT ![q] = n]
          /\ \/ low' = low /\ high' = high
             \/ \E n, m : low' = [low EXCEPT ![q] = n] /\ high' = [high EXCEPT ![q] = m]
      <4>1. CASE ReadTarget(q)
        BY <4>1 DEF ReadTarget
      <4>2. CASE Lock(q)
        BY <4>2 DEF Lock, range
      <4>3. CASE Visit(q)
        BY <4>3 DEF Visit, range
      <4>4. CASE Return(q)
        BY <4>4 DEF Return
      <4>5. QED
        BY <1>7, <4>1, <4>2, <4>3, <4>4
    <3>4. at'[r] = at[r] /\ res'[r] = res[r] /\ low'[r] = low[r] /\ high'[r] = high[r]
      BY <1>1, <1>7, <3>3 DEF Numbers
    <3>5. QED
      BY <3>1, <3>2, <3>4
  <2>2. Within(r)
    BY <2>1 DEF Reading, ReaderInv
  <2>3. QED
    BY <2>1, <2>2, Unnoticed
<1>8. CASE Lock(r)
  <2>1. /\ pc[r] = "lock" /\ pc'[r] = "visit" /\ \A u \in Threads : pc'[u] = pc[u]
        /\ UNCHANGED <<list, cacheVar, res, low, high>> /\ at'[r] = 1
    BY <1>1, <1>8, LeptVarAssumption DEF Lock, Go, Steps, Numbers, storage, caches, range
  <2>2. Within(r)
    BY <2>1 DEF Reading, ReaderInv
  <2>3. \A u \in Threads : Ahead(r, u)' <=> Ahead(r, u)
    BY <2>1 DEF Ahead
  <2>4. low'[r] <= low[r] /\ high[r] <= high'[r]
    BY <1>1, <2>1 DEF Numbers
  <2>5. QED
    BY <1>1, <2>1, <2>2, <2>3, <2>4, WithinStays
<1>9. CASE Visit(r)
  <2>1. Within(r)
    BY <1>9 DEF Visit, Reading, ReaderInv
  <2>2. QED
    BY <1>9, <2>1, WithinVisit
<1>10. ~Return(r)
  BY <1>1 DEF Return, Go, Steps, Reading
<1>11. CASE SetCacheSize \/ ReadFastAndReset \/ UNCHANGED vars
  <2>1. UNCHANGED <<pc, list, cacheVar, at, res, low, high>>
    BY <1>11 DEF SetCacheSize, ReadFastAndReset, vars, storage, caches, reading, range
  <2>2. Within(r)
    BY <2>1 DEF Reading, ReaderInv
  <2>3. QED
    BY <2>1, <2>2, Unnoticed
<1>12. QED
  BY <1>2, <1>4, <1>5, <1>6, <1>7, <1>8, <1>9, <1>10, <1>11 DEF Next

\* The invariant holds at the start ...
LEMMA InitIInv == Init => IInv
<1> SUFFICES ASSUME Init PROVE IInv
  OBVIOUS
<1>1. Numbers
  <2>1. Initial \in 0..(Word - 1) /\ Word \in Int
    BY LeptVarAssumption
  <2>2. target = Initial /\ total = Initial /\ Initial \in Int
    BY <2>1 DEF Init
  <2>3. QED
    BY <2>1, <2>2 DEF Init, Numbers
<1>2. Steps
  BY DEF Init, Steps, Calling, ReadSteps
<1>3. \A t \in Threads \cup Readers : pc[t] = "idle"
  BY DEF Init
<1>4. ListInv
  <2>1. Len(list) = 0 /\ stored = {} /\ \A t \in Threads : cacheVar[t] = 0
    BY DEF Init
  <2>2. \A t \in Threads : ~Linked(t)
    BY <2>1 DEF Linked
  <2>3. QED
    BY <1>3, <2>1, <2>2 DEF ListInv, Distinct, Members, Caches, Visiting
<1>5. CacheInv
  <2>1. PICK c \in CacheSizes : c \in Nat \ {0}
    BY LeptVarAssumption
  <2>2. 0 < c
    BY <2>1
  <2>3. QED
    BY <2>2 DEF Init, CacheInv
<1>6. SumInv
  <2>1. \A t \in Threads : Kept[t] = 0
    BY <1>3 DEF Init, Kept
  <2>2. Altogether(Kept) = 0
    BY <2>1, SumZero, LeptVarAssumption DEF Altogether
  <2>3. target = Initial /\ total = Initial /\ Initial \in 0..(Word - 1) /\ Word \in Nat \ {0}
    BY LeptVarAssumption DEF Init
  <2>4. Initial = Word * 0 + Initial /\ Initial \in Int /\ Initial + 0 = Initial
    BY <2>3
  <2>5. Initial % Word = Initial
    BY <2>3, <2>4, ModUnique
  <2>6. QED
    BY <2>2, <2>3, <2>4, <2>5 DEF SumInv
<1>7. ReaderInv
  BY <1>3 DEF ReaderInv, Reading
<1>8. QED
  BY <1>1, <1>2, <1>4, <1>5, <1>6, <1>7 DEF IInv, TypeOK

\* ... and every step keeps it.
LEMMA StepIInv == IInv /\ [Next]_vars => IInv'
<1> SUFFICES ASSUME IInv, [Next]_vars PROVE IInv'
  OBVIOUS
<1>1. TypeOK /\ ListInv /\ CacheInv /\ SumInv /\ ReaderInv
  BY DEF IInv
<1>2. TypeOK'
  BY <1>1, NumbersKept, StepsKept DEF TypeOK
<1>3. ListInv'
  BY <1>1, MembersKept, CachesKept, VisitingKept DEF ListInv
<1>4. CacheInv'
  BY <1>1, CacheKept
<1>5. SumInv'
  BY <1>1, <1>2, SumKept
<1>6. ReaderInv'
  BY <1>1, <1>2, <1>3, ReaderKept
<1>7. QED
  BY <1>2, <1>3, <1>4, <1>5, <1>6 DEF IInv

\* The inductive invariant of the counter.
THEOREM Invariance == Spec => []IInv
<1>1. Init => IInv
  BY InitIInv
<1>2. IInv /\ [Next]_vars => IInv'
  BY StepIInv
<1>3. QED
  BY <1>1, <1>2, PTL DEF Spec

\* increment, flush, ~VarCache and readFastAndReset: the target and the caches make
\* the sum of all calls, modulo the word.
THEOREM NoCallLost == Spec => []NothingLost
<1>1. IInv => NothingLost
  <2> SUFFICES ASSUME IInv PROVE NothingLost
    OBVIOUS
  <2> DEFINE held == {t \in Threads : pc[t] \notin {"clear", "exit clear"}}
  <2>1. Numbers /\ SumInv /\ IsFiniteSet(Threads) /\ held \in SUBSET Threads
    BY LeptVarAssumption DEF IInv, TypeOK
  <2>2. \A t \in Threads : /\ cacheVar[t] \in Int
                           /\ t \in held => Kept[t] = cacheVar[t]
                           /\ t \notin held => Kept[t] = 0
    BY <2>1 DEF Kept, Numbers
  <2> HIDE DEF held
  <2>3. SumFunctionOnSet(cacheVar, held) = SumFunctionOnSet(Kept, Threads)
    BY <2>1, <2>2, SumRestricted
  <2>4. QED
    BY <2>1, <2>3 DEF NothingLost, SumInv, Altogether, held
<1>2. QED
  BY <1>1, Invariance, PTL

\* readFull: what it returns lies in the range of the totals it saw, widened by what
\* was on its way to the target.
THEOREM ReadsWithinRange == Spec => []ReadWithin
<1>1. IInv => ReadWithin
  <2> SUFFICES ASSUME IInv, NEW r \in Readers, pc[r] = "visit", at[r] > Len(list)
               PROVE  \E n \in low[r]..high[r] : res[r] % Word = n % Word
    BY DEF ReadWithin
  <2>1. Numbers /\ Within(r) /\ IsFiniteSet(Threads)
    BY LeptVarAssumption DEF IInv, TypeOK, ReaderInv, Reading
  <2>2. \A t \in Threads : ~Ahead(r, t)
    <3>1. at[r] \in Nat /\ Len(list) \in Nat
      BY <2>1 DEF Numbers
    <3>2. \A i \in 1..Len(list) : ~(at[r] <= i)
      BY <3>1
    <3>3. QED
      BY <3>2 DEF Ahead
  <2>3. \A t \in Threads : Owed(r)[t] = 0 /\ Over(r)[t] = 0 /\ Under(r)[t] = 0
    BY <2>1, <2>2, TermsNow DEF AllTerms, TermsOf
  <2>4. Altogether(Owed(r)) = 0 /\ Altogether(Over(r)) = 0 /\ Altogether(Under(r)) = 0
    BY <2>1, <2>3, SumZero DEF Altogether
  <2>5. PICK n \in Int : (res[r] + 0) % Word = n % Word /\ low[r] + 0 <= n /\ n + 0 <= high[r]
    BY <2>1, <2>4 DEF Within
  <2>6. low[r] \in Int /\ high[r] \in Int /\ res[r] \in Int
    BY <2>1 DEF Numbers
  <2>7. n \in low[r]..high[r] /\ res[r] + 0 = res[r]
    BY <2>5, <2>6
  <2>8. QED
    BY <2>5, <2>7
<1>2. QED
  BY <1>1, Invariance, PTL

\* A finite set of numbers has a largest one.
LEMMA MaxIs ==
  ASSUME NEW S, IsFiniteSet(S), S # {}, S \subseteq Nat
  PROVE  Max(S) \in S /\ \A x \in S : x <= Max(S)
<1> DEFINE Topped == {T \in SUBSET S : T = {} \/ \E m \in T : \A x \in T : m >= x}
<1>1. {} \in Topped
  OBVIOUS
<1>2. ASSUME NEW T \in SUBSET S, NEW x \in S, x \notin T, T \in Topped
      PROVE  T \cup {x} \in Topped
  <2>1. CASE T = {}
    <3>1. \A y \in T \cup {x} : x >= y
      BY <2>1
    <3>2. QED
      BY <3>1
  <2>2. CASE T # {}
    <3>1. PICK m \in T : \A y \in T : m >= y
      BY <1>2, <2>2
    <3>2. CASE m >= x
      <4>1. \A y \in T \cup {x} : m >= y
        BY <3>1, <3>2
      <4>2. QED
        BY <4>1
    <3>3. CASE x > m
      <4>1. \A y \in T \cup {x} : x >= y
        BY <3>1, <3>3
      <4>2. QED
        BY <4>1
    <3>4. QED
      BY <3>2, <3>3
  <2>3. QED
    BY <2>1, <2>2
<1>3. S \in Topped
  <2> HIDE DEF Topped
  <2>1. QED
    BY <1>1, <1>2, FiniteInduction
<1>4. \E m \in S : \A x \in S : m >= x
  BY <1>3
<1>5. Max(S) \in S /\ \A x \in S : Max(S) >= x
  BY <1>4 DEF Max
<1>6. QED
  BY <1>5

\* increment and setCacheSize: no thread keeps back as many calls as the largest cache
\* size.
THEOREM CachesAreBounded == Spec => []CacheBounded
<1>1. IInv => CacheBounded
  <2> SUFFICES ASSUME IInv, NEW t \in Threads, pc[t] = "idle"
               PROVE  numUpdate[t] < Max(CacheSizes)
    BY DEF CacheBounded
  <2>1. PICK c \in CacheSizes : numUpdate[t] < c
    BY DEF IInv, CacheInv, Calling
  <2>2. CacheSizes \subseteq Nat /\ IsFiniteSet(CacheSizes) /\ CacheSizes # {}
    BY LeptVarAssumption
  <2>3. Max(CacheSizes) \in CacheSizes /\ c <= Max(CacheSizes)
    BY <2>2, MaxIs
  <2>4. numUpdate[t] \in Nat /\ c \in Nat /\ Max(CacheSizes) \in Nat
    BY <2>2, <2>3 DEF IInv, TypeOK, Numbers
  <2>5. QED
    BY <2>1, <2>3, <2>4
<1>2. QED
  BY <1>1, Invariance, PTL

\* ~VarCache and onThreadExit: an exited thread has left nothing in its cache, and the
\* list has no cache that is being freed.
THEOREM ExitsAreFlushed == Spec => []ExitedIsFlushed
<1>1. IInv => ExitedIsFlushed
  <2> SUFFICES ASSUME IInv PROVE ExitedIsFlushed
    OBVIOUS
  <2>1. \A t \in Threads : pc[t] = "exited" => cacheVar[t] = 0 /\ t \notin stored
    BY DEF IInv, ListInv, Caches
  <2>2. \A t \in ToSet(list) : t \in Threads /\ Linked(t)
    BY DEF IInv, TypeOK, Numbers, ToSet, Linked
  <2>3. \A t \in ToSet(list) : pc[t] \notin {"exit", "exit clear", "exited"}
    BY <2>2 DEF IInv, ListInv, Members, Caches
  <2>4. QED
    BY <2>1, <2>3 DEF ExitedIsFlushed
<1>2. QED
  BY <1>1, Invariance, PTL
=============================================================================
