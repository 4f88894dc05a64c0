--------------------------- MODULE LeptJsonProofs ---------------------------
(***************************************************************************)
(* The parser's stack, the blocks of its values, what it allocates and     *)
(* which texts it accepts, for texts of any length and depth, any sizes of *)
(* a value and of the stack, and any number of parses and calls between    *)
(* them.                                                                   *)
(***************************************************************************)
EXTENDS JsonGrammar, FiniteSetTheorems, SequenceTheorems, TLAPS

\* Induction over a finite set, stated with a set of sets: an operator cannot be
\* passed to a lemma here.
LEMMA FiniteInduction ==
  ASSUME NEW S, IsFiniteSet(S), NEW Q, {} \in Q,
         \A T \in SUBSET S, x \in S : x \notin T /\ T \in Q => T \cup {x} \in Q
  PROVE  S \in Q
<1> DEFINE Bad == {T \in SUBSET S : T \notin Q}
           R == StrictSubsetOrdering(S)
<1>1. IsWellFoundedOn(R, SUBSET S)
  BY FS_StrictSubsetOrderingWellFounded, FS_FiniteSubsetsOfFinite
<1>2. SUFFICES ASSUME Bad # {} PROVE FALSE
  OBVIOUS
<1>3. PICK T \in Bad : \A U \in Bad : <<U, T>> \notin R
  <2> HIDE DEF R
  <2>1. Bad \subseteq SUBSET S
    OBVIOUS
  <2> HIDE DEF Bad
  <2>2. QED
    BY <1>1, <1>2, <2>1, WFMin
<1>4. PICK x \in T : TRUE
  OBVIOUS
<1>5. T \ {x} \notin Bad
  BY <1>3, <1>4 DEF StrictSubsetOrdering
<1>6. T \ {x} \in Q /\ (T \ {x}) \cup {x} = T
  BY <1>4, <1>5
<1>7. QED
  BY <1>4, <1>6

\* Induction over the numbers, with a set of numbers.
LEMMA NaturalInduction ==
  ASSUME NEW Q, 0 \in Q, \A n \in Nat : n \in Q => n + 1 \in Q
  PROVE  \A n \in Nat : n \in Q
<1> DEFINE Bad == {n \in Nat : n \notin Q}
           R == OpToRel(<, Nat)
<1>1. SUFFICES ASSUME Bad # {} PROVE FALSE
  OBVIOUS
<1>2. PICK n \in Bad : \A m \in Bad : <<m, n>> \notin R
  <2>1. Bad \subseteq Nat /\ IsWellFoundedOn(R, Nat)
    BY NatLessThanWellFounded
  <2> HIDE DEF Bad, R
  <2>2. QED
    BY <1>1, <2>1, WFMin
<1>3. n # 0 /\ n - 1 \in Nat /\ n - 1 < n /\ n = (n - 1) + 1
  <2> HIDE DEF R
  <2>1. n \in Nat /\ n \notin Q
    BY <1>2
  <2>2. n # 0
    BY <2>1
  <2>3. QED
    BY <2>1, <2>2
<1>4. n - 1 \notin Bad
  BY <1>2, <1>3 DEF OpToRel
<1>5. QED
  BY <1>2, <1>3, <1>4

Chosen(s) == CHOOSE x \in s : TRUE
Stepped(f, g, s) == IF s = {} THEN 0 ELSE f[Chosen(s)] + g[s \ {Chosen(s)}]

Recursive(g, f, S) == g = [s \in SUBSET S |-> Stepped(f, g, s)]

\* g[T] is the sum of f over T
Adds(g, f, S) ==
  /\ g[{}] = 0
  /\ \A T \in SUBSET S, x \in S : x \notin T => g[T \cup {x}] = g[T] + f[x]

\* There is a function that computes the sums by the fold's recursion.
LEMMA SumExists ==
  ASSUME NEW S, IsFiniteSet(S), NEW f, \A x \in S : f[x] \in Int
  PROVE  \E g \in [SUBSET S -> Int] : Recursive(g, f, S)
<1> DEFINE Q == {n \in Nat : \E g \in [SUBSET S -> Int] :
                   \A s \in SUBSET S : Cardinality(s) <= n => g[s] = Stepped(f, g, s)}
<1>1. \A s \in SUBSET S : IsFiniteSet(s) /\ Cardinality(s) \in Nat
  BY FS_Subset, FS_CardinalityType
<1>2. \A s \in SUBSET S : s # {} =>
        /\ Chosen(s) \in s /\ Chosen(s) \in S /\ s \ {Chosen(s)} \in SUBSET S
        /\ Cardinality(s \ {Chosen(s)}) = Cardinality(s) - 1
  BY <1>1, FS_RemoveElement DEF Chosen
<1>3. 0 \in Q
  <2> DEFINE g == [s \in SUBSET S |-> 0]
  <2>1. \A s \in SUBSET S : Cardinality(s) <= 0 => s = {}
    BY <1>1, FS_EmptySet
  <2>2. \A s \in SUBSET S : Cardinality(s) <= 0 => g[s] = Stepped(f, g, s)
    BY <2>1 DEF Stepped
  <2>3. g \in [SUBSET S -> Int]
    OBVIOUS
  <2>4. QED
    BY <2>2, <2>3
<1>4. ASSUME NEW n \in Nat, n \in Q
      PROVE  n + 1 \in Q
  <2>1. PICK g \in [SUBSET S -> Int] :
               \A s \in SUBSET S : Cardinality(s) <= n => g[s] = Stepped(f, g, s)
    BY <1>4
  <2> DEFINE h == [s \in SUBSET S |-> Stepped(f, g, s)]
  <2>2. h \in [SUBSET S -> Int]
    <3>1. ASSUME NEW s \in SUBSET S PROVE Stepped(f, g, s) \in Int
      <4>1. CASE s = {}
        BY <4>1 DEF Stepped
      <4>2. CASE s # {}
        <5>1. f[Chosen(s)] \in Int /\ g[s \ {Chosen(s)}] \in Int
          BY <1>2, <2>1, <4>2
        <5>2. QED
          BY <4>2, <5>1 DEF Stepped
      <4>3. QED
        BY <4>1, <4>2
    <3>2. QED
      BY <3>1
  <2>3. ASSUME NEW s \in SUBSET S, Cardinality(s) <= n + 1
        PROVE  h[s] = Stepped(f, h, s)
    <3>1. CASE s = {}
      BY <3>1 DEF Stepped
    <3>2. CASE s # {}
      <4> DEFINE r == s \ {Chosen(s)}
      <4>1. r \in SUBSET S /\ Cardinality(r) <= n
        BY <1>1, <1>2, <2>3, <3>2
      <4>2. g[r] = Stepped(f, g, r) /\ h[r] = Stepped(f, g, r)
        BY <2>1, <4>1
      <4>3. h[s] = f[Chosen(s)] + g[r] /\ Stepped(f, h, s) = f[Chosen(s)] + h[r]
        BY <3>2 DEF Stepped
      <4>4. QED
        BY <4>2, <4>3
    <3>3. QED
      BY <3>1, <3>2
  <2> HIDE DEF h
  <2>4. QED
    BY <2>2, <2>3
<1>5. Cardinality(S) \in Nat /\ Cardinality(S) \in Q
  <2> HIDE DEF Q
  <2>1. Cardinality(S) \in Nat
    BY FS_CardinalityType
  <2>2. QED
    BY <1>3, <1>4, <2>1, NaturalInduction
<1>6. PICK g \in [SUBSET S -> Int] :
             \A s \in SUBSET S : Cardinality(s) <= Cardinality(S) => g[s] = Stepped(f, g, s)
  BY <1>5
<1>7. \A s \in SUBSET S : Cardinality(s) <= Cardinality(S)
  BY FS_Subset
<1>8. g = [s \in SUBSET S |-> Stepped(f, g, s)]
  BY <1>6, <1>7
<1>9. QED
  BY <1>8 DEF Recursive

\* The fold adds: whichever element it takes first, its value is the same.
LEMMA SumOf ==
  ASSUME NEW S, IsFiniteSet(S), NEW f, \A x \in S : f[x] \in Int
  PROVE  \E g \in [SUBSET S -> Int] : SumFunctionOnSet(f, S) = g[S] /\ Adds(g, f, S)
<1> DEFINE sum == CHOOSE g : Recursive(g, f, S)
<1>1. SumFunctionOnSet(f, S) = sum[S]
  BY DEF SumFunctionOnSet, FoldFunctionOnSet, MapThenFoldSet, Stepped, Chosen, Recursive
<1>2. \E g : Recursive(g, f, S)
  BY SumExists
<1>3. sum = [s \in SUBSET S |-> Stepped(f, sum, s)]
  BY <1>2 DEF Recursive
<1> HIDE DEF sum
<1>4. DOMAIN sum = SUBSET S /\ \A s \in SUBSET S : sum[s] = Stepped(f, sum, s)
  BY <1>3
<1>5. \A s \in SUBSET S : IsFiniteSet(s) /\ Cardinality(s) \in Nat
  BY FS_Subset, FS_CardinalityType
<1>6. \A s \in SUBSET S : \A x \in s :
        s \ {x} \in SUBSET S /\ Cardinality(s \ {x}) = Cardinality(s) - 1 /\ f[x] \in Int
  BY <1>5, FS_RemoveElement
<1>7. sum[{}] = 0
  BY <1>4 DEF Stepped
<1>8. \A s \in SUBSET S : Cardinality(s) = 0 => s = {}
  BY <1>5, FS_EmptySet
<1>9. \A s \in SUBSET S : s # {} =>
        Chosen(s) \in s /\ sum[s] = f[Chosen(s)] + sum[s \ {Chosen(s)}]
  BY <1>4 DEF Stepped, Chosen
<1>10. \A s \in SUBSET S : sum[s] \in Int
  <2> DEFINE Typed == {n \in Nat : \A s \in SUBSET S : Cardinality(s) = n => sum[s] \in Int}
  <2>1. 0 \in Typed
    BY <1>7, <1>8
  <2>2. ASSUME NEW n \in Nat, n \in Typed, NEW s \in SUBSET S, Cardinality(s) = n + 1
        PROVE  sum[s] \in Int
    <3>1. s # {}
      BY <2>2, FS_EmptySet
    <3>2. PICK c \in s : sum[s] = f[c] + sum[s \ {c}]
      BY <1>9, <3>1
    <3>3. sum[s \ {c}] \in Int /\ f[c] \in Int
      BY <1>6, <2>2
    <3>4. QED
      BY <3>2, <3>3
  <2>3. \A n \in Nat : n \in Typed => n + 1 \in Typed
    BY <2>2
  <2> HIDE DEF Typed
  <2>4. \A n \in Nat : n \in Typed
    BY <2>1, <2>3, NaturalInduction
  <2>5. QED
    BY <1>5, <2>4 DEF Typed
<1>11. \A s \in SUBSET S : \A x \in s : sum[s] = sum[s \ {x}] + f[x]
  <2> DEFINE EachWay == {n \in Nat : \A s \in SUBSET S : Cardinality(s) = n =>
                       \A x \in s : sum[s] = sum[s \ {x}] + f[x]}
  <2>1. 0 \in EachWay
    BY <1>8
  <2>2. ASSUME NEW n \in Nat, n \in EachWay, NEW s \in SUBSET S, Cardinality(s) = n + 1, NEW x \in s
        PROVE  sum[s] = sum[s \ {x}] + f[x]
    <3>1. s # {}
      OBVIOUS
    <3>2. PICK c \in s : sum[s] = f[c] + sum[s \ {c}]
      BY <1>9, <3>1
    <3>3. sum[s \ {c}] \in Int /\ f[c] \in Int /\ sum[s \ {x}] \in Int /\ f[x] \in Int
      BY <1>6, <1>10
    <3>4. CASE x = c
      BY <3>2, <3>3, <3>4
    <3>5. CASE x # c
      <4>1. PICK r \in SUBSET S : r = (s \ {x}) \ {c} /\ r = (s \ {c}) \ {x}
        OBVIOUS
      <4>2. \A y \in s : s \ {y} \in SUBSET S /\ Cardinality(s \ {y}) = n
        BY <1>6, <2>2
      <4>3. \A y \in s : \A z \in s \ {y} : sum[s \ {y}] = sum[(s \ {y}) \ {z}] + f[z]
        BY <2>2, <4>2
      <4>4. sum[s \ {x}] = sum[r] + f[c]
        BY <3>5, <4>1, <4>3
      <4>5. sum[s \ {c}] = sum[r] + f[x]
        BY <3>5, <4>1, <4>3
      <4>6. sum[r] \in Int
        BY <1>10
      <4>7. QED
        BY <3>2, <3>3, <4>4, <4>5, <4>6
    <3>6. QED
      BY <3>4, <3>5
  <2>3. \A n \in Nat : n \in EachWay => n + 1 \in EachWay
    BY <2>2
  <2> HIDE DEF EachWay
  <2>4. \A n \in Nat : n \in EachWay
    BY <2>1, <2>3, NaturalInduction
  <2>5. QED
    BY <1>5, <2>4 DEF EachWay
<1>12. sum \in [SUBSET S -> Int]
  BY <1>3, <1>4, <1>10
<1>13. Adds(sum, f, S)
  <2>1. ASSUME NEW T \in SUBSET S, NEW x \in S, x \notin T
        PROVE  sum[T \cup {x}] = sum[T] + f[x]
    <3>1. (T \cup {x}) \in SUBSET S /\ (T \cup {x}) \ {x} = T
      BY <2>1
    <3>2. QED
      BY <1>11, <3>1
  <2>2. QED
    BY <1>7, <2>1 DEF Adds
<1>14. QED
  BY <1>1, <1>12, <1>13

\* The sum over nothing is 0.
LEMMA SumEmpty ==
  ASSUME NEW f PROVE SumFunctionOnSet(f, {}) = 0
<1>1. PICK g \in [SUBSET {} -> Int] : SumFunctionOnSet(f, {}) = g[{}] /\ Adds(g, f, {})
  BY FS_EmptySet, SumOf
<1>2. QED
  BY <1>1 DEF Adds

\* A sum of integers is one.
LEMMA SumInt ==
  ASSUME NEW S, IsFiniteSet(S), NEW f, \A x \in S : f[x] \in Int
  PROVE  SumFunctionOnSet(f, S) \in Int
<1>1. PICK g \in [SUBSET S -> Int] : SumFunctionOnSet(f, S) = g[S]
  BY SumOf
<1>2. QED
  BY <1>1

\* One more element adds its term.
LEMMA SumAdd ==
  ASSUME NEW S, IsFiniteSet(S), NEW f, NEW x, x \notin S, \A y \in S \cup {x} : f[y] \in Int
  PROVE  SumFunctionOnSet(f, S \cup {x}) = SumFunctionOnSet(f, S) + f[x]
<1> DEFINE U == S \cup {x}
<1>1. IsFiniteSet(U)
  BY FS_AddElement
<1>2. PICK g \in [SUBSET U -> Int] : SumFunctionOnSet(f, U) = g[U] /\ Adds(g, f, U)
  BY <1>1, SumOf
<1>3. PICK h \in [SUBSET S -> Int] : SumFunctionOnSet(f, S) = h[S] /\ Adds(h, f, S)
  BY SumOf
<1> DEFINE Same == {T \in SUBSET S : g[T] = h[T]}
<1>4. {} \in Same
  BY <1>2, <1>3 DEF Adds
<1>5. ASSUME NEW T \in SUBSET S, NEW y \in S, y \notin T, T \in Same
      PROVE  T \cup {y} \in Same
  <2>1. g[T \cup {y}] = g[T] + f[y]
    BY <1>2, <1>5 DEF Adds
  <2>2. h[T \cup {y}] = h[T] + f[y]
    BY <1>3, <1>5 DEF Adds
  <2>3. QED
    BY <1>5, <2>1, <2>2
<1>6. S \in Same
  <2> HIDE DEF Same
  <2>1. QED
    BY <1>4, <1>5, FiniteInduction
<1>7. g[S \cup {x}] = g[S] + f[x]
  BY <1>2 DEF Adds
<1>8. QED
  BY <1>2, <1>3, <1>6, <1>7

\* A sum of natural numbers is one.
LEMMA SumNat ==
  ASSUME NEW S, IsFiniteSet(S), NEW f, \A x \in S : f[x] \in Nat
  PROVE  SumFunctionOnSet(f, S) \in Nat
<1> DEFINE Natural == {T \in SUBSET S : SumFunctionOnSet(f, T) \in Nat}
<1>1. {} \in Natural
  BY SumEmpty
<1>2. ASSUME NEW T \in SUBSET S, NEW x \in S, x \notin T, T \in Natural
      PROVE  T \cup {x} \in Natural
  <2>1. IsFiniteSet(T)
    BY FS_Subset
  <2>2. x \notin T /\ \A y \in T \cup {x} : f[y] \in Int
    BY <1>2
  <2>3. SumFunctionOnSet(f, T \cup {x}) = SumFunctionOnSet(f, T) + f[x]
    <3> HIDE DEF Natural
    <3>1. QED
      BY <2>1, <2>2, SumAdd
  <2>4. QED
    BY <1>2, <2>3
<1>3. S \in Natural
  <2> HIDE DEF Natural
  <2>1. QED
    BY <1>1, <1>2, FiniteInduction
<1>4. QED
  BY <1>3

\* Equal terms have equal sums.
LEMMA SumSame ==
  ASSUME NEW S, IsFiniteSet(S), NEW f, NEW g, \A x \in S : f[x] \in Int /\ g[x] = f[x]
  PROVE  SumFunctionOnSet(g, S) = SumFunctionOnSet(f, S)
<1> DEFINE Same == {T \in SUBSET S : SumFunctionOnSet(g, T) = SumFunctionOnSet(f, T)}
<1>1. {} \in Same
  BY SumEmpty
<1>2. ASSUME NEW T \in SUBSET S, NEW x \in S, x \notin T, T \in Same
      PROVE  T \cup {x} \in Same
  <2>1. IsFiniteSet(T)
    BY FS_Subset
  <2>2. /\ x \notin T /\ \A y \in T \cup {x} : f[y] \in Int
        /\ \A y \in T \cup {x} : g[y] \in Int
    BY <1>2
  <2>3. /\ SumFunctionOnSet(f, T \cup {x}) = SumFunctionOnSet(f, T) + f[x]
        /\ SumFunctionOnSet(g, T \cup {x}) = SumFunctionOnSet(g, T) + g[x]
    <3> HIDE DEF Same
    <3>1. QED
      BY <2>1, <2>2, SumAdd
  <2>4. QED
    BY <1>2, <2>3
<1>3. S \in Same
  <2> HIDE DEF Same
  <2>1. QED
    BY <1>1, <1>2, FiniteInduction
<1>4. QED
  BY <1>3

-----------------------------------------------------------------------------
\* The beginning and the end of a sequence.
LEMMA Prefix ==
  ASSUME NEW S, NEW s \in Seq(S), NEW n \in 0..Len(s)
  PROVE  /\ SubSeq(s, 1, n) \in Seq(S) /\ Len(SubSeq(s, 1, n)) = n
         /\ \A i \in 1..n : SubSeq(s, 1, n)[i] = s[i]
<1>1. Len(s) \in Nat /\ n \in Int /\ 1 \in Int /\ n - 1 + 1 = n
  OBVIOUS
<1>2. \A i \in 1..n : s[i] \in S
  BY <1>1
<1>3. /\ SubSeq(s, 1, n) \in Seq(S)
      /\ Len(SubSeq(s, 1, n)) = IF 1 <= n THEN n - 1 + 1 ELSE 0
      /\ \A i \in 1..(n - 1 + 1) : SubSeq(s, 1, n)[i] = s[1 + i - 1]
  BY <1>1, <1>2, SubSeqProperties
<1>4. QED
  BY <1>1, <1>3

\* The last n elements of a sequence.
LEMMA Suffix ==
  ASSUME NEW S, NEW s \in Seq(S), NEW n \in 0..Len(s)
  PROVE  LET t == SubSeq(s, Len(s) - n + 1, Len(s))
         IN  /\ t \in Seq(S) /\ Len(t) = n
             /\ \A i \in 1..n : t[i] = s[Len(s) - n + i]
<1> DEFINE m == Len(s) - n + 1
           k == Len(s)
<1>1. k \in Nat /\ n \in Nat /\ m \in Int /\ k \in Int /\ k - m + 1 = n /\ m >= 1
      /\ (m <= k <=> n # 0)
  OBVIOUS
<1>2. \A i \in m..k : s[i] \in S
  BY <1>1
<1> HIDE DEF m, k
<1>3. /\ SubSeq(s, m, k) \in Seq(S)
      /\ Len(SubSeq(s, m, k)) = IF m <= k THEN k - m + 1 ELSE 0
      /\ \A i \in 1..(k - m + 1) : SubSeq(s, m, k)[i] = s[m + i - 1]
  BY <1>1, <1>2, SubSeqProperties
<1>4. /\ SubSeq(s, m, k) \in Seq(S) /\ Len(SubSeq(s, m, k)) = n
      /\ \A i \in 1..n : SubSeq(s, m, k)[i] = s[m + i - 1]
  BY <1>1, <1>3
<1>5. \A i \in 1..n : m + i - 1 = Len(s) - n + i
  BY <1>1 DEF m
<1>6. QED
  BY <1>4, <1>5 DEF m, k

\* What the arrays in progress have pushed, by their counts.
Total(counts) == FoldSeq(+, 0, counts)

\* A total is a sum over the indexes.
LEMMA TotalIs ==
  ASSUME NEW s \in Seq(Nat)
  PROVE  Total(s) = SumFunctionOnSet(s, 1..Len(s))
<1>1. DOMAIN s = 1..Len(s)
  OBVIOUS
<1>2. Total(s) = SumFunctionOnSet(s, DOMAIN s)
  BY DEF Total, FoldSeq, FoldFunction, SumFunctionOnSet
<1>3. QED
  BY <1>1, <1>2

\* No counts add up to 0.
LEMMA TotalEmpty == Total(<<>>) = 0
<1>1. <<>> \in Seq(Nat) /\ 1..Len(<<>>) = {}
  OBVIOUS
<1>2. QED
  BY <1>1, TotalIs, SumEmpty

\* A total of naturals is one.
LEMMA TotalNat ==
  ASSUME NEW s \in Seq(Nat)
  PROVE  Total(s) \in Nat
<1>1. IsFiniteSet(1..Len(s))
  BY FS_Interval
<1>2. \A i \in 1..Len(s) : s[i] \in Nat
  OBVIOUS
<1>3. QED
  BY <1>1, <1>2, TotalIs, SumNat

\* One more count adds to the total.
LEMMA TotalAppend ==
  ASSUME NEW s \in Seq(Nat), NEW n \in Nat
  PROVE  Total(Append(s, n)) = Total(s) + n
<1> DEFINE a == Append(s, n)
           S == 1..Len(s)
           k == Len(s) + 1
<1>1. /\ a \in Seq(Nat) /\ 1..Len(a) = S \cup {k} /\ k \notin S
      /\ \A i \in S : s[i] \in Int /\ a[i] = s[i]
      /\ a[k] = n /\ \A i \in S \cup {k} : a[i] \in Int
  OBVIOUS
<1>2. IsFiniteSet(S)
  BY FS_Interval
<1> HIDE DEF a, S, k
<1>3. SumFunctionOnSet(a, S \cup {k}) = SumFunctionOnSet(a, S) + a[k]
  BY <1>1, <1>2, SumAdd
<1>4. SumFunctionOnSet(a, S) = SumFunctionOnSet(s, S)
  BY <1>1, <1>2, SumSame
<1>5. Total(a) = SumFunctionOnSet(a, S \cup {k})
  BY <1>1, TotalIs
<1>6. Total(s) = SumFunctionOnSet(s, S)
  BY TotalIs DEF S
<1>7. QED
  BY <1>1, <1>3, <1>4, <1>5, <1>6 DEF a

\* The last count is part of the total.
LEMMA TotalFront ==
  ASSUME NEW s \in Seq(Nat), s # <<>>
  PROVE  /\ Front(s) \in Seq(Nat) /\ Last(s) \in Nat
         /\ Total(s) = Total(Front(s)) + Last(s)
<1>1. Len(s) \in Nat \ {0} /\ Last(s) = s[Len(s)] /\ Last(s) \in Nat
  BY DEF Last
<1>2. /\ Front(s) \in Seq(Nat) /\ Len(Front(s)) = Len(s) - 1
      /\ \A i \in 1..(Len(s) - 1) : Front(s)[i] = s[i]
  <2>1. Len(s) - 1 \in 0..Len(s)
    BY <1>1
  <2>2. /\ SubSeq(s, 1, Len(s) - 1) \in Seq(Nat)
        /\ Len(SubSeq(s, 1, Len(s) - 1)) = Len(s) - 1
        /\ \A i \in 1..(Len(s) - 1) : SubSeq(s, 1, Len(s) - 1)[i] = s[i]
    BY <2>1, Prefix
  <2>3. QED
    BY <2>2 DEF Front
<1>3. s = Append(Front(s), Last(s))
  BY <1>1, <1>2
<1>4. Total(Append(Front(s), Last(s))) = Total(Front(s)) + Last(s)
  BY <1>1, <1>2, TotalAppend
<1>5. QED
  BY <1>1, <1>2, <1>3, <1>4

Counted(s) == [s EXCEPT ![Len(s)] = @ + 1]

\* Counting one more in the last adds one to the total.
LEMMA TotalCount ==
  ASSUME NEW s \in Seq(Nat), s # <<>>
  PROVE  /\ Counted(s) \in Seq(Nat) /\ Counted(s) # <<>>
         /\ Total(Counted(s)) = Total(s) + 1
<1> DEFINE t == Counted(s)
<1>1. Len(s) \in Nat \ {0} /\ Last(s) = s[Len(s)] /\ s[Len(s)] \in Nat
  BY DEF Last
<1>2. /\ t \in Seq(Nat) /\ Len(t) = Len(s)
      /\ \A i \in 1..(Len(s) - 1) : t[i] = s[i]
      /\ t[Len(s)] = s[Len(s)] + 1
  BY <1>1 DEF Counted
<1> HIDE DEF t
<1>3. Last(t) = Last(s) + 1 /\ t # <<>>
  BY <1>1, <1>2 DEF Last
<1>4. Front(t) = Front(s)
  BY <1>1, <1>2 DEF Front
<1>5. /\ Front(s) \in Seq(Nat) /\ Last(s) \in Nat
      /\ Total(s) = Total(Front(s)) + Last(s)
      /\ Total(t) = Total(Front(t)) + Last(t)
  BY <1>2, <1>3, TotalFront
<1>6. Total(Front(s)) \in Nat
  BY <1>5, TotalNat
<1>7. QED
  BY <1>2, <1>3, <1>4, <1>5, <1>6 DEF t

-----------------------------------------------------------------------------
\* The size of the stack.

\* One round of the loop that grows the size: g[n] is the size it ends with.
Round(g, m, n) == IF m >= n THEN g[n + n \div 2] ELSE n
Rises(g, m) == g = [n \in Nat |-> Round(g, m, n)]

\* Half as much again is more, from 2 on.
LEMMA Half ==
  ASSUME NEW n \in Nat, n >= 2
  PROVE  n + n \div 2 \in Nat /\ n + n \div 2 > n
OBVIOUS

\* From 2 on the loop ends, so that there is such a function.
LEMMA RisesExists ==
  ASSUME NEW m \in Nat \ {0}
  PROVE  \E g : Rises(g, m)
<1> DEFINE Q == {k \in Nat : \E g \in [Nat -> Nat] :
                   \A n \in Nat : n >= 2 /\ n + k > m => g[n] = Round(g, m, n)}
<1>1. 0 \in Q
  <2> DEFINE g == [n \in Nat |-> n]
  <2>1. \A n \in Nat : n >= 2 /\ n + 0 > m => g[n] = Round(g, m, n)
    BY DEF Round
  <2>2. g \in [Nat -> Nat]
    OBVIOUS
  <2>3. QED
    BY <2>1, <2>2
<1>2. ASSUME NEW k \in Nat, k \in Q
      PROVE  k + 1 \in Q
  <2>1. PICK g \in [Nat -> Nat] :
               \A n \in Nat : n >= 2 /\ n + k > m => g[n] = Round(g, m, n)
    BY <1>2
  <2> DEFINE h == [n \in Nat |-> IF n >= 2 THEN Round(g, m, n) ELSE 0]
  <2>2. h \in [Nat -> Nat]
    <3>1. ASSUME NEW n \in Nat, n >= 2 PROVE Round(g, m, n) \in Nat
      BY <2>1, <3>1, Half DEF Round
    <3>2. QED
      BY <3>1
  <2>3. ASSUME NEW n \in Nat, n >= 2, n + (k + 1) > m
        PROVE  h[n] = Round(h, m, n)
    <3> DEFINE i == n + n \div 2
    <3>1. i \in Nat /\ i > n
      BY <2>3, Half
    <3>2. h[n] = Round(g, m, n)
      BY <2>3
    <3> HIDE DEF i
    <3>3. i >= 2 /\ i + k > m
      BY <2>3, <3>1
    <3>4. h[i] = Round(g, m, i) /\ g[i] = Round(g, m, i)
      BY <2>1, <3>1, <3>3
    <3> HIDE DEF h
    <3>5. QED
      BY <3>2, <3>4 DEF Round, i
  <2> HIDE DEF h
  <2>4. QED
    BY <2>2, <2>3
<1>3. m \in Q
  <2> HIDE DEF Q
  <2>1. QED
    BY <1>1, <1>2, NaturalInduction
<1>4. PICK g \in [Nat -> Nat] : \A n \in Nat : n >= 2 => g[n] = Round(g, m, n)
  <2>1. \A n \in Nat : n >= 2 => n + m > m
    OBVIOUS
  <2>2. QED
    BY <1>3, <2>1
<1> DEFINE h == [n \in Nat |-> IF n >= 2 THEN g[n] ELSE 0]
<1>5. ASSUME NEW n \in Nat
      PROVE  h[n] = Round(h, m, n)
  <2>1. CASE n >= 2
    <3> DEFINE i == n + n \div 2
    <3>1. i \in Nat /\ i >= 2
      BY <2>1, Half
    <3>2. h[n] = g[n] /\ g[n] = Round(g, m, n)
      BY <1>4, <2>1
    <3> HIDE DEF i
    <3>3. h[i] = g[i]
      BY <3>1
    <3> HIDE DEF h
    <3>4. QED
      BY <3>2, <3>3 DEF Round, i
  <2>2. CASE n = 0
    <3>1. 0 + 0 \div 2 = 0
      OBVIOUS
    <3> HIDE DEF h
    <3>2. QED
      BY <2>2, <3>1 DEF Round
  <2>3. CASE n = 1
    <3>1. 1 + 1 \div 2 = 1 /\ m >= 1
      OBVIOUS
    <3> HIDE DEF h
    <3>2. QED
      BY <2>3, <3>1 DEF Round
  <2>4. n = 0 \/ n = 1 \/ n >= 2
    OBVIOUS
  <2>5. QED
    BY <2>1, <2>2, <2>3, <2>4
<1>6. h = [n \in Nat |-> Round(h, m, n)]
  BY <1>5
<1> HIDE DEF h
<1>7. QED
  BY <1>6 DEF Rises

\* And it ends beyond what is asked for.
LEMMA RisesAbove ==
  ASSUME NEW m \in Nat \ {0}, NEW g, Rises(g, m)
  PROVE  \A n \in Nat : n >= 2 => g[n] \in Nat /\ g[n] > m
<1>1. \A n \in Nat : g[n] = Round(g, m, n)
  BY DEF Rises
<1> DEFINE Q == {k \in Nat : \A n \in Nat : n >= 2 /\ n + k > m => g[n] \in Nat /\ g[n] > m}
<1>2. 0 \in Q
  BY <1>1 DEF Round
<1>3. ASSUME NEW k \in Nat, k \in Q, NEW n \in Nat, n >= 2, n + (k + 1) > m
      PROVE  g[n] \in Nat /\ g[n] > m
  <2>1. CASE m >= n
    <3> DEFINE i == n + n \div 2
    <3>1. i \in Nat /\ i > n
      BY <1>3, Half
    <3>2. g[n] = g[i]
      BY <1>1, <2>1 DEF Round
    <3> HIDE DEF i
    <3>3. i >= 2 /\ i + k > m
      BY <1>3, <3>1
    <3>4. QED
      BY <1>3, <3>1, <3>2, <3>3
  <2>2. CASE ~(m >= n)
    BY <1>1, <2>2 DEF Round
  <2>3. QED
    BY <2>1, <2>2
<1>4. m \in Q
  <2>1. \A k \in Nat : k \in Q => k + 1 \in Q
    BY <1>3
  <2> HIDE DEF Q
  <2>2. QED
    BY <1>2, <2>1, NaturalInduction
<1>5. \A n \in Nat : n + m > m <=> n > 0
  OBVIOUS
<1>6. QED
  BY <1>4, <1>5

\* The stack has room for what is pushed.
LEMMA GrownEnough ==
  ASSUME NEW need \in Nat \ {0}, top \in Nat, size \in Nat \ {1}
  PROVE  Grown(need) \in Nat \ {0, 1} /\ Grown(need) > top + need
<1> DEFINE m == top + need
           g == CHOOSE f : Rises(f, m)
           from == IF size = 0 THEN StackSize ELSE size
<1>1. m \in Nat \ {0} /\ from \in Nat /\ from >= 2
  BY LeptJsonAssumption
<1>2. Grown(need) = IF m >= size THEN g[from] ELSE size
  BY DEF Grown, Rises, Round
<1> HIDE DEF m, from
<1>3. Rises(g, m)
  BY <1>1, RisesExists
<1> HIDE DEF g
<1>4. g[from] \in Nat /\ g[from] > m
  BY <1>1, <1>3, RisesAbove
<1>5. size \in Nat
  OBVIOUS
<1>6. Grown(need) \in Nat /\ Grown(need) > m
  BY <1>1, <1>2, <1>4, <1>5
<1>7. QED
  BY <1>1, <1>6 DEF m

\* malloc returns a block that is not in use.
LEMMA FreshIs ==
  ASSUME NEW L \in SUBSET Nat, IsFiniteSet(L)
  PROVE  Fresh(L) \in Nat \ {0} /\ Fresh(L) \notin L
<1> DEFINE c == Cardinality(L)
<1>1. c \in Nat
  BY FS_CardinalityType
<1>2. Cardinality(1..(c + 1)) = c + 1
  <2>1. 1 \in Int /\ c + 1 \in Int /\ ~(1 > c + 1) /\ (c + 1) - 1 + 1 = c + 1
    BY <1>1
  <2> HIDE DEF c
  <2>2. QED
    BY <2>1, FS_Interval
<1>3. \E b \in 1..(c + 1) : b \notin L
  <2>1. SUFFICES ASSUME 1..(c + 1) \subseteq L PROVE FALSE
    OBVIOUS
  <2>2. Cardinality(1..(c + 1)) <= c
    BY <2>1, FS_Subset
  <2>3. QED
    BY <1>1, <1>2, <2>2
<1>4. Fresh(L) \in 1..(c + 1) /\ Fresh(L) \notin L
  BY <1>3 DEF Fresh
<1>5. QED
  BY <1>1, <1>4

-----------------------------------------------------------------------------
\* The invariant.

IsSeq(s) == s \in Seq({s[i] : i \in DOMAIN s})

IsValue(x) ==
  /\ x = [type |-> x.type, blocks |-> x.blocks, elems |-> x.elems, len |-> x.len]
  /\ IsSeq(x.elems)

Blocks(B) == B \in SUBSET (Nat \ {0}) /\ IsFiniteSet(B)

Types ==
  /\ frames \in Seq(Nat) /\ IsSeq(items)
  /\ head \in Nat /\ stack \in Nat
  /\ IsValue(e) /\ IsValue(v)
  /\ Blocks(live) /\ Blocks(v.blocks) /\ freed \subseteq v.blocks

Outside == {"idle", "done", "crashed", "freed twice"}
Numeric == {"minus", "zero", "int", "point", "frac", "exp", "exp sign", "exp digits"}
Points ==
  Outside \cup Numeric
    \cup {"value", "open", "after", "return", "trailing", "string", "escape"}

\* What each point of the code tells about the arrays in progress, the value being
\* returned and the caller's.
Flow ==
  /\ pc \in Points
  /\ pc = "open" => frames # <<>> /\ Last(frames) = 0
  /\ pc = "after" => frames # <<>>
  /\ pc = "trailing" => frames = <<>>
  /\ pc # "return" => e = Null
  /\ pc \notin Outside \cup {"trailing"} => v.blocks = {}
  /\ pc = "freed twice" => freed # {}

Sizes == top \in Nat /\ size \in Nat \ {1} /\ StackExact

\* The blocks of the values in a sequence are apart.
Disjoint(s) == \A i, j \in DOMAIN s : i # j => s[i].blocks \cap s[j].blocks = {}
Made(x) == Disjoint(x.elems) /\ OwnedBy(x.elems) \subseteq x.blocks

\* The blocks of the caller's value but for those freed, and of the context.
Mine == v.blocks \ freed
Context == IF stack = 0 THEN {} ELSE {stack}

Owned ==
  /\ Disjoint(items) /\ Made(e) /\ Made(v)
  /\ OwnedBy(items) \cap e.blocks = {}
  /\ v.blocks \cap (OwnedBy(items) \cup e.blocks) = {}
  /\ OwnedBy(items) \cup e.blocks \cup Mine \cup Context \subseteq live
  /\ freed \cap live = {}
  /\ stack \notin OwnedBy(items) \cup e.blocks \cup v.blocks

\* At every point of a parse: what it has allocated is in use.
Accounted ==
  pc \notin {"idle", "crashed", "freed twice"} =>
    live = before \cup v.blocks \cup OwnedBy(items) \cup e.blocks \cup Context

IInv == Types /\ Flow /\ Sizes /\ Owned /\ Accounted

-----------------------------------------------------------------------------
\* The steps, by what they do to values and blocks.

\* The parser goes on, or the caller does nothing.
Going ==
  /\ \/ pc' = pc
     \/ pc \in Numeric \cup {"value"} /\ pc' \in Numeric
     \/ pc = "string" /\ pc' = "escape"
     \/ pc \in {"open", "after"} /\ pc' = "value"
  /\ UNCHANGED <<context, e, ret, value, live, before>>

\* It gives up.
Failing ==
  /\ pc \in Numeric \cup {"value", "string", "escape", "after"} /\ pc' = "done"
  /\ ret' \notin {"OK", "ROOT_NOT_SINGULAR"}
  /\ frames' = <<>>
  /\ top' = IF InString THEN head ELSE top
  /\ UNCHANGED <<size, stack, items, head, e, value, live, before>>

\* It has read a value without blocks.
Making ==
  /\ pc \in Numeric \cup {"value"} /\ pc' = "return"
  /\ e' \in {Scalar("true"), Scalar("number")}
  /\ UNCHANGED <<context, value, live, before>>

\* It pushes characters of a string.
Pushing(need) ==
  /\ InString /\ pc' = "string"
  /\ Push(need)
  /\ UNCHANGED <<frames, items, head, e, ret, value, before>>

\* The automaton of numbers stays in its points.
LEMMA NumberPoints ==
  /\ NumberStates \subseteq Numeric \cup {"number"}
  /\ \A g \in NumberGoes : g[3] \in Numeric
<1> DEFINE Signs == {"-", ".", "0", "1", "e"}
<1>1. NumberGoes \subseteq (Numeric \cup {"number"}) \X Signs \X Numeric
  <2> DEFINE Froms == Numeric \cup {"number"}
             Triples == Froms \X Signs \X Numeric
  <2>1. \A F \in SUBSET Froms, A \in SUBSET Signs, T \in SUBSET Numeric :
          F \X A \X T \subseteq Triples
    OBVIOUS
  <2>3. /\ {"number", "minus"} \in SUBSET Froms /\ {"zero", "int", "frac"} \in SUBSET Froms
        /\ {"int"} \in SUBSET Froms /\ {"point", "frac"} \in SUBSET Froms
        /\ {"exp", "exp sign", "exp digits"} \in SUBSET Froms
    BY DEF Numeric
  <2>4. /\ {"0"} \in SUBSET Signs /\ {"1"} \in SUBSET Signs /\ {"e"} \in SUBSET Signs
        /\ Digits \in SUBSET Signs
    BY DEF Digits
  <2>5. /\ {"zero"} \in SUBSET Numeric /\ {"int"} \in SUBSET Numeric
        /\ {"exp"} \in SUBSET Numeric /\ {"frac"} \in SUBSET Numeric
        /\ {"exp digits"} \in SUBSET Numeric
    BY DEF Numeric
  <2>6. /\ <<"number", "-", "minus">> \in Triples /\ <<"zero", ".", "point">> \in Triples
        /\ <<"int", ".", "point">> \in Triples /\ <<"exp", "-", "exp sign">> \in Triples
    BY DEF Numeric
  <2> HIDE DEF Froms, Signs, Triples
  <2>7. /\ {"number", "minus"} \X {"0"} \X {"zero"} \subseteq Triples
        /\ {"number", "minus"} \X {"1"} \X {"int"} \subseteq Triples
        /\ {"zero", "int", "frac"} \X {"e"} \X {"exp"} \subseteq Triples
        /\ {"int"} \X Digits \X {"int"} \subseteq Triples
        /\ {"point", "frac"} \X Digits \X {"frac"} \subseteq Triples
        /\ {"exp", "exp sign", "exp digits"} \X Digits \X {"exp digits"} \subseteq Triples
    BY <2>1, <2>3, <2>4, <2>5, Zenon
  <2>8. NumberGoes \subseteq Triples
    BY <2>6, <2>7, Zenon DEF NumberGoes
  <2>9. QED
    BY <2>8 DEF Triples, Froms
<1>2. \A g \in NumberGoes : g[1] \in Numeric \cup {"number"} /\ g[3] \in Numeric
  BY <1>1
<1>3. QED
  BY <1>2 DEF NumberStates

\* What Fail does.
LEMMA FailsWith ==
  ASSUME NEW code, NEW inside, Fail(code, inside),
         code \notin {"OK", "ROOT_NOT_SINGULAR"}
  PROVE  /\ pc' = "done" /\ frames' = <<>>
         /\ ret' \notin {"OK", "ROOT_NOT_SINGULAR"}
BY DEF Fail

\* lept_parse_number goes on, gives up or makes a number.
LEMMA NumberMoves ==
  ASSUME ParseNumber
  PROVE  Going \/ Failing \/ Making
<1>1. pc \in Numeric \cup {"value"}
  BY NumberPoints DEF ParseNumber
<1>2. ~InString
  BY <1>1 DEF InString, Numeric
<1>3. UNCHANGED <<top, size, stack, items, head, value, live, before>>
  BY DEF ParseNumber
<1>4. \/ (\E g \in NumberGoes : pc' = g[3]) /\ UNCHANGED <<frames, e, ret>>
      \/ e' = Scalar("number") /\ pc' = "return" /\ UNCHANGED <<frames, ret>>
      \/ Fail("INVALID_VALUE", frames) /\ UNCHANGED e
  BY DEF ParseNumber
<1>5. CASE (\E g \in NumberGoes : pc' = g[3]) /\ UNCHANGED <<frames, e, ret>>
  <2>1. pc' \in Numeric
    BY <1>5, NumberPoints
  <2>2. QED
    BY <1>1, <1>3, <1>5, <2>1 DEF Going, context
<1>6. CASE e' = Scalar("number") /\ pc' = "return" /\ UNCHANGED <<frames, ret>>
  BY <1>1, <1>3, <1>6 DEF Making, context
<1>7. CASE Fail("INVALID_VALUE", frames) /\ UNCHANGED e
  <2>1. pc' = "done" /\ frames' = <<>> /\ ret' \notin {"OK", "ROOT_NOT_SINGULAR"}
    BY <1>7, FailsWith
  <2>2. QED
    BY <1>1, <1>2, <1>3, <1>7, <2>1 DEF Failing
<1>8. QED
  BY <1>4, <1>5, <1>6, <1>7

\* The returns with an error.
LEMMA FailMoves ==
  ASSUME ParseNothing \/ StringBad \/ ArrayBad
  PROVE  Failing
<1>1. CASE ParseNothing
  <2>1. pc = "value" /\ UNCHANGED <<top, size, stack, items, head, e, value, live, before>>
    BY <1>1 DEF ParseNothing
  <2>2. Fail("INVALID_VALUE", frames) \/ Fail("EXPECT_VALUE", frames)
    BY <1>1 DEF ParseNothing
  <2>3. pc' = "done" /\ frames' = <<>> /\ ret' \notin {"OK", "ROOT_NOT_SINGULAR"}
    BY <2>2, FailsWith
  <2>4. QED
    BY <2>1, <2>3 DEF Failing, InString
<1>2. CASE StringBad
  <2>1. /\ pc \in {"string", "escape"} /\ top' = head
        /\ UNCHANGED <<size, stack, items, head, e, value, live, before>>
    BY <1>2 DEF StringBad
  <2>2. Fail("INVALID_STRING_ESCAPE", frames) \/ Fail("MISS_QUOTATION_MARK", frames)
    BY <1>2 DEF StringBad
  <2>3. pc' = "done" /\ frames' = <<>> /\ ret' \notin {"OK", "ROOT_NOT_SINGULAR"}
    BY <2>2, FailsWith
  <2>4. QED
    BY <2>1, <2>3 DEF Failing, InString
<1>3. CASE ArrayBad
  <2>1. pc = "after" /\ UNCHANGED <<top, size, stack, items, head, e, value, live, before>>
    BY <1>3 DEF ArrayBad
  <2>2. Fail("MISS_COMMA_OR_SQUARE_BRACKET", Front(frames))
    BY <1>3 DEF ArrayBad
  <2>3. pc' = "done" /\ frames' = <<>> /\ ret' \notin {"OK", "ROOT_NOT_SINGULAR"}
    BY <2>2, FailsWith
  <2>4. QED
    BY <2>1, <2>3 DEF Failing, InString
<1>4. QED
  BY <1>1, <1>2, <1>3

\* Every step is one of these.
LEMMA Steps ==
  ASSUME [Next]_vars
  PROVE  \/ Going \/ Failing \/ Making \/ Pushing(1) \/ Pushing(2)
         \/ Parse \/ StringBegins \/ StringEnds
         \/ ArrayBegins \/ Empty \/ ReturnValue \/ ArrayEnds
         \/ Trailing \/ ReturnToCaller
         \/ InitValue \/ SetString \/ Free
         \/ \E type \in {"number", "true", "false"} : SetScalar(type)
<1>1. CASE UNCHANGED vars
  BY <1>1 DEF vars, Going, value, context
<1>2. CASE SkipWhitespace \/ StringEscape \/ FirstElement \/ Comma \/ Crashed
  BY <1>2 DEF SkipWhitespace, StringEscape, FirstElement, Comma, Crashed, Going, vars,
              value, context
<1>3. CASE ParseLiteral
  BY <1>3 DEF ParseLiteral, Making
<1>4. CASE StringChar
  BY <1>4 DEF StringChar, Pushing, InString
<1>5. CASE Escape
  BY <1>5 DEF Escape, Pushing, InString
<1>6. CASE SetNumber \/ SetBoolean \/ SetNull
  BY <1>6 DEF SetNumber, SetBoolean, SetNull
<1>7. QED
  BY <1>1, <1>2, <1>3, <1>4, <1>5, <1>6, NumberMoves, FailMoves DEF Next, SetNullNext

-----------------------------------------------------------------------------
\* Sequences of any elements.
LEMMA SeqIs ==
  ASSUME NEW s, IsSeq(s)
  PROVE  /\ Len(s) \in Nat /\ DOMAIN s = 1..Len(s)
         /\ s \in Seq({s[i] : i \in 1..Len(s)})
<1> DEFINE S == {s[i] : i \in DOMAIN s}
<1>1. s \in Seq(S)
  BY DEF IsSeq
<1> HIDE DEF S
<1>2. Len(s) \in Nat /\ DOMAIN s = 1..Len(s)
  BY <1>1
<1>3. QED
  BY <1>1, <1>2 DEF S

\* A sequence over any set is a sequence.
LEMMA IsSeqOf ==
  ASSUME NEW S, NEW s \in Seq(S)
  PROVE  IsSeq(s)
<1>1. Len(s) \in Nat /\ s \in [1..Len(s) -> S] /\ DOMAIN s = 1..Len(s)
  OBVIOUS
<1> DEFINE T == {s[i] : i \in DOMAIN s}
<1>2. s \in [1..Len(s) -> T]
  BY <1>1
<1> HIDE DEF T
<1>3. s \in Seq(T)
  BY <1>1, <1>2
<1>4. QED
  BY <1>3 DEF T, IsSeq

\* No values.
LEMMA EmptyIs == IsSeq(<<>>) /\ OwnedBy(<<>>) = {} /\ Disjoint(<<>>)
<1>1. <<>> \in Seq({}) /\ DOMAIN <<>> = {}
  OBVIOUS
<1>2. QED
  BY <1>1, IsSeqOf DEF OwnedBy, Disjoint

\* The blocks and their disjointness, index by index.
LEMMA OwnedByIs ==
  ASSUME NEW s, IsSeq(s)
  PROVE  /\ \A b : b \in OwnedBy(s) <=> \E i \in 1..Len(s) : b \in s[i].blocks
         /\ Disjoint(s) <=> \A i, j \in 1..Len(s) : i # j => s[i].blocks \cap s[j].blocks = {}
BY SeqIs DEF OwnedBy, Disjoint

\* One more value.
LEMMA AppendIs ==
  ASSUME NEW s, IsSeq(s), NEW x
  PROVE  /\ IsSeq(Append(s, x)) /\ Len(Append(s, x)) = Len(s) + 1
         /\ OwnedBy(Append(s, x)) = OwnedBy(s) \cup x.blocks
         /\ Disjoint(s) /\ OwnedBy(s) \cap x.blocks = {} => Disjoint(Append(s, x))
<1> DEFINE S == {s[i] : i \in 1..Len(s)} \cup {x}
           a == Append(s, x)
           k == Len(s) + 1
<1>1. s \in Seq(S) /\ x \in S /\ Len(s) \in Nat
  <2>1. s \in Seq({s[i] : i \in 1..Len(s)}) /\ Len(s) \in Nat
    BY SeqIs
  <2>2. QED
    BY <2>1, SeqMonotonic
<1> HIDE DEF S
<1>2. /\ a \in Seq(S) /\ Len(a) = k
      /\ \A i \in 1..Len(s) : a[i] = s[i]
      /\ a[k] = x
  BY <1>1
<1>3. IsSeq(a)
  BY <1>2, IsSeqOf
<1>4. 1..k = 1..Len(s) \cup {k} /\ k \notin 1..Len(s)
  BY <1>1
<1> HIDE DEF a, k
<1>5. OwnedBy(a) = OwnedBy(s) \cup x.blocks
  BY <1>2, <1>3, <1>4, OwnedByIs
<1>6. ASSUME Disjoint(s), OwnedBy(s) \cap x.blocks = {}
      PROVE  Disjoint(a)
  <2>1. \A i \in 1..Len(s) : s[i].blocks \cap x.blocks = {}
    BY <1>6, OwnedByIs
  <2>2. \A i, j \in 1..Len(s) : i # j => s[i].blocks \cap s[j].blocks = {}
    BY <1>6, OwnedByIs
  <2>3. \A i, j \in 1..k : i # j => a[i].blocks \cap a[j].blocks = {}
    BY <1>2, <1>4, <2>1, <2>2
  <2>4. QED
    BY <1>2, <1>3, <2>3, OwnedByIs
<1>7. QED
  BY <1>2, <1>3, <1>5, <1>6 DEF a, k

Lasting(s, n) == SubSeq(s, 1, Len(s) - n)
Taken(s, n) == SubSeq(s, Len(s) - n + 1, Len(s))

\* The last n values are taken off.
LEMMA SplitIs ==
  ASSUME NEW s, IsSeq(s), NEW n \in 0..Len(s)
  PROVE  /\ IsSeq(Lasting(s, n)) /\ Len(Lasting(s, n)) = Len(s) - n
         /\ IsSeq(Taken(s, n))
         /\ OwnedBy(s) = OwnedBy(Lasting(s, n)) \cup OwnedBy(Taken(s, n))
         /\ Disjoint(s) => /\ Disjoint(Lasting(s, n)) /\ Disjoint(Taken(s, n))
                           /\ OwnedBy(Lasting(s, n)) \cap OwnedBy(Taken(s, n)) = {}
<1> DEFINE S == {s[i] : i \in 1..Len(s)}
           m == Len(s) - n
           p == Lasting(s, n)
           t == Taken(s, n)
<1>1. s \in Seq(S) /\ Len(s) \in Nat /\ m \in 0..Len(s) /\ n \in Nat /\ m \in Nat
      /\ Len(s) = m + n
  BY SeqIs
<1> HIDE DEF S
<1>2. p \in Seq(S) /\ Len(p) = m /\ \A i \in 1..m : p[i] = s[i]
  BY <1>1, Prefix DEF Lasting
<1>3. t \in Seq(S) /\ Len(t) = n /\ \A i \in 1..n : t[i] = s[m + i]
  BY <1>1, Suffix DEF Taken
<1>4. IsSeq(p) /\ IsSeq(t)
  BY <1>2, <1>3, IsSeqOf
<1>5. m = Len(s) - n
  OBVIOUS
<1> HIDE DEF p, t, m
<1>6. \A i \in 1..Len(s) : i \in 1..m \/ (i - m \in 1..n /\ i = m + (i - m))
  BY <1>1
<1>7. \A i \in 1..m : i \in 1..Len(s)
  BY <1>1
<1>8. \A i \in 1..n : m + i \in 1..Len(s) /\ m + i \notin 1..m
  BY <1>1
<1>9. OwnedBy(s) = OwnedBy(p) \cup OwnedBy(t)
  <2>1. ASSUME NEW b \in OwnedBy(s) PROVE b \in OwnedBy(p) \cup OwnedBy(t)
    <3>1. PICK i \in 1..Len(s) : b \in s[i].blocks
      BY OwnedByIs
    <3>2. CASE i \in 1..m
      BY <1>2, <1>4, <3>1, <3>2, OwnedByIs
    <3>3. CASE i - m \in 1..n /\ i = m + (i - m)
      <4>1. t[i - m] = s[i]
        BY <1>3, <3>3
      <4>2. QED
        BY <1>3, <1>4, <3>1, <3>3, <4>1, OwnedByIs
    <3>4. QED
      BY <1>6, <3>2, <3>3
  <2>2. ASSUME NEW b \in OwnedBy(p) PROVE b \in OwnedBy(s)
    BY <1>2, <1>4, <1>7, OwnedByIs
  <2>3. ASSUME NEW b \in OwnedBy(t) PROVE b \in OwnedBy(s)
    BY <1>3, <1>4, <1>8, OwnedByIs
  <2>4. QED
    BY <2>1, <2>2, <2>3
<1>10. ASSUME Disjoint(s)
       PROVE  Disjoint(p) /\ Disjoint(t) /\ OwnedBy(p) \cap OwnedBy(t) = {}
  <2>1. \A i, j \in 1..Len(s) : i # j => s[i].blocks \cap s[j].blocks = {}
    BY <1>10, OwnedByIs
  <2>2. Disjoint(p)
    BY <1>2, <1>4, <1>7, <2>1, OwnedByIs
  <2>3. Disjoint(t)
    <3>1. ASSUME NEW i \in 1..n, NEW j \in 1..n, i # j
          PROVE  t[i].blocks \cap t[j].blocks = {}
      <4>1. m + i # m + j
        BY <1>1, <3>1
      <4>2. QED
        BY <1>3, <1>8, <2>1, <4>1
    <3>2. QED
      BY <1>3, <1>4, <3>1, OwnedByIs
  <2>4. ASSUME NEW b \in OwnedBy(p), b \in OwnedBy(t) PROVE FALSE
    <3>1. PICK i \in 1..m : b \in s[i].blocks
      BY <1>2, <1>4, OwnedByIs
    <3>2. PICK j \in 1..n : b \in s[m + j].blocks
      BY <1>3, <1>4, <2>4, OwnedByIs
    <3>3. i # m + j /\ i \in 1..Len(s) /\ m + j \in 1..Len(s)
      BY <1>7, <1>8
    <3>4. QED
      BY <2>1, <3>1, <3>2, <3>3
  <2>5. QED
    BY <2>2, <2>3, <2>4
<1>11. QED
  BY <1>2, <1>4, <1>5, <1>9, <1>10 DEF p, t

\* Another value in place of one.
LEMMA ReplaceIs ==
  ASSUME NEW s, IsSeq(s), NEW k \in 1..Len(s), NEW x,
         Disjoint(s), OwnedBy(s) \cap x.blocks \subseteq s[k].blocks
  PROVE  /\ IsSeq([s EXCEPT ![k] = x]) /\ Disjoint([s EXCEPT ![k] = x])
         /\ OwnedBy([s EXCEPT ![k] = x]) = (OwnedBy(s) \ s[k].blocks) \cup x.blocks
         /\ s[k].blocks \subseteq OwnedBy(s)
<1> DEFINE S == {s[i] : i \in 1..Len(s)} \cup {x}
           r == [s EXCEPT ![k] = x]
<1>1. s \in Seq(S) /\ x \in S /\ Len(s) \in Nat
  <2>1. s \in Seq({s[i] : i \in 1..Len(s)}) /\ Len(s) \in Nat
    BY SeqIs
  <2>2. QED
    BY <2>1, SeqMonotonic
<1> HIDE DEF S
<1>2. r \in Seq(S) /\ Len(r) = Len(s) /\ \A i \in 1..Len(s) : r[i] = IF i = k THEN x ELSE s[i]
  BY <1>1, ExceptSeq
<1>3. IsSeq(r)
  BY <1>2, IsSeqOf
<1> HIDE DEF r
<1>4. \A i, j \in 1..Len(s) : i # j => s[i].blocks \cap s[j].blocks = {}
  BY OwnedByIs
<1>5. \A i \in 1..Len(s) : s[i].blocks \subseteq OwnedBy(s)
  BY OwnedByIs
<1>6. \A i \in 1..Len(s) : i # k => s[i].blocks \cap x.blocks = {}
  BY <1>4, <1>5
<1>7. Disjoint(r)
  <2>1. \A i, j \in 1..Len(s) : i # j => r[i].blocks \cap r[j].blocks = {}
    BY <1>2, <1>4, <1>6
  <2>2. QED
    BY <1>2, <1>3, <2>1, OwnedByIs
<1>8. OwnedBy(r) = (OwnedBy(s) \ s[k].blocks) \cup x.blocks
  <2>1. ASSUME NEW b \in OwnedBy(r)
        PROVE  b \in (OwnedBy(s) \ s[k].blocks) \cup x.blocks
    <3>1. PICK i \in 1..Len(s) : b \in r[i].blocks
      BY <1>2, <1>3, OwnedByIs
    <3>2. QED
      BY <1>2, <1>4, <1>5, <3>1
  <2>2. ASSUME NEW b \in (OwnedBy(s) \ s[k].blocks) \cup x.blocks
        PROVE  b \in OwnedBy(r)
    <3>1. \E i \in 1..Len(s) : b \in r[i].blocks
      <4>1. CASE b \in x.blocks
        BY <1>2, <4>1
      <4>2. CASE b \in OwnedBy(s) \ s[k].blocks
        <5>1. PICK i \in 1..Len(s) : b \in s[i].blocks
          BY <4>2, OwnedByIs
        <5>2. r[i] = s[i]
          BY <1>2, <4>2, <5>1
        <5>3. QED
          BY <5>1, <5>2
      <4>3. QED
        BY <4>1, <4>2
    <3>2. QED
      BY <1>2, <1>3, <3>1, OwnedByIs
  <2>3. QED
    BY <2>1, <2>2
<1>9. QED
  BY <1>3, <1>5, <1>7, <1>8 DEF r

\* A record with the four fields is a value.
LEMMA RecordIs ==
  ASSUME NEW t, NEW B, NEW s, IsSeq(s), NEW n
  PROVE  IsValue([type |-> t, blocks |-> B, elems |-> s, len |-> n])
BY DEF IsValue

\* A value without blocks.
LEMMA ScalarIs ==
  ASSUME NEW t
  PROVE  /\ IsValue(Scalar(t)) /\ Made(Scalar(t))
         /\ Scalar(t).blocks = {} /\ Scalar(t).elems = <<>>
<1>1. Scalar(t) = [type |-> t, blocks |-> {}, elems |-> <<>>, len |-> 0]
  BY DEF Scalar
<1>2. Scalar(t).blocks = {} /\ Scalar(t).elems = <<>>
  BY <1>1
<1>3. QED
  BY <1>1, <1>2, EmptyIs, RecordIs DEF Made

\* What lept_init makes.
LEMMA NullIs == IsValue(Null) /\ Made(Null) /\ Null.blocks = {} /\ Null.elems = <<>>
BY ScalarIs DEF Null

-----------------------------------------------------------------------------
\* What the calls of the heap, of the stack and of a value do.
LEMMA Allocated ==
  ASSUME NEW L, Blocks(L)
  PROVE  /\ Fresh(L) \in Nat \ {0} /\ Fresh(L) \notin L
         /\ Blocks(L \cup {Fresh(L)})
<1>1. L \in SUBSET Nat /\ IsFiniteSet(L)
  BY DEF Blocks
<1>2. Fresh(L) \in Nat \ {0} /\ Fresh(L) \notin L
  BY <1>1, FreshIs
<1>3. IsFiniteSet(L \cup {Fresh(L)})
  BY <1>1, FS_AddElement
<1>4. QED
  BY <1>2, <1>3 DEF Blocks

\* Some blocks less.
LEMMA Freed ==
  ASSUME NEW L, Blocks(L), NEW B
  PROVE  Blocks(L \ B)
BY FS_Subset DEF Blocks

\* What lept_contex_push does: room enough, in a block of the stack's own.
LEMMA PushTakes ==
  ASSUME Types, Sizes, NEW need \in Nat \ {0}, Push(need)
  PROVE  /\ stack' \in Nat \ {0} /\ live' = live \cup {stack'} /\ Blocks(live')
         /\ stack # 0 => stack' = stack
         /\ stack = 0 => stack' \notin live
         /\ top' = top + need
         /\ size' \in Nat \ {1} /\ size' > top'
<1>1. /\ stack' = IF stack = 0 THEN Fresh(live) ELSE stack
      /\ live' = live \cup {stack'} /\ top' = top + need /\ size' = Grown(need)
  BY DEF Push
<1>2. top \in Nat /\ size \in Nat \ {1}
  BY DEF Sizes
<1>3. Grown(need) \in Nat \ {0, 1} /\ Grown(need) > top + need
  BY <1>2, GrownEnough
<1>4. stack \in Nat /\ Blocks(live)
  BY DEF Types
<1>5. /\ Fresh(live) \in Nat \ {0} /\ Fresh(live) \notin live
      /\ Blocks(live \cup {Fresh(live)})
  BY <1>4, Allocated
<1>6. stack # 0 => Blocks(live \cup {stack})
  BY <1>4, FS_AddElement DEF Blocks
<1>7. QED
  BY <1>1, <1>3, <1>4, <1>5, <1>6

\* The counts of the arrays in progress add up to the values on the stack, so the
\* innermost array finds its own there.
LEMMA ArrayHas ==
  ASSUME Types, Flow, Sizes, pc = "after"
  PROVE  /\ Last(frames) \in 0..Len(items) /\ Front(frames) \in Seq(Nat)
         /\ Total(Front(frames)) = Len(items) - Last(frames)
         /\ Len(items) \in Nat /\ top = ValueSize * Len(items)
<1>1. frames \in Seq(Nat) /\ frames # <<>> /\ Len(items) \in Nat
  BY SeqIs DEF Types, Flow
<1>2. Len(items) = Total(frames) /\ top = ValueSize * Len(items)
  BY DEF Sizes, StackExact, Parsing, InString, Pushed, Total
<1>3. /\ Front(frames) \in Seq(Nat) /\ Last(frames) \in Nat
      /\ Total(frames) = Total(Front(frames)) + Last(frames)
  BY <1>1, TotalFront
<1>4. Total(Front(frames)) \in Nat
  BY <1>3, TotalNat
<1>5. QED
  BY <1>1, <1>2, <1>3, <1>4

\* A call on the value or on one of its elements: what that owned goes, what the
\* new one owns comes.
LEMMA WithIs ==
  ASSUME IsValue(v), Made(v), NEW i \in Targets, NEW new,
         IsValue(new), new.elems = <<>>,
         v.blocks \cap new.blocks \subseteq Old(i).blocks
  PROVE  /\ IsValue(With(i, new)) /\ Made(With(i, new))
         /\ With(i, new).blocks = (v.blocks \ Old(i).blocks) \cup new.blocks
         /\ Old(i).blocks \subseteq v.blocks
<1>1. CASE i = 0
  <2>1. With(i, new) = new /\ Old(i) = v
    BY <1>1 DEF With, Old
  <2>2. Made(new)
    BY EmptyIs DEF Made
  <2>3. QED
    BY <2>1, <2>2
<1>2. CASE i # 0
  <2>1. IsSeq(v.elems) /\ i \in 1..Len(v.elems) /\ Old(i) = v.elems[i]
    <3>1. IsSeq(v.elems)
      BY DEF IsValue
    <3>2. Len(v.elems) \in Nat
      BY <3>1, SeqIs
    <3>3. QED
      BY <1>2, <3>1, <3>2 DEF Targets, Old
  <2> DEFINE r == [v.elems EXCEPT ![i] = new]
             B == (v.blocks \ Old(i).blocks) \cup new.blocks
             w == With(i, new)
  <2>2. w = [v EXCEPT !.elems[i] = new, !.blocks = B]
    BY <1>2 DEF With
  <2>3. v = [type |-> v.type, blocks |-> v.blocks, elems |-> v.elems, len |-> v.len]
    BY DEF IsValue
  <2>4. w = [type |-> v.type, blocks |-> B, elems |-> r, len |-> v.len]
    BY <2>2, <2>3
  <2>5. w.blocks = B /\ w.elems = r
    BY <2>4
  <2>6. Disjoint(v.elems) /\ OwnedBy(v.elems) \subseteq v.blocks
    BY DEF Made
  <2>7. OwnedBy(v.elems) \cap new.blocks \subseteq v.elems[i].blocks
    BY <2>1, <2>6
  <2>8. /\ IsSeq(r) /\ Disjoint(r)
        /\ OwnedBy(r) = (OwnedBy(v.elems) \ v.elems[i].blocks) \cup new.blocks
        /\ v.elems[i].blocks \subseteq OwnedBy(v.elems)
    BY <2>1, <2>6, <2>7, ReplaceIs
  <2> HIDE DEF r, B, w
  <2>9. IsValue(w)
    BY <2>4, <2>8, RecordIs
  <2>10. OwnedBy(r) \subseteq B
    BY <2>1, <2>6, <2>8 DEF B
  <2>11. Made(w)
    BY <2>5, <2>8, <2>10 DEF Made
  <2>12. QED
    BY <2>1, <2>5, <2>6, <2>8, <2>9, <2>11 DEF B, w
<1>3. QED
  BY <1>1, <1>2

\* What a setter leaves.
Setting(i, new) ==
  /\ IsValue(v') /\ Made(v') /\ Blocks(v'.blocks)
  /\ UNCHANGED <<pc, context, e, ret, freed, before>>
  /\ v'.blocks = (v.blocks \ Old(i).blocks) \cup new
  /\ Old(i).blocks \subseteq v.blocks \cap live
  /\ Blocks(new) /\ new \cap (live \cup v.blocks) = {}
  /\ live' = (live \ Old(i).blocks) \cup new /\ Blocks(live')

\* What it leaves when it has freed again what lept_free had freed.
FreeingAgain ==
  /\ pc' = "freed twice"
  /\ \E i \in Targets : Dangling(i)
  /\ UNCHANGED <<context, e, ret, v, freed, live, before>>

\* Sets of blocks together.
LEMMA Together ==
  ASSUME NEW A, NEW B, Blocks(A), Blocks(B)
  PROVE  Blocks(A \cup B)
BY FS_Union DEF Blocks

\* A setter of a value that may be freed does what Setting says.
LEMMA SetLeaves ==
  ASSUME Types, Made(v), NEW i \in Targets, ~Dangling(i), NEW new,
         IsValue(new), new.elems = <<>>, Blocks(new.blocks),
         new.blocks \cap (live \cup v.blocks) = {},
         v' = With(i, new), live' = (live \ Old(i).blocks) \cup new.blocks,
         UNCHANGED <<pc, context, e, ret, freed, before>>
  PROVE  Setting(i, new.blocks)
<1>1. IsValue(v) /\ Blocks(live) /\ Blocks(v.blocks)
  BY DEF Types
<1>2. /\ IsValue(v') /\ Made(v')
      /\ v'.blocks = (v.blocks \ Old(i).blocks) \cup new.blocks
      /\ Old(i).blocks \subseteq v.blocks
  BY <1>1, WithIs
<1>3. Blocks(v'.blocks) /\ Blocks(live')
  <2>1. Blocks(v.blocks \ Old(i).blocks) /\ Blocks(live \ Old(i).blocks)
    BY <1>1, Freed
  <2>2. /\ Blocks((v.blocks \ Old(i).blocks) \cup new.blocks)
        /\ Blocks((live \ Old(i).blocks) \cup new.blocks)
    BY <2>1, Together
  <2>3. QED
    BY <1>2, <2>2
<1>4. Old(i).blocks \subseteq live
  BY DEF Dangling
<1>5. QED
  BY <1>2, <1>3, <1>4 DEF Setting

\* The setters leave what Setting says, or have freed again.
LEMMA SetTakes ==
  ASSUME Types, Owned, SetString \/ \E type \in {"number", "true", "false"} : SetScalar(type)
  PROVE  /\ pc = "idle"
         /\ FreeingAgain \/ \E i, new : Setting(i, new)
<1>1. pc = "idle" /\ UNCHANGED <<context, e, ret, before>>
  BY DEF SetString, SetScalar
<1>2. Made(v) /\ Blocks(live) /\ Blocks(v.blocks)
  BY DEF Types, Owned
<1>3. CASE \E i \in Targets : FreeAgain(i)
  BY <1>1, <1>3 DEF FreeAgain, FreeingAgain
<1>4. CASE SetString /\ ~\E i \in Targets : FreeAgain(i)
  <2> DEFINE b == Fresh(live \cup v.blocks)
             new(n) == [type |-> "string", blocks |-> {b}, elems |-> <<>>, len |-> n]
  <2>1. PICK i \in Targets, n \in Garbage :
          /\ ~Dangling(i)
          /\ v' = With(i, new(n))
          /\ live' = (live \ Old(i).blocks) \cup {b}
          /\ UNCHANGED <<pc, freed>>
    BY <1>4 DEF SetString
  <2>2. b \in Nat \ {0} /\ b \notin live \cup v.blocks
    BY <1>2, Together, Allocated
  <2> HIDE DEF b
  <2>3. Blocks({b})
    BY <2>2, FS_Singleton DEF Blocks
  <2>4. new(n).blocks = {b} /\ new(n).elems = <<>>
    OBVIOUS
  <2>5. IsValue(new(n))
    BY EmptyIs, RecordIs
  <2> HIDE DEF new
  <2>6. Setting(i, new(n).blocks)
    BY <1>1, <1>2, <2>1, <2>2, <2>3, <2>4, <2>5, SetLeaves
  <2>7. QED
    BY <1>1, <2>6
<1>5. CASE /\ \E type \in {"number", "true", "false"} : SetScalar(type)
           /\ ~\E i \in Targets : FreeAgain(i)
  <2>1. PICK type \in {"number", "true", "false"} : SetScalar(type)
    BY <1>5
  <2>2. PICK i \in Targets :
          /\ ~Dangling(i)
          /\ live' = live \ Old(i).blocks /\ v' = With(i, Scalar(type))
          /\ UNCHANGED <<pc, freed>>
    BY <1>5, <2>1 DEF SetScalar
  <2>3. IsValue(Scalar(type)) /\ Scalar(type).blocks = {} /\ Scalar(type).elems = <<>>
    BY ScalarIs
  <2>4. Blocks({})
    BY FS_EmptySet DEF Blocks
  <2>5. Setting(i, Scalar(type).blocks)
    <3>1. live' = (live \ Old(i).blocks) \cup Scalar(type).blocks
      BY <2>2, <2>3
    <3>2. QED
      BY <1>1, <1>2, <2>2, <2>3, <2>4, <3>1, SetLeaves
  <2>6. QED
    BY <1>1, <2>5
<1>6. QED
  BY <1>3, <1>4, <1>5

-----------------------------------------------------------------------------
\* The invariant holds at first, and every step keeps it.

\* The elements on the stack, counted by frame.
LEMMA PushedIs == Pushed = Total(frames) /\ Pushed' = Total(frames')
<1>1. Pushed = Total(frames)
  BY DEF Pushed, Total
<1>2. (Pushed = Total(frames))'
  BY <1>1, PTL
<1>3. QED
  BY <1>1, <1>2

\* It holds at first.
LEMMA InitIInv ==
  ASSUME Init
  PROVE  IInv
<1>1. /\ pc = "idle" /\ frames = <<>> /\ top = 0 /\ size = 0 /\ stack = 0
      /\ items = <<>> /\ head = 0 /\ e = Null /\ v = Null /\ freed = {} /\ live = {}
  BY DEF Init
<1>2. Types
  BY <1>1, EmptyIs, NullIs, FS_EmptySet DEF Types, Blocks
<1>3. Flow
  BY <1>1 DEF Flow, Points, Outside
<1>4. Len(items) = 0
  BY <1>1
<1>5. Sizes
  BY <1>1, <1>4, LeptJsonAssumption DEF Sizes, StackExact, InString, Parsing
<1>6. Owned
  BY <1>1, EmptyIs, NullIs DEF Owned, Mine, Context
<1>7. Accounted
  BY <1>1 DEF Accounted
<1>8. QED
  BY <1>2, <1>3, <1>5, <1>6, <1>7 DEF IInv

\* No value and no block changes.
LEMMA GoingKeeps ==
  ASSUME IInv, Going
  PROVE  IInv'
<1>1. UNCHANGED <<frames, top, size, stack, items, head, e, ret, v, freed, live, before>>
  BY DEF Going, context, value
<1>2. /\ Types /\ Flow /\ Sizes /\ Owned /\ Accounted
      /\ \/ pc' = pc
         \/ pc \in Numeric \cup {"value"} /\ pc' \in Numeric
         \/ pc = "string" /\ pc' = "escape"
         \/ pc \in {"open", "after"} /\ pc' = "value"
  BY DEF Going, IInv
<1>3. Types'
  BY <1>1, <1>2 DEF Types
<1>4. Flow'
  BY <1>1, <1>2 DEF Flow, Points, Outside, Numeric
<1>5. Sizes'
  BY <1>1, <1>2, PushedIs DEF Sizes, StackExact, InString, Parsing, Numeric
<1>6. Owned'
  BY <1>1, <1>2 DEF Owned, Mine, Context
<1>7. Accounted'
  BY <1>1, <1>2 DEF Accounted, Context, Numeric
<1>8. QED
  BY <1>3, <1>4, <1>5, <1>6, <1>7 DEF IInv

\* The stack keeps its elements, and only those.
LEMMA FailingKeeps ==
  ASSUME IInv, Failing
  PROVE  IInv'
<1>1. /\ UNCHANGED <<size, stack, items, head, e, v, freed, live, before>>
      /\ pc \in Numeric \cup {"value", "string", "escape", "after"} /\ pc' = "done"
      /\ ret' \notin {"OK", "ROOT_NOT_SINGULAR"} /\ frames' = <<>>
      /\ top' = IF InString THEN head ELSE top
  BY DEF Failing, value
<1>2. Types /\ Flow /\ Sizes /\ Owned /\ Accounted
  BY DEF IInv
<1>3. Types'
  BY <1>1, <1>2 DEF Types
<1>4. Flow'
  BY <1>1, <1>2 DEF Flow, Points, Outside, Numeric
<1>5. Sizes'
  <2>1. head \in Nat /\ top \in Nat /\ size \in Nat \ {1} /\ StackExact
    BY <1>2 DEF Types, Sizes
  <2>2. top' = ValueSize * Len(items) /\ top' \in Nat /\ (top' > 0 => top' < size)
    BY <1>1, <2>1 DEF StackExact
  <2>3. QED
    BY <1>1, <2>1, <2>2 DEF Sizes, StackExact, InString, Parsing
<1>6. Owned'
  BY <1>1, <1>2 DEF Owned, Mine, Context
<1>7. Accounted'
  BY <1>1, <1>2 DEF Accounted, Context, Numeric
<1>8. QED
  BY <1>3, <1>4, <1>5, <1>6, <1>7 DEF IInv

\* The new value owns nothing.
LEMMA MakingKeeps ==
  ASSUME IInv, Making
  PROVE  IInv'
<1>1. /\ UNCHANGED <<frames, top, size, stack, items, head, v, freed, live, before>>
      /\ pc \in Numeric \cup {"value"} /\ pc' = "return"
      /\ e' \in {Scalar("true"), Scalar("number")}
  BY DEF Making, context, value
<1>2. Types /\ Flow /\ Sizes /\ Owned /\ Accounted
  BY DEF IInv
<1>3. IsValue(e') /\ Made(e') /\ e'.blocks = {}
  BY <1>1, ScalarIs
<1>4. e = Null /\ e.blocks = {} /\ v.blocks = {}
  BY <1>1, <1>2, NullIs DEF Flow, Outside, Numeric
<1>5. Types'
  BY <1>1, <1>2, <1>3 DEF Types
<1>6. Flow'
  BY <1>1, <1>4 DEF Flow, Points
<1>7. Sizes'
  BY <1>1, <1>2, PushedIs DEF Sizes, StackExact, InString, Parsing, Numeric
<1>8. Owned'
  BY <1>1, <1>2, <1>3 DEF Owned, Mine, Context
<1>9. Accounted'
  BY <1>1, <1>2, <1>3, <1>4 DEF Accounted, Context, Numeric
<1>10. QED
  BY <1>5, <1>6, <1>7, <1>8, <1>9 DEF IInv

\* The characters lie above the elements.
LEMMA PushingKeeps ==
  ASSUME IInv, NEW need \in Nat \ {0}, Pushing(need)
  PROVE  IInv'
<1>1. /\ UNCHANGED <<frames, items, head, e, ret, v, freed, before>>
      /\ pc \in {"string", "escape"} /\ pc' = "string" /\ Push(need)
  BY DEF Pushing, value, InString
<1>2. Types /\ Flow /\ Sizes /\ Owned /\ Accounted
  BY DEF IInv
<1>3. /\ stack' \in Nat \ {0} /\ live' = live \cup {stack'} /\ Blocks(live')
      /\ stack # 0 => stack' = stack
      /\ stack = 0 => stack' \notin live
      /\ top' = top + need
      /\ size' \in Nat \ {1} /\ size' > top'
  BY <1>1, <1>2, PushTakes
<1>4. Types'
  BY <1>1, <1>2, <1>3 DEF Types
<1>5. Flow'
  BY <1>1, <1>2 DEF Flow, Points, Outside
<1>6. Sizes'
  <2>1. head \in Nat /\ top \in Nat /\ head = ValueSize * Len(items) /\ top >= head
    BY <1>1, <1>2 DEF Types, Sizes, StackExact, InString
  <2>2. Len(items) = Pushed
    BY <1>1, <1>2 DEF Sizes, StackExact, Parsing
  <2>3. top' \in Nat /\ top' >= head
    BY <1>3, <2>1
  <2>4. QED
    BY <1>1, <1>3, <2>1, <2>2, <2>3, PushedIs DEF Sizes, StackExact, InString, Parsing
<1>7. Owned'
  <2>1. v.blocks = {} /\ freed = {}
    BY <1>1, <1>2 DEF Flow, Types, Outside
  <2>2. QED
    BY <1>1, <1>2, <1>3, <2>1 DEF Owned, Mine, Context
<1>8. Accounted'
  BY <1>1, <1>2, <1>3 DEF Accounted, Context
<1>9. QED
  BY <1>4, <1>5, <1>6, <1>7, <1>8 DEF IInv

\* A context of its own, with an empty stack.
LEMMA ParseKeeps ==
  ASSUME IInv, Parse
  PROVE  IInv'
<1>1. /\ pc' = "value" /\ frames' = <<>> /\ top' = 0 /\ size' = 0 /\ stack' = 0
      /\ items' = <<>> /\ head' = 0 /\ v' = Null /\ freed' = {} /\ e' = Null
      /\ before' = live /\ live' = live
  BY DEF Parse
<1>2. Blocks(live)
  BY DEF IInv, Types
<1>3. Types'
  <2>1. Blocks({})
    BY FS_EmptySet DEF Blocks
  <2>2. QED
    BY <1>1, <1>2, <2>1, EmptyIs, NullIs DEF Types
<1>4. Flow'
  BY <1>1, NullIs DEF Flow, Points
<1>5. Sizes'
  <2>1. Len(items') = 0 /\ Pushed' = 0
    BY <1>1, PushedIs, TotalEmpty
  <2>2. QED
    BY <1>1, <2>1, LeptJsonAssumption DEF Sizes, StackExact, InString, Parsing
<1>6. Owned'
  BY <1>1, EmptyIs, NullIs DEF Owned, Mine, Context
<1>7. Accounted'
  BY <1>1, EmptyIs, NullIs DEF Accounted, Context
<1>8. QED
  BY <1>3, <1>4, <1>5, <1>6, <1>7 DEF IInv

\* The string begins above the elements.
LEMMA StringBeginsKeeps ==
  ASSUME IInv, StringBegins
  PROVE  IInv'
<1>1. /\ pc = "value" /\ pc' = "string" /\ head' = top
      /\ UNCHANGED <<frames, top, size, stack, items, e, ret, v, freed, live, before>>
  BY DEF StringBegins, value
<1>2. Types /\ Flow /\ Sizes /\ Owned /\ Accounted
  BY DEF IInv
<1>3. Types'
  BY <1>1, <1>2 DEF Types, Sizes
<1>4. Flow'
  BY <1>1, <1>2 DEF Flow, Points, Outside
<1>5. Sizes'
  BY <1>1, <1>2, PushedIs DEF Sizes, StackExact, InString, Parsing
<1>6. Owned'
  BY <1>1, <1>2 DEF Owned, Mine, Context
<1>7. Accounted'
  BY <1>1, <1>2 DEF Accounted, Context
<1>8. QED
  BY <1>3, <1>4, <1>5, <1>6, <1>7 DEF IInv

\* The characters leave the stack as the string found it.
LEMMA StringEndsKeeps ==
  ASSUME IInv, StringEnds
  PROVE  IInv'
<1>1. /\ pc = "string" /\ top' = top - (top - head)
      /\ UNCHANGED <<frames, size, stack, items, head, ret, v, freed, before>>
  BY DEF StringEnds, Popped, value
<1>2. Types /\ Flow /\ Sizes /\ Owned /\ Accounted
  BY DEF IInv
<1>3. e = Null /\ e.blocks = {} /\ v.blocks = {}
  BY <1>1, <1>2, NullIs DEF Flow, Outside
<1>4. /\ head \in Nat /\ top' = head /\ head = ValueSize * Len(items)
      /\ size \in Nat \ {1} /\ (head > 0 => head < size) /\ Len(items) = Pushed
  <2>1. /\ head \in Nat /\ top \in Nat /\ size \in Nat \ {1} /\ (top > 0 => top < size)
        /\ head = ValueSize * Len(items) /\ top >= head /\ Len(items) = Pushed
    BY <1>1, <1>2 DEF Types, Sizes, StackExact, InString, Parsing
  <2>2. QED
    BY <1>1, <2>1
<1>5. pc' \in {"return", "crashed"} => Sizes'
  BY <1>1, <1>4, PushedIs DEF Sizes, StackExact, InString, Parsing
<1>6. CASE pc' = "crashed" /\ UNCHANGED <<e, live>>
  <2>1. Types'
    BY <1>1, <1>2, <1>6 DEF Types
  <2>2. Flow'
    BY <1>1, <1>3, <1>6 DEF Flow, Points, Outside
  <2>3. Owned'
    BY <1>1, <1>2, <1>6 DEF Owned, Mine, Context
  <2>4. Accounted'
    BY <1>6 DEF Accounted
  <2>5. QED
    BY <1>5, <1>6, <2>1, <2>2, <2>3, <2>4 DEF IInv
<1>7. CASE /\ pc' = "return"
           /\ \E n \in Garbage :
                e' = [type |-> "string", blocks |-> {Fresh(live)},
                      elems |-> <<>>, len |-> n]
           /\ live' = live \cup {Fresh(live)}
  <2> DEFINE b == Fresh(live)
  <2>1. PICK n : e' = [type |-> "string", blocks |-> {b}, elems |-> <<>>, len |-> n]
    BY <1>7
  <2>2. b \in Nat \ {0} /\ b \notin live /\ Blocks(live \cup {b})
    BY <1>2, Allocated DEF Types
  <2>3. live' = live \cup {b}
    BY <1>7
  <2> HIDE DEF b
  <2>4. IsValue(e') /\ e'.blocks = {b} /\ Made(e')
    BY <2>1, EmptyIs, RecordIs DEF Made
  <2>5. Types'
    BY <1>1, <1>2, <2>2, <2>3, <2>4 DEF Types
  <2>6. Flow'
    BY <1>1, <1>3, <1>7 DEF Flow, Points
  <2>7. Owned'
    <3>1. freed = {}
      BY <1>2, <1>3 DEF Types
    <3>2. QED
      BY <1>1, <1>2, <1>3, <2>2, <2>3, <2>4, <3>1 DEF Owned, Mine, Context
  <2>8. Accounted'
    BY <1>1, <1>2, <1>3, <1>7, <2>3, <2>4 DEF Accounted, Context
  <2>9. QED
    BY <1>5, <1>7, <2>5, <2>6, <2>7, <2>8 DEF IInv
<1>8. QED
  BY <1>6, <1>7 DEF StringEnds

\* A frame without elements yet.
LEMMA ArrayBeginsKeeps ==
  ASSUME IInv, ArrayBegins
  PROVE  IInv'
<1>1. /\ pc = "value" /\ pc' = "open" /\ frames' = Append(frames, 0)
      /\ UNCHANGED <<top, size, stack, items, head, e, ret, v, freed, live, before>>
  BY DEF ArrayBegins, value
<1>2. Types /\ Flow /\ Sizes /\ Owned /\ Accounted
  BY DEF IInv
<1>3. /\ frames \in Seq(Nat) /\ frames' \in Seq(Nat) /\ frames' # <<>>
      /\ Len(frames') = Len(frames) + 1 /\ frames'[Len(frames) + 1] = 0
  BY <1>1, <1>2 DEF Types
<1>4. Last(frames') = 0 /\ Total(frames') = Total(frames)
  <2>1. Total(frames') = Total(frames) + 0 /\ Total(frames) \in Nat
    BY <1>1, <1>3, TotalAppend, TotalNat
  <2>2. QED
    BY <1>3, <2>1 DEF Last
<1>5. Types'
  BY <1>1, <1>2, <1>3 DEF Types
<1>6. Flow'
  BY <1>1, <1>2, <1>3, <1>4 DEF Flow, Points, Outside
<1>7. Sizes'
  BY <1>1, <1>2, <1>4, PushedIs DEF Sizes, StackExact, InString, Parsing
<1>8. Owned'
  BY <1>1, <1>2 DEF Owned, Mine, Context
<1>9. Accounted'
  BY <1>1, <1>2 DEF Accounted, Context
<1>10. QED
  BY <1>5, <1>6, <1>7, <1>8, <1>9 DEF IInv

\* It leaves without having pushed one.
LEMMA EmptyKeeps ==
  ASSUME IInv, Empty
  PROVE  IInv'
<1>1. /\ pc = "open" /\ pc' = "return" /\ frames' = Front(frames) /\ e' = Scalar("array")
      /\ UNCHANGED <<top, size, stack, items, head, ret, v, freed, live, before>>
  BY DEF Empty, value
<1>2. Types /\ Flow /\ Sizes /\ Owned /\ Accounted
  BY DEF IInv
<1>3. /\ frames' \in Seq(Nat) /\ Total(frames') = Total(frames)
  <2>1. frames \in Seq(Nat) /\ frames # <<>> /\ Last(frames) = 0
    BY <1>1, <1>2 DEF Types, Flow
  <2>2. /\ frames' \in Seq(Nat) /\ Total(frames) = Total(frames') + 0
    BY <1>1, <2>1, TotalFront
  <2>3. QED
    BY <2>2, TotalNat
<1>4. IsValue(e') /\ Made(e') /\ e'.blocks = {}
  BY <1>1, ScalarIs
<1>5. e = Null /\ e.blocks = {} /\ v.blocks = {}
  BY <1>1, <1>2, NullIs DEF Flow, Outside
<1>6. Types'
  BY <1>1, <1>2, <1>3, <1>4 DEF Types
<1>7. Flow'
  BY <1>1, <1>5 DEF Flow, Points
<1>8. Sizes'
  BY <1>1, <1>2, <1>3, PushedIs DEF Sizes, StackExact, InString, Parsing
<1>9. Owned'
  BY <1>1, <1>2, <1>4 DEF Owned, Mine, Context
<1>10. Accounted'
  BY <1>1, <1>2, <1>4, <1>5 DEF Accounted, Context
<1>11. QED
  BY <1>6, <1>7, <1>8, <1>9, <1>10 DEF IInv

\* A value that is returned is the caller's, or goes on the stack for its array.
LEMMA ReturnValueKeeps ==
  ASSUME IInv, ReturnValue
  PROVE  IInv'
<1>1. pc = "return" /\ e' = Null /\ UNCHANGED <<ret, freed, before>>
  BY DEF ReturnValue
<1>2. Types /\ Flow /\ Sizes /\ Owned /\ Accounted
  BY DEF IInv
<1>3. v.blocks = {} /\ e'.blocks = {} /\ IsValue(e') /\ Made(e')
  BY <1>1, <1>2, NullIs DEF Flow, Outside
<1>0. freed = {} /\ freed' = {} /\ Blocks(e.blocks) /\ Blocks(v.blocks)
  <2>1. freed = {} /\ freed' = {} /\ Blocks(v.blocks)
    BY <1>1, <1>2, <1>3 DEF Types
  <2>2. e.blocks \subseteq live /\ Blocks(live)
    BY <1>2 DEF Types, Owned
  <2>3. QED
    BY <2>1, <2>2, FS_Subset DEF Blocks
<1>4. CASE frames = <<>>
  <2>1. /\ v' = e /\ pc' = "trailing"
        /\ UNCHANGED <<frames, top, size, stack, items, head, live>>
    BY <1>4 DEF ReturnValue, context
  <2>2. Types'
    BY <1>0, <1>2, <1>3, <2>1 DEF Types
  <2>3. Flow'
    BY <1>1, <1>4, <2>1 DEF Flow, Points
  <2>4. Sizes'
    BY <1>1, <1>2, <2>1, PushedIs DEF Sizes, StackExact, InString, Parsing
  <2>5. Owned'
    BY <1>1, <1>2, <1>3, <2>1 DEF Owned, Mine, Context
  <2>6. Accounted'
    BY <1>1, <1>2, <1>3, <2>1 DEF Accounted, Context
  <2>7. QED
    BY <2>2, <2>3, <2>4, <2>5, <2>6 DEF IInv
<1>5. CASE frames # <<>>
  <2>1. /\ Push(ValueSize) /\ items' = Append(items, e) /\ frames' = Counted(frames)
        /\ pc' = "after" /\ UNCHANGED <<head, v>>
    BY <1>5 DEF ReturnValue, Counted
  <2>2. /\ stack' \in Nat \ {0} /\ live' = live \cup {stack'} /\ Blocks(live')
        /\ stack # 0 => stack' = stack
        /\ stack = 0 => stack' \notin live
        /\ top' = top + ValueSize
        /\ size' \in Nat \ {1} /\ size' > top'
    BY <1>2, <2>1, LeptJsonAssumption, PushTakes
  <2>3. /\ IsSeq(items') /\ Len(items') = Len(items) + 1
        /\ OwnedBy(items') = OwnedBy(items) \cup e.blocks
        /\ Disjoint(items')
    BY <1>2, <2>1, AppendIs DEF Types, Owned
  <2>4. /\ frames' \in Seq(Nat) /\ frames' # <<>> /\ Total(frames') = Total(frames) + 1
    BY <1>2, <1>5, <2>1, TotalCount DEF Types
  <2>5. Types'
    BY <1>0, <1>2, <1>3, <2>1, <2>2, <2>3, <2>4 DEF Types
  <2>6. Flow'
    BY <1>1, <1>3, <2>1, <2>4 DEF Flow, Points
  <2>7. Sizes'
    <3>1. /\ top = ValueSize * Len(items) /\ Len(items) = Total(frames)
          /\ top \in Nat /\ Len(items) \in Nat /\ ValueSize \in Nat
      BY <1>1, <1>2, PushedIs, SeqIs, LeptJsonAssumption
         DEF Types, Sizes, StackExact, InString, Parsing
    <3>2. top' = ValueSize * Len(items') /\ Len(items') = Total(frames') /\ top' \in Nat
      <4>1. \A k \in Nat : ValueSize * k + ValueSize = ValueSize * (k + 1)
        BY <3>1
      <4>2. /\ top' = top + ValueSize /\ Len(items') = Len(items) + 1
            /\ Total(frames') = Total(frames) + 1
        BY <2>2, <2>3, <2>4
      <4>3. top' = ValueSize * (Len(items) + 1) /\ Len(items') = Total(frames')
        BY <3>1, <4>1, <4>2
      <4>4. top' \in Nat
        BY <3>1, <4>2
      <4>5. QED
        BY <4>2, <4>3, <4>4, Zenon
    <3>3. QED
      BY <2>1, <2>2, <3>2, PushedIs DEF Sizes, StackExact, InString, Parsing
  <2>8. Owned'
    BY <1>0, <1>1, <1>2, <1>3, <2>1, <2>2, <2>3 DEF Owned, Mine, Context
  <2>9. Accounted'
    BY <1>1, <1>2, <1>3, <2>1, <2>2, <2>3 DEF Accounted, Context
  <2>10. QED
    BY <2>5, <2>6, <2>7, <2>8, <2>9 DEF IInv
<1>6. QED
  BY <1>4, <1>5

\* The elements leave the stack for the array's block.
LEMMA ArrayEndsKeeps ==
  ASSUME IInv, ArrayEnds
  PROVE  IInv'
<1> DEFINE n == Last(frames)
           b == Fresh(live)
           array == [type |-> "array", blocks |-> {b} \cup OwnedBy(Taken(items, n)),
                     elems |-> Taken(items, n), len |-> n]
<1>1. /\ pc = "after" /\ pc' = "return" /\ frames' = Front(frames)
      /\ e' = array /\ items' = Lasting(items, n) /\ top' = top - n * ValueSize
      /\ live' = live \cup {b}
      /\ UNCHANGED <<size, stack, head, ret, v, freed, before>>
  BY DEF ArrayEnds, Popped, value, Taken, Lasting
<1>2. Types /\ Flow /\ Sizes /\ Owned /\ Accounted
  BY DEF IInv
<1>3. /\ n \in 0..Len(items) /\ Front(frames) \in Seq(Nat)
      /\ Total(Front(frames)) = Len(items) - n
      /\ Len(items) \in Nat /\ top = ValueSize * Len(items)
  BY <1>1, <1>2, ArrayHas
<1>4. b \in Nat \ {0} /\ b \notin live /\ Blocks(live \cup {b})
  BY <1>2, Allocated DEF Types
<1> HIDE DEF n, b
<1>5. /\ IsSeq(items') /\ Len(items') = Len(items) - n
      /\ IsSeq(Taken(items, n)) /\ Disjoint(items') /\ Disjoint(Taken(items, n))
      /\ OwnedBy(items) = OwnedBy(items') \cup OwnedBy(Taken(items, n))
      /\ OwnedBy(items') \cap OwnedBy(Taken(items, n)) = {}
  BY <1>1, <1>2, <1>3, SplitIs DEF Types, Owned
<1>6. /\ IsValue(e') /\ Made(e')
      /\ e'.blocks = {b} \cup OwnedBy(Taken(items, n))
  <2>1. array.blocks = {b} \cup OwnedBy(Taken(items, n)) /\ array.elems = Taken(items, n)
    OBVIOUS
  <2>2. IsValue(array)
    BY <1>5, RecordIs
  <2>3. QED
    BY <1>1, <1>5, <2>1, <2>2 DEF Made
<1>7. v.blocks = {} /\ e.blocks = {}
  BY <1>1, <1>2, NullIs DEF Flow, Outside
<1>8. Types'
  BY <1>1, <1>2, <1>3, <1>4, <1>5, <1>6 DEF Types
<1>9. Flow'
  BY <1>1, <1>7 DEF Flow, Points
<1>10. Sizes'
  <2>1. top' = ValueSize * Len(items') /\ top' \in Nat /\ top' <= top
    <3>1. \A k \in Nat : \A m \in 0..k :
            /\ ValueSize * k - m * ValueSize = ValueSize * (k - m)
            /\ ValueSize * (k - m) \in Nat /\ m * ValueSize >= 0
      <4>1. ValueSize \in Nat
        BY LeptJsonAssumption
      <4>2. TAKE k \in Nat
      <4>3. TAKE m \in 0..k
      <4>4. ValueSize * k - m * ValueSize = ValueSize * (k - m)
        BY <4>1
      <4>5. QED
        BY <4>1, <4>4
    <3>2. /\ ValueSize * Len(items) - n * ValueSize = ValueSize * (Len(items) - n)
          /\ ValueSize * (Len(items) - n) \in Nat /\ n * ValueSize >= 0
      BY <1>3, <3>1
    <3>3. top' = ValueSize * (Len(items) - n) /\ top' = top - n * ValueSize
      BY <1>1, <1>3, <3>2
    <3>4. n * ValueSize \in Nat /\ top \in Nat
      BY <1>2, <1>3, LeptJsonAssumption DEF Sizes
    <3>5. QED
      BY <1>5, <3>2, <3>3, <3>4
  <2>2. /\ top \in Nat /\ size \in Nat \ {1} /\ (top > 0 => top < size)
    BY <1>2 DEF Sizes, StackExact
  <2>3. Len(items') = Total(frames')
    BY <1>1, <1>3, <1>5
  <2>4. QED
    BY <1>1, <2>1, <2>2, <2>3, PushedIs DEF Sizes, StackExact, InString, Parsing
<1>11. Owned'
  <2>1. freed = {}
    BY <1>2, <1>7 DEF Types
  <2>2. QED
    BY <1>1, <1>2, <1>4, <1>5, <1>6, <1>7, <2>1 DEF Owned, Mine, Context
<1>12. Accounted'
  BY <1>1, <1>2, <1>4, <1>5, <1>6, <1>7 DEF Accounted, Context
<1>13. QED
  BY <1>8, <1>9, <1>10, <1>11, <1>12 DEF IInv

\* Nothing is left on the stack when the outermost value has been read.
LEMMA TrailingKeeps ==
  ASSUME IInv, Trailing
  PROVE  IInv'
<1>1. /\ pc = "trailing" /\ pc' = "done"
      /\ UNCHANGED <<frames, top, size, stack, items, head, e, v, freed, live, before>>
  BY DEF Trailing, context, value
<1>2. Types /\ Flow /\ Sizes /\ Owned /\ Accounted
  BY DEF IInv
<1>3. items = <<>>
  <2>1. frames = <<>> /\ Len(items) = Pushed
    BY <1>1, <1>2 DEF Flow, Sizes, StackExact, Parsing
  <2>2. Len(items) = 0
    BY <2>1, PushedIs, TotalEmpty
  <2>3. QED
    BY <1>2, <2>2, SeqIs DEF Types
<1>4. Types'
  BY <1>1, <1>2 DEF Types
<1>5. Flow'
  BY <1>1, <1>2 DEF Flow, Points, Outside
<1>6. Sizes'
  BY <1>1, <1>2, <1>3 DEF Sizes, StackExact, InString, Parsing
<1>7. Owned'
  BY <1>1, <1>2 DEF Owned, Mine, Context
<1>8. Accounted'
  BY <1>1, <1>2 DEF Accounted, Context
<1>9. QED
  BY <1>4, <1>5, <1>6, <1>7, <1>8 DEF IInv

\* The context is gone; what it held is not in use.
LEMMA ReturnToCallerKeeps ==
  ASSUME IInv, ReturnToCaller
  PROVE  IInv'
<1>1. /\ pc = "done" /\ pc' = "idle"
      /\ frames' = <<>> /\ top' = 0 /\ size' = 0 /\ stack' = 0 /\ items' = <<>> /\ head' = 0
      /\ UNCHANGED <<e, ret, v, freed, live, before>>
  BY DEF ReturnToCaller, value
<1>2. Types /\ Flow /\ Owned
  BY DEF IInv
<1>3. Types'
  BY <1>1, <1>2, EmptyIs DEF Types
<1>4. Flow'
  BY <1>1, <1>2 DEF Flow, Points, Outside
<1>5. Sizes'
  <2>1. Len(items') = 0
    BY <1>1
  <2>2. QED
    BY <1>1, <2>1, LeptJsonAssumption DEF Sizes, StackExact, InString, Parsing
<1>6. Owned'
  <2>1. Disjoint(items') /\ OwnedBy(items') = {} /\ stack' = 0
    BY <1>1, EmptyIs
  <2>2. 0 \notin live \cup v.blocks
    BY <1>2 DEF Types, Blocks
  <2>3. QED
    BY <1>1, <1>2, <2>1, <2>2 DEF Owned, Mine, Context
<1>7. Accounted'
  BY <1>1 DEF Accounted
<1>8. QED
  BY <1>3, <1>4, <1>5, <1>6, <1>7 DEF IInv

\* The calls of the caller do not meet a parse.
LEMMA InitValueKeeps ==
  ASSUME IInv, InitValue
  PROVE  IInv'
<1>1. /\ pc = "idle"
      /\ UNCHANGED <<pc, frames, top, size, stack, items, head, e, ret, live, before>>
  BY DEF InitValue, context
<1>2. PICK i \in Targets : v' = With(i, Null) /\ freed' = freed \ Old(i).blocks
  BY DEF InitValue
<1>3. Types /\ Flow /\ Sizes /\ Owned
  BY DEF IInv
<1>4. /\ IsValue(v') /\ Made(v') /\ v'.blocks = v.blocks \ Old(i).blocks
      /\ Old(i).blocks \subseteq v.blocks
  BY <1>2, <1>3, NullIs, WithIs DEF Types, Owned
<1>5. Types'
  <2>1. Blocks(v'.blocks) /\ freed' \subseteq v'.blocks
    BY <1>2, <1>3, <1>4, Freed DEF Types
  <2>2. QED
    BY <1>1, <1>3, <1>4, <2>1 DEF Types
<1>6. Flow'
  BY <1>1, <1>3 DEF Flow, Points, Outside
<1>7. Sizes'
  BY <1>1, <1>3 DEF Sizes, StackExact, InString, Parsing
<1>8. Owned'
  <2>1. v'.blocks \subseteq v.blocks /\ v'.blocks \ freed' \subseteq v.blocks \ freed
        /\ freed' \subseteq freed
    BY <1>2, <1>4
  <2>2. QED
    BY <1>1, <1>3, <1>4, <2>1 DEF Owned, Mine, Context
<1>9. Accounted'
  BY <1>1 DEF Accounted
<1>10. QED
  BY <1>5, <1>6, <1>7, <1>8, <1>9 DEF IInv

\* A value that points at a block not allocated is one that lept_free has freed.
LEMMA FreeingAgainKeeps ==
  ASSUME IInv, pc = "idle", FreeingAgain
  PROVE  IInv'
<1>1. /\ pc' = "freed twice"
      /\ UNCHANGED <<frames, top, size, stack, items, head, e, ret, v, freed, live, before>>
  BY DEF FreeingAgain, context
<1>2. Types /\ Flow /\ Sizes /\ Owned
  BY DEF IInv
<1>3. freed # {}
  <2>1. PICK i \in Targets : Dangling(i)
    BY DEF FreeingAgain
  <2>2. Old(i).blocks \subseteq v.blocks
    BY <1>2, NullIs, WithIs DEF Types, Owned
  <2>3. v.blocks \ freed \subseteq live /\ ~(Old(i).blocks \subseteq live)
    BY <1>2, <2>1 DEF Owned, Mine, Dangling
  <2>4. QED
    BY <2>2, <2>3
<1>4. Types'
  BY <1>1, <1>2 DEF Types
<1>5. Flow'
  BY <1>1, <1>2, <1>3 DEF Flow, Points, Outside
<1>6. Sizes'
  BY <1>1, <1>2 DEF Sizes, StackExact, InString, Parsing
<1>7. Owned'
  BY <1>1, <1>2 DEF Owned, Mine, Context
<1>8. Accounted'
  BY <1>1 DEF Accounted
<1>9. QED
  BY <1>4, <1>5, <1>6, <1>7, <1>8 DEF IInv

\* What the old value owned goes, and nothing else that is held.
LEMMA SettingKeeps ==
  ASSUME IInv, SetString \/ \E type \in {"number", "true", "false"} : SetScalar(type)
  PROVE  IInv'
<1>1. Types /\ Flow /\ Sizes /\ Owned
  BY DEF IInv
<1>2. pc = "idle" /\ (FreeingAgain \/ \E i, new : Setting(i, new))
  BY <1>1, SetTakes
<1>3. CASE FreeingAgain
  BY <1>2, <1>3, FreeingAgainKeeps
<1>4. CASE \E i, new : Setting(i, new)
  <2>1. PICK i, new : Setting(i, new)
    BY <1>4
  <2>2. /\ IsValue(v') /\ Made(v') /\ Blocks(v'.blocks) /\ Blocks(live')
        /\ UNCHANGED <<pc, frames, top, size, stack, items, head, e, ret, freed, before>>
    BY <2>1 DEF Setting, context
  <2>3. /\ v'.blocks = (v.blocks \ Old(i).blocks) \cup new
        /\ Old(i).blocks \subseteq v.blocks \cap live
        /\ new \cap (live \cup v.blocks) = {} /\ live' = (live \ Old(i).blocks) \cup new
        /\ 0 \notin new
    BY <2>1 DEF Setting, Blocks
  <2> DEFINE others == OwnedBy(items) \cup e.blocks
  <2>4. /\ others \cap v.blocks = {} /\ others \cup Mine \cup Context \subseteq live
        /\ stack \notin others \cup v.blocks
        /\ freed \cap live = {} /\ freed \subseteq v.blocks
    BY <1>1 DEF Owned, Types
  <2>5. freed \subseteq v'.blocks /\ freed \cap live' = {}
    BY <2>3, <2>4
  <2>6. Types'
    BY <1>1, <2>2, <2>5 DEF Types
  <2>7. Flow'
    BY <1>1, <1>2, <2>2 DEF Flow, Points, Outside
  <2>8. Sizes'
    BY <1>1, <1>2, <2>2 DEF Sizes, StackExact, InString, Parsing
  <2>9. Owned'
    <3>1. others \subseteq live' /\ others \cap v'.blocks = {}
      BY <2>3, <2>4
    <3>2. stack \notin v'.blocks /\ Context \subseteq live'
      BY <2>3, <2>4 DEF Context
    <3>3. v'.blocks \ freed \subseteq live'
      BY <2>3, <2>4 DEF Mine
    <3>4. Disjoint(items) /\ Made(e) /\ OwnedBy(items) \cap e.blocks = {}
      BY <1>1 DEF Owned
    <3>5. QED
      BY <2>2, <2>4, <2>5, <3>1, <3>2, <3>3, <3>4 DEF Owned, Mine, Context
  <2>10. Accounted'
    BY <1>2, <2>2 DEF Accounted
  <2>11. QED
    BY <2>6, <2>7, <2>8, <2>9, <2>10 DEF IInv
<1>5. QED
  BY <1>2, <1>3, <1>4

\* What lept_free frees is left in the value, as freed.
LEMMA FreeKeeps ==
  ASSUME IInv, Free
  PROVE  IInv'
<1>1. /\ pc = "idle"
      /\ UNCHANGED <<frames, top, size, stack, items, head, e, ret, before>>
  BY DEF Free, context
<1>2. Types /\ Flow /\ Sizes /\ Owned
  BY DEF IInv
<1>3. CASE \E i \in Targets : FreeAgain(i)
  BY <1>1, <1>3, FreeingAgainKeeps DEF FreeAgain, FreeingAgain, context
<1>4. CASE ~\E i \in Targets : FreeAgain(i)
  <2>1. PICK i \in Targets :
          /\ live' = live \ Old(i).blocks
          /\ v' = IF i = 0 THEN [v EXCEPT !.elems = <<>>] ELSE v
          /\ freed' = freed \cup Old(i).blocks
          /\ pc' = pc
    BY <1>4 DEF Free
  <2>2. Old(i).blocks \subseteq v.blocks
    BY <1>2, NullIs, WithIs DEF Types, Owned
  <2>3. IsValue(v') /\ Made(v') /\ v'.blocks = v.blocks
    <3>1. IsValue(v) /\ Made(v)
      BY <1>2 DEF Types, Owned
    <3>2. CASE i # 0
      BY <2>1, <3>1, <3>2
    <3>3. CASE i = 0
      <4>1. v' = [type |-> v.type, blocks |-> v.blocks, elems |-> <<>>, len |-> v.len]
        BY <2>1, <3>1, <3>3 DEF IsValue
      <4>2. v'.blocks = v.blocks /\ v'.elems = <<>>
        BY <4>1
      <4>3. IsValue(v')
        BY <4>1, EmptyIs, RecordIs
      <4>4. QED
        BY <4>2, <4>3, EmptyIs DEF Made
    <3>4. QED
      BY <3>2, <3>3
  <2>4. Types'
    <3>1. Blocks(live') /\ freed' \subseteq v'.blocks
      BY <1>2, <2>1, <2>2, <2>3, Freed DEF Types
    <3>2. QED
      BY <1>1, <1>2, <2>3, <3>1 DEF Types
  <2>5. Flow'
    BY <1>1, <1>2, <2>1 DEF Flow, Points, Outside
  <2>6. Sizes'
    BY <1>1, <1>2, <2>1 DEF Sizes, StackExact, InString, Parsing
  <2>7. Owned'
    BY <1>1, <1>2, <2>1, <2>2, <2>3 DEF Owned, Mine, Context
  <2>8. Accounted'
    BY <1>1, <2>1 DEF Accounted
  <2>9. QED
    BY <2>4, <2>5, <2>6, <2>7, <2>8 DEF IInv
<1>5. QED
  BY <1>3, <1>4

\* Every step keeps it.
LEMMA NextIInv ==
  ASSUME IInv, [Next]_vars
  PROVE  IInv'
<1>1. CASE Going \/ Failing \/ Making \/ Pushing(1) \/ Pushing(2)
  BY <1>1, GoingKeeps, FailingKeeps, MakingKeeps, PushingKeeps
<1>2. CASE Parse \/ StringBegins \/ StringEnds
  BY <1>2, ParseKeeps, StringBeginsKeeps, StringEndsKeeps
<1>3. CASE ArrayBegins \/ Empty \/ ReturnValue \/ ArrayEnds
  BY <1>3, ArrayBeginsKeeps, EmptyKeeps, ReturnValueKeeps, ArrayEndsKeeps
<1>4. CASE Trailing \/ ReturnToCaller \/ InitValue \/ Free
  BY <1>4, TrailingKeeps, ReturnToCallerKeeps, InitValueKeeps, FreeKeeps
<1>5. CASE SetString \/ \E type \in {"number", "true", "false"} : SetScalar(type)
  BY <1>5, SettingKeeps
<1>6. QED
  BY <1>1, <1>2, <1>3, <1>4, <1>5, Steps

\* It holds in every state.
LEMMA SpecIInv == Spec => []IInv
BY InitIInv, NextIInv, PTL DEF Spec

-----------------------------------------------------------------------------
\* What the invariant says of the values held.

\* One more value, as a sequence of its own.
LEMMA ConcatIs ==
  ASSUME NEW s, IsSeq(s), NEW x
  PROVE  s \o <<x>> = Append(s, x)
<1> DEFINE S == {s[i] : i \in 1..Len(s)} \cup {x}
<1>1. s \in Seq(S) /\ x \in S
  <2>1. s \in Seq({s[i] : i \in 1..Len(s)})
    BY SeqIs
  <2>2. QED
    BY <2>1, SeqMonotonic
<1> HIDE DEF S
<1>2. QED
  BY <1>1, AppendIsConcat

\* The values held are those the invariant keeps apart.
LEMMA IInvOwned == IInv => OwnedOnce
<1> SUFFICES ASSUME IInv PROVE OwnedOnce
  OBVIOUS
<1> DEFINE held == items \o <<e>> \o <<v>>
           two == Append(items, e)
<1>1. Types /\ Owned /\ (pc = "freed twice" => freed # {})
  BY DEF IInv, Flow
<1>2. /\ items \o <<e>> = two /\ IsSeq(two)
      /\ OwnedBy(two) = OwnedBy(items) \cup e.blocks /\ Disjoint(two)
  BY <1>1, ConcatIs, AppendIs DEF Types, Owned
<1> HIDE DEF two
<1>3. held = Append(two, v)
  BY <1>2, ConcatIs
<1>4. OwnedBy(two) \cap v.blocks = {}
  BY <1>1, <1>2 DEF Owned
<1> HIDE DEF held
<1>5. OwnedBy(held) = OwnedBy(items) \cup e.blocks \cup v.blocks /\ Disjoint(held)
  BY <1>2, <1>3, <1>4, AppendIs
<1>6. Disjoint(v.elems) /\ OwnedBy(v.elems) \subseteq v.blocks
  BY <1>1 DEF Owned, Made
<1>7. /\ OwnedBy(items) \cup e.blocks \cup (v.blocks \ freed) \subseteq live
      /\ stack # 0 => stack \in live
      /\ stack \notin OwnedBy(held)
  BY <1>1, <1>5 DEF Owned, Mine, Context
<1>8. QED
  BY <1>1, <1>5, <1>6, <1>7 DEF OwnedOnce, Disjoint, held

\* When lept_parse returns, no value is on its way.
LEMMA IInvAccounted == IInv => AllAccounted
<1> SUFFICES ASSUME IInv, pc = "done"
             PROVE  live = before \cup v.blocks \cup OwnedBy(items)
                             \cup (IF stack = 0 THEN {} ELSE {stack})
  BY DEF AllAccounted
<1>1. e.blocks = {}
  BY NullIs DEF IInv, Flow
<1>2. QED
  BY <1>1 DEF IInv, Accounted, Context

\* The context's stack holds exactly the elements of the arrays in progress, whatever
\* has been pushed and popped for the strings and arrays inside them, an accepted
\* text leaves it empty, and its top is within what was allocated: lept_contex_push,
\* lept_contex_pop and their callers (leptjson.c:232).
THEOREM StackHolds == Spec => []StackExact
<1>1. IInv => StackExact
  BY DEF IInv, Sizes
<1>2. QED
  BY <1>1, SpecIInv, PTL

\* No two values point at the same heap block, in any sequence of parses, setters,
\* lept_free and lept_set_null, and all they point at is allocated, but for what
\* lept_free has freed and left in the value: a block is freed twice by that only
\* (leptjson.c:140, leptjson.h:57).
THEOREM BlocksOwnedOnce == Spec => []OwnedOnce
BY IInvOwned, SpecIInv, PTL

\* When lept_parse returns, all it has allocated is the value's, on the stack, or the
\* stack itself: with an error, the elements of unfinished arrays and the stack's
\* block are what is lost (leptjson.c:371).
THEOREM ParseAccounted == Spec => []AllAccounted
BY IInvAccounted, SpecIInv, PTL

-----------------------------------------------------------------------------
\* Languages.

\* A text cut in two.
LEMMA CutIs ==
  ASSUME NEW s \in Texts, NEW n \in 0..Len(s)
  PROVE  /\ SubSeq(s, 1, n) \in Texts /\ SubSeq(s, n + 1, Len(s)) \in Texts
         /\ Len(SubSeq(s, 1, n)) = n /\ Len(SubSeq(s, n + 1, Len(s))) = Len(s) - n
         /\ s = SubSeq(s, 1, n) \o SubSeq(s, n + 1, Len(s))
<1>1. s \in Seq(Symbols) /\ Len(s) \in Nat /\ n \in Nat /\ n <= Len(s)
  BY DEF Texts
<1>2. \A i \in 1..Len(s) : s[i] \in Symbols
  BY <1>1
<1>3. /\ SubSeq(s, 1, n) \in Seq(Symbols)
      /\ Len(SubSeq(s, 1, n)) = IF 1 <= n THEN n - 1 + 1 ELSE 0
  BY <1>1, <1>2, SubSeqProperties
<1>4. /\ SubSeq(s, n + 1, Len(s)) \in Seq(Symbols)
      /\ Len(SubSeq(s, n + 1, Len(s))) = IF n + 1 <= Len(s) THEN Len(s) - (n + 1) + 1 ELSE 0
  BY <1>1, <1>2, SubSeqProperties
<1>5. SubSeq(s, 1, n) \o SubSeq(s, n + 1, Len(s)) = SubSeq(s, 1, Len(s))
  <2>1. 1 \in 1..(Len(s) + 1) /\ n \in (1 - 1)..Len(s) /\ Len(s) \in n..Len(s)
    BY <1>1
  <2>2. QED
    BY <1>1, <2>1, ConcatAdjacentSubSeq
<1>6. SubSeq(s, 1, Len(s)) = s
  BY <1>1, SubSeqFull
<1>7. Len(SubSeq(s, 1, n)) = n /\ Len(SubSeq(s, n + 1, Len(s))) = Len(s) - n
  BY <1>1, <1>3, <1>4
<1>8. s = SubSeq(s, 1, n) \o SubSeq(s, n + 1, Len(s))
  BY <1>5, <1>6, Zenon
<1>9. QED
  BY <1>3, <1>4, <1>7, <1>8, Zenon DEF Texts

\* Two texts put together, and where they meet.
LEMMA JoinIs ==
  ASSUME NEW a \in Texts, NEW b \in Texts
  PROVE  /\ a \o b \in Texts /\ Len(a \o b) = Len(a) + Len(b)
         /\ Len(a) \in 0..Len(a \o b)
         /\ SubSeq(a \o b, 1, Len(a)) = a
         /\ SubSeq(a \o b, Len(a) + 1, Len(a \o b)) = b
<1> DEFINE s == a \o b
           n == Len(a)
           p == SubSeq(s, 1, n)
           r == SubSeq(s, n + 1, Len(s))
<1>1. /\ a \in Seq(Symbols) /\ b \in Seq(Symbols) /\ Len(a) \in Nat /\ Len(b) \in Nat
  BY DEF Texts
<1>2. /\ s \in Seq(Symbols) /\ Len(s) = Len(a) + Len(b)
      /\ \A i \in 1..(Len(a) + Len(b)) : s[i] = IF i <= Len(a) THEN a[i] ELSE b[i - Len(a)]
  BY <1>1, ConcatProperties
<1>3. n \in 0..Len(s)
  BY <1>1, <1>2
<1> HIDE DEF s
<1>4. /\ p \in Seq(Symbols) /\ r \in Seq(Symbols) /\ Len(p) = n /\ Len(r) = Len(s) - n
  BY <1>2, <1>3, CutIs DEF Texts
<1>5. \A i \in 1..Len(s) : s[i] \in Symbols
  BY <1>2
<1>6. \A i \in 1..n : p[i] = s[i]
  <2>1. \A i \in 1..(n - 1 + 1) : SubSeq(s, 1, n)[i] = s[1 + i - 1]
    BY <1>1, <1>2, <1>5, SubSeqProperties
  <2>2. QED
    BY <1>1, <2>1
<1>7. \A i \in 1..Len(b) : r[i] = s[n + i]
  <2>1. \A i \in 1..(Len(s) - (n + 1) + 1) : SubSeq(s, n + 1, Len(s))[i] = s[n + 1 + i - 1]
    BY <1>1, <1>2, <1>5, SubSeqProperties
  <2>2. QED
    BY <1>1, <1>2, <2>1
<1> HIDE DEF p, r
<1>8. p = a
  BY <1>1, <1>2, <1>4, <1>6, SeqEqual
<1>9. r = b
  <2>1. Len(r) = Len(b)
    BY <1>1, <1>2, <1>4
  <2>2. \A i \in 1..Len(b) : r[i] = b[i]
    <3>1. TAKE i \in 1..Len(b)
    <3>2. n + i \in 1..(Len(a) + Len(b)) /\ ~(n + i <= Len(a)) /\ (n + i) - Len(a) = i
      BY <1>1
    <3>3. QED
      BY <1>2, <1>7, <3>2
  <2>3. QED
    BY <1>1, <1>4, <2>1, <2>2, SeqEqual
<1>10. QED
  BY <1>2, <1>3, <1>8, <1>9 DEF s, p, r, Texts

\* What a product of languages has.
Cut(s, A, B) == \E a \in Texts, b \in Texts : a \in A /\ b \in B /\ s = a \o b

\* A product has the texts that can be cut so.
LEMMA CatIs == \A A, B, s : s \in A ** B <=> Cut(s, A, B)
<1> TAKE A, B, s
<1>1. ASSUME s \in A ** B
      PROVE  Cut(s, A, B)
  <2>1. s \in Texts /\ \E n \in 0..Len(s) : SubSeq(s, 1, n) \in A /\ SubSeq(s, n + 1, Len(s)) \in B
    BY <1>1 DEF **
  <2>2. PICK n \in 0..Len(s) : SubSeq(s, 1, n) \in A /\ SubSeq(s, n + 1, Len(s)) \in B
    BY <2>1
  <2>3. QED
    BY <2>1, <2>2, CutIs DEF Cut
<1>2. ASSUME NEW a \in Texts, NEW b \in Texts, a \in A, b \in B, s = a \o b
      PROVE  s \in A ** B
  BY <1>2, JoinIs DEF **
<1>3. QED
  BY <1>1, <1>2 DEF Cut

\* A text of each, put together.
LEMMA CatHas ==
  \A A, B : \A a \in Texts, b \in Texts : a \in A /\ b \in B => a \o b \in A ** B
BY CatIs DEF Cut

\* The laws of products.
LEMMA CatTexts == \A A, B : A ** B \subseteq Texts
BY DEF **

\* Putting together is associative, for texts.
LEMMA JoinText == \A x, y \in Texts : x \o y \in Texts
BY JoinIs

\* It does not matter which two are put together first.
LEMMA JoinAssoc == \A x, y, z \in Texts : (x \o y) \o z = x \o (y \o z)
BY ConcatAssociative DEF Texts

\* Products are associative.
LEMMA CatAssoc == \A A, B, C : (A ** B) ** C = A ** (B ** C)
<1>1. TAKE A, B, C
<1>2. ASSUME NEW s \in (A ** B) ** C
      PROVE  s \in A ** (B ** C)
  <2>1. PICK p \in Texts, c \in Texts : p \in A ** B /\ c \in C /\ s = p \o c
    BY <1>2, CatIs DEF Cut
  <2>2. PICK a \in Texts, b \in Texts : a \in A /\ b \in B /\ p = a \o b
    <3>1. Cut(p, A, B)
      BY <2>1, CatIs, Zenon
    <3>2. QED
      BY <3>1 DEF Cut
  <2>3. s = a \o (b \o c) /\ b \o c \in Texts
    BY <2>1, <2>2, JoinAssoc, JoinText
  <2>4. b \o c \in B ** C
    BY <2>1, <2>2, CatHas, Zenon
  <2>5. QED
    BY <2>2, <2>3, <2>4, CatHas, Zenon
<1>3. ASSUME NEW s \in A ** (B ** C)
      PROVE  s \in (A ** B) ** C
  <2>1. PICK a \in Texts, q \in Texts : a \in A /\ q \in B ** C /\ s = a \o q
    BY <1>3, CatIs DEF Cut
  <2>2. PICK b \in Texts, c \in Texts : b \in B /\ c \in C /\ q = b \o c
    <3>1. Cut(q, B, C)
      BY <2>1, CatIs, Zenon
    <3>2. QED
      BY <3>1 DEF Cut
  <2>3. s = (a \o b) \o c /\ a \o b \in Texts
    <3>1. a \in Texts /\ b \in Texts /\ c \in Texts
      BY <2>1, <2>2
    <3>2. (a \o b) \o c = a \o (b \o c)
      BY <3>1, JoinAssoc
    <3>3. s = a \o q /\ q = b \o c
      BY <2>1, <2>2
    <3>4. a \o b \in Texts
      BY <3>1, JoinText
    <3>5. QED
      BY <3>2, <3>3, <3>4
  <2>4. a \o b \in A ** B
    BY <2>1, <2>2, CatHas, Zenon
  <2>5. QED
    BY <2>2, <2>3, <2>4, CatHas, Zenon
<1>4. QED
  BY <1>2, <1>3

\* A product of a union is a union of products.
LEMMA CatUnion ==
  \A A, B, C : /\ (A \cup B) ** C = (A ** C) \cup (B ** C)
               /\ C ** (A \cup B) = (C ** A) \cup (C ** B)
<1>1. TAKE A, B, C
<1>2. \A s : s \in (A \cup B) ** C <=> s \in (A ** C) \cup (B ** C)
  <2>1. TAKE s
  <2>2. s \in (A \cup B) ** C <=> Cut(s, A \cup B, C)
    BY CatIs, Zenon
  <2>3. s \in A ** C <=> Cut(s, A, C)
    BY CatIs, Zenon
  <2>4. s \in B ** C <=> Cut(s, B, C)
    BY CatIs, Zenon
  <2>5. QED
    BY <2>2, <2>3, <2>4, Zenon DEF Cut
<1>3. \A s : s \in C ** (A \cup B) <=> s \in (C ** A) \cup (C ** B)
  <2>1. TAKE s
  <2>2. s \in C ** (A \cup B) <=> Cut(s, C, A \cup B)
    BY CatIs, Zenon
  <2>3. s \in C ** A <=> Cut(s, C, A)
    BY CatIs, Zenon
  <2>4. s \in C ** B <=> Cut(s, C, B)
    BY CatIs, Zenon
  <2>5. QED
    BY <2>2, <2>3, <2>4, Zenon DEF Cut
<1>4. QED
  BY <1>2, <1>3

\* The empty text.
LEMMA NoText ==
  /\ <<>> \in Texts /\ Len(<<>>) = 0
  /\ \A s \in Texts : s \o <<>> = s /\ <<>> \o s = s
  /\ \A a, b \in Texts : a \o b = <<>> => a = <<>> /\ b = <<>>
<1>1. <<>> \in Texts /\ Len(<<>>) = 0
  BY EmptySeq DEF Texts
<1>2. \A s \in Texts : s \o <<>> = s /\ <<>> \o s = s
  BY ConcatEmptySeq DEF Texts
<1>3. \A a, b \in Texts : a \o b = <<>> => a = <<>> /\ b = <<>>
  BY ConcatEqualIffEmpty DEF Texts
<1>4. QED
  BY <1>1, <1>2, <1>3

\* The language of the empty text alone is neutral.
LEMMA CatOne == \A A : {<<>>} ** A = A \cap Texts /\ A ** {<<>>} = A \cap Texts
<1>1. TAKE A
<1>2. \A s : s \in {<<>>} ** A <=> s \in A \cap Texts
  <2>1. TAKE s
  <2>2. s \in {<<>>} ** A <=> Cut(s, {<<>>}, A)
    BY CatIs, Zenon
  <2>3. /\ <<>> \in Texts
        /\ \A b \in Texts : <<>> \o b = b
    BY NoText
  <2>4. QED
    BY <2>2, <2>3, Zenon DEF Cut
<1>3. \A s : s \in A ** {<<>>} <=> s \in A \cap Texts
  <2>1. TAKE s
  <2>2. s \in A ** {<<>>} <=> Cut(s, A, {<<>>})
    BY CatIs, Zenon
  <2>3. /\ <<>> \in Texts
        /\ \A b \in Texts : b \o <<>> = b
    BY NoText
  <2>4. QED
    BY <2>2, <2>3, Zenon DEF Cut
<1>4. QED
  BY <1>2, <1>3

\* Only texts count.
LEMMA CatSame ==
  \A A, B, C : A \cap Texts = B \cap Texts => A ** C = B ** C /\ C ** A = C ** B
<1>1. TAKE A, B, C
<1>2. HAVE A \cap Texts = B \cap Texts
<1>3. \A s \in Texts : s \in A <=> s \in B
  BY <1>2
<1>4. \A s : s \in A ** C <=> s \in B ** C
  <2>1. TAKE s
  <2>2. s \in A ** C <=> Cut(s, A, C)
    BY CatIs, Zenon
  <2>3. s \in B ** C <=> Cut(s, B, C)
    BY CatIs, Zenon
  <2>4. QED
    BY <1>3, <2>2, <2>3, Zenon DEF Cut
<1>5. \A s : s \in C ** A <=> s \in C ** B
  <2>1. TAKE s
  <2>2. s \in C ** A <=> Cut(s, C, A)
    BY CatIs, Zenon
  <2>3. s \in C ** B <=> Cut(s, C, B)
    BY CatIs, Zenon
  <2>4. QED
    BY <1>3, <2>2, <2>3, Zenon DEF Cut
<1>6. QED
  BY <1>4, <1>5

-----------------------------------------------------------------------------
\* The texts of A that begin with c, without it.
Past(c, A) == {u \in Texts : <<c>> \o u \in A}

\* One character and the rest.
LEMMA OneIs ==
  ASSUME NEW c \in Symbols
  PROVE  /\ <<c>> \in Texts
         /\ \A u \in Texts : <<c>> \o u \in Texts /\ <<c>> \o u # <<>> /\ Len(<<c>> \o u) = Len(u) + 1
         /\ \A u, w \in Texts, d \in Symbols : <<c>> \o u = <<d>> \o w => c = d /\ u = w
<1>1. \A d \in Symbols : <<d>> \in Texts /\ Len(<<d>>) = 1 /\ <<d>>[1] = d
  BY DEF Texts
<1>2. \A d \in Symbols, u \in Texts :
        /\ <<d>> \o u \in Texts /\ Len(<<d>> \o u) = Len(u) + 1
        /\ (<<d>> \o u)[1] = d
  <2> TAKE d \in Symbols, u \in Texts
  <2>1. <<d>> \in Seq(Symbols) /\ u \in Seq(Symbols) /\ Len(<<d>>) = 1 /\ <<d>>[1] = d /\ Len(u) \in Nat
    BY <1>1 DEF Texts
  <2>2. /\ <<d>> \o u \in Seq(Symbols) /\ Len(<<d>> \o u) = Len(<<d>>) + Len(u)
        /\ \A i \in 1..(Len(<<d>>) + Len(u)) :
             (<<d>> \o u)[i] = IF i <= Len(<<d>>) THEN <<d>>[i] ELSE u[i - Len(<<d>>)]
    BY <2>1, ConcatProperties
  <2>3. QED
    BY <2>1, <2>2 DEF Texts
<1>3. \A u \in Texts : <<c>> \o u # <<>>
  <2> TAKE u \in Texts
  <2>1. Len(u) \in Nat /\ Len(<<c>> \o u) = Len(u) + 1
    BY <1>2 DEF Texts
  <2>2. Len(<<>>) = 0
    BY NoText
  <2>3. QED
    BY <2>1, <2>2
<1>4. ASSUME NEW u \in Texts, NEW w \in Texts, NEW d \in Symbols, <<c>> \o u = <<d>> \o w
      PROVE  c = d /\ u = w
  <2>1. c = d
    <3>1. (<<c>> \o u)[1] = c /\ (<<d>> \o w)[1] = d
      BY <1>2
    <3>2. QED
      BY <1>4, <3>1
  <2>2. <<c>> \o u = <<c>> \o w
    BY <1>4, <2>1
  <2>3. u = w
    BY <1>1, <2>2, ConcatSimplifications DEF Texts
  <2>4. QED
    BY <2>1, <2>3
<1>5. QED
  BY <1>1, <1>2, <1>3, <1>4

\* A product has the empty text if both have it.
LEMMA CatNone == \A A, B : <<>> \in A ** B <=> <<>> \in A /\ <<>> \in B
<1>1. TAKE A, B
<1>2. <<>> \in A ** B <=> Cut(<<>>, A, B)
  BY CatIs, Zenon
<1>3. /\ <<>> \in Texts /\ <<>> \o <<>> = <<>>
      /\ \A a, b \in Texts : a \o b = <<>> => a = <<>> /\ b = <<>>
  BY NoText
<1>4. QED
  BY <1>2, <1>3, Zenon DEF Cut

\* The empty text is the only one that begins with no character.
LEMMA PastNone == \A c \in Symbols : Past(c, {<<>>}) = {} /\ Past(c, {}) = {}
<1> TAKE c \in Symbols
<1>1. \A u \in Texts : <<c>> \o u # <<>>
  BY OneIs
<1>2. QED
  BY <1>1 DEF Past

\* Either language may begin with the character.
LEMMA PastUnion == \A c, A, B : Past(c, A \cup B) = Past(c, A) \cup Past(c, B)
BY DEF Past

\* What remains are texts.
LEMMA PastTexts == \A c, A : Past(c, A) \subseteq Texts
BY DEF Past

\* A product that begins with one of some characters.
LEMMA PastFirst ==
  \A c \in Symbols : \A S, A : A \subseteq Texts =>
    Past(c, Letters(S) ** A) = IF c \in S THEN A ELSE {}
<1> TAKE c \in Symbols
<1> TAKE S, A
<1>1. HAVE A \subseteq Texts
<1>2. /\ <<c>> \in Texts
      /\ \A u, w \in Texts, d \in Symbols : <<c>> \o u = <<d>> \o w => c = d /\ u = w
  BY OneIs
<1>3. ASSUME NEW u \in Texts, <<c>> \o u \in Letters(S) ** A
      PROVE  c \in S /\ u \in A
  <2>1. Cut(<<c>> \o u, Letters(S), A)
    BY <1>3, CatIs, Zenon
  <2>2. PICK a \in Texts, b \in Texts : a \in Letters(S) /\ b \in A /\ <<c>> \o u = a \o b
    BY <2>1 DEF Cut
  <2>3. PICK d \in S : a = <<d>>
    BY <2>2 DEF Letters
  <2>4. d \in Symbols
    <3>1. a \in Texts
      BY <2>2
    <3>2. \A i \in 1..Len(a) : a[i] \in Symbols
      BY <3>1 DEF Texts
    <3>3. QED
      BY <2>3, <3>2
  <2>5. b \in Texts /\ b \in A /\ <<c>> \o u = <<d>> \o b
    BY <2>2, <2>3
  <2>6. c = d /\ u = b
    BY <1>2, <2>4, <2>5
  <2>7. QED
    BY <2>3, <2>5, <2>6
<1>4. ASSUME NEW u \in A, c \in S
      PROVE  u \in Past(c, Letters(S) ** A)
  <2>1. <<c>> \in Letters(S) /\ u \in Texts
    BY <1>1, <1>4 DEF Letters
  <2>2. <<c>> \o u \in Letters(S) ** A
    BY <1>2, <1>4, <2>1, CatHas, Zenon
  <2>3. QED
    BY <2>1, <2>2 DEF Past
<1>5. \A u \in Past(c, Letters(S) ** A) : c \in S /\ u \in A
  BY <1>3 DEF Past
<1>6. QED
  BY <1>4, <1>5

\* Such a product does not have the empty text.
LEMMA FirstNotNone == \A S, A : <<>> \notin Letters(S) ** A
<1> TAKE S, A
<1>1. <<>> \notin Letters(S)
  <2>1. \A c : <<c>> # <<>>
    OBVIOUS
  <2>2. QED
    BY <2>1 DEF Letters
<1>2. QED
  BY <1>1, CatNone, Zenon

\* Any number of characters, one by one.
LEMMA SeqStep ==
  \A S, A : A \subseteq Texts => Seq(S) ** A = A \cup (Letters(S) ** (Seq(S) ** A))
<1> TAKE S, A
<1>1. HAVE A \subseteq Texts
<1> DEFINE More == {<<>>} \cup (Letters(S) ** Seq(S))
<1>2. ASSUME NEW s \in Seq(S), s \in Texts
      PROVE  s \in More
  <2>1. CASE s = <<>>
    BY <2>1
  <2>2. CASE s # <<>>
    <3>1. /\ Head(s) \in S /\ Tail(s) \in Seq(S)
      BY <1>2, <2>2, HeadTailProperties
    <3>2. Head(s) \in Symbols /\ Tail(s) \in Seq(Symbols)
      BY <1>2, <2>2, HeadTailProperties DEF Texts
    <3>3. s = <<Head(s)>> \o Tail(s)
      <4> DEFINE h == Head(s)
                 t == Tail(s)
      <4>1. s \in Seq(Symbols) /\ Len(s) \in Nat /\ Len(s) # 0
        BY <1>2, <2>2 DEF Texts
      <4>2. /\ Len(t) = Len(s) - 1 /\ h = s[1] /\ \A i \in 1..Len(t) : t[i] = s[i + 1]
        BY <4>1, <2>2, HeadTailProperties
      <4>3. <<h>> \in Seq(Symbols) /\ Len(<<h>>) = 1 /\ <<h>>[1] = h
        BY <3>2
      <4>4. /\ <<h>> \o t \in Seq(Symbols) /\ Len(<<h>> \o t) = 1 + Len(t)
            /\ \A i \in 1..(Len(<<h>>) + Len(t)) :
                 (<<h>> \o t)[i] = IF i <= Len(<<h>>) THEN <<h>>[i] ELSE t[i - Len(<<h>>)]
        BY <3>2, <4>3, ConcatProperties
      <4>5. Len(<<h>> \o t) = Len(s)
        BY <4>1, <4>2, <4>4
      <4>6. ASSUME NEW i \in 1..Len(s) PROVE (<<h>> \o t)[i] = s[i]
        <5>1. CASE i = 1
          BY <4>1, <4>2, <4>3, <4>4, <5>1
        <5>2. CASE i # 1
          <6>1. i - 1 \in 1..Len(t) /\ (i - 1) + 1 = i
            BY <4>1, <4>2, <5>2
          <6>2. t[i - 1] = s[i]
            BY <4>2, <6>1
          <6>3. (<<h>> \o t)[i] = t[i - 1]
            BY <4>1, <4>2, <4>3, <4>4, <5>2
          <6>4. QED
            BY <6>2, <6>3
        <5>3. QED
          BY <5>1, <5>2
      <4> HIDE DEF h, t
      <4>7. s = <<h>> \o t
        BY <4>1, <4>4, <4>5, <4>6, SeqEqual
      <4>8. QED
        BY <4>7 DEF h, t
    <3>4. <<Head(s)>> \in Texts /\ Tail(s) \in Texts /\ <<Head(s)>> \in Letters(S)
      BY <3>1, <3>2 DEF Texts, Letters
    <3>5. <<Head(s)>> \o Tail(s) \in Letters(S) ** Seq(S)
      BY <3>1, <3>4, CatHas, Zenon
    <3>6. QED
      BY <3>3, <3>5
  <2>3. QED
    BY <2>1, <2>2
<1>3. ASSUME NEW s \in More
      PROVE  s \in Seq(S) /\ s \in Texts
  <2>1. CASE s = <<>>
    BY <2>1, NoText
  <2>2. CASE s \in Letters(S) ** Seq(S)
    <3>1. Cut(s, Letters(S), Seq(S))
      BY <2>2, CatIs, Zenon
    <3>2. PICK a \in Texts, b \in Texts : a \in Letters(S) /\ b \in Seq(S) /\ s = a \o b
      BY <3>1 DEF Cut
    <3>3. a \in Seq(S)
      <4>1. \A d \in S : <<d>> \in Seq(S)
        OBVIOUS
      <4>2. QED
        BY <3>2, <4>1, Zenon DEF Letters
    <3>4. s \in Seq(S)
      BY <3>2, <3>3
    <3>5. s \in Texts
      BY <3>2, JoinText
    <3>6. QED
      BY <3>4, <3>5
  <2>3. QED
    BY <1>3, <2>1, <2>2
<1>4. Seq(S) \cap Texts = More \cap Texts
  BY <1>2, <1>3
<1>5. Seq(S) ** A = More ** A
  <2> HIDE DEF More
  <2>1. QED
    BY <1>4, CatSame
<1>6. More ** A = ({<<>>} ** A) \cup ((Letters(S) ** Seq(S)) ** A)
  BY CatUnion
<1>7. {<<>>} ** A = A
  <2>1. {<<>>} ** A = A \cap Texts
    BY CatOne
  <2>2. QED
    BY <1>1, <2>1
<1>8. (Letters(S) ** Seq(S)) ** A = Letters(S) ** (Seq(S) ** A)
  BY CatAssoc
<1>9. QED
  BY <1>5, <1>6, <1>7, <1>8

\* What may be there or not.
LEMMA MaybeCat == \A X, A : A \subseteq Texts => Maybe(X) ** A = A \cup (X ** A)
<1> TAKE X, A
<1>1. HAVE A \subseteq Texts
<1>2. Maybe(X) ** A = ({<<>>} ** A) \cup (X ** A)
  BY CatUnion DEF Maybe
<1>3. {<<>>} ** A = A \cap Texts
  BY CatOne
<1>4. QED
  BY <1>1, <1>2, <1>3

-----------------------------------------------------------------------------
\* The grammar's own ways to put texts together, as products.

\* A text cut in three.
LEMMA CutThree ==
  ASSUME NEW s \in Texts, NEW i \in 0..Len(s), NEW j \in i..Len(s)
  PROVE  /\ SubSeq(s, 1, i) \in Texts /\ SubSeq(s, i + 1, j) \in Texts
         /\ SubSeq(s, j + 1, Len(s)) \in Texts
         /\ Len(SubSeq(s, i + 1, j)) = j - i
         /\ s = SubSeq(s, 1, i) \o (SubSeq(s, i + 1, j) \o SubSeq(s, j + 1, Len(s)))
<1>1. /\ s \in Seq(Symbols) /\ Len(s) \in Nat /\ i \in Nat /\ j \in Nat /\ i <= j /\ j <= Len(s)
      /\ j \in 0..Len(s)
  BY DEF Texts
<1>2. SubSeq(s, 1, i) \in Texts /\ s = SubSeq(s, 1, i) \o SubSeq(s, i + 1, Len(s))
  BY CutIs
<1>3. SubSeq(s, j + 1, Len(s)) \in Texts
  BY <1>1, CutIs
<1>4. SubSeq(s, i + 1, j) \in Texts /\ Len(SubSeq(s, i + 1, j)) = j - i
  <2>1. \A k \in (i + 1)..j : s[k] \in Symbols
    BY <1>1
  <2>2. /\ SubSeq(s, i + 1, j) \in Seq(Symbols)
        /\ Len(SubSeq(s, i + 1, j)) = IF i + 1 <= j THEN j - (i + 1) + 1 ELSE 0
    BY <1>1, <2>1, SubSeqProperties
  <2>3. QED
    BY <1>1, <2>2 DEF Texts
<1>5. SubSeq(s, i + 1, j) \o SubSeq(s, j + 1, Len(s)) = SubSeq(s, i + 1, Len(s))
  <2>1. PICK m : m = i + 1
    OBVIOUS
  <2>2. m \in 1..(Len(s) + 1) /\ j \in (m - 1)..Len(s) /\ Len(s) \in j..Len(s)
    BY <1>1, <2>1
  <2>3. SubSeq(s, m, j) \o SubSeq(s, j + 1, Len(s)) = SubSeq(s, m, Len(s))
    BY <1>1, <2>2, ConcatAdjacentSubSeq
  <2>4. QED
    BY <2>1, <2>3
<1>6. QED
  BY <1>2, <1>3, <1>4, <1>5

\* Where three texts meet.
Meet(s, a, b, c) ==
  /\ s \in Texts
  /\ Len(a) \in 0..Len(s) /\ Len(a) + Len(b) \in 0..Len(s)
  /\ SubSeq(s, 1, Len(a)) = a
  /\ SubSeq(s, Len(a) + 1, Len(a) + Len(b)) = b
  /\ SubSeq(s, Len(a) + Len(b) + 1, Len(s)) = c

\* Three texts put together meet at two places.
LEMMA JoinThree == \A a, b, c \in Texts : Meet(a \o (b \o c), a, b, c)
<1> TAKE a, b, c \in Texts
<1>0. PICK s : s = a \o (b \o c)
  OBVIOUS
<1> SUFFICES Meet(s, a, b, c)
  BY <1>0
<1>1. Len(a) \in Nat /\ Len(b) \in Nat /\ Len(c) \in Nat
  BY DEF Texts
<1> DEFINE r == b \o c
           p == a \o b
           i == Len(a)
           j == Len(a) + Len(b)
           m == SubSeq(s, i + 1, j)
<1>2. r \in Texts /\ Len(r) = Len(b) + Len(c)
  BY JoinIs
<1>3. p \in Texts /\ Len(p) = Len(a) + Len(b)
  BY JoinIs
<1>4. s = p \o c
  BY <1>0, JoinAssoc
<1>5. s \in Texts /\ Len(s) = Len(a) + Len(r) /\ i \in 0..Len(s) /\ SubSeq(s, 1, i) = a
  <2> HIDE DEF r
  <2>1. s = a \o r
    BY <1>0 DEF r
  <2>2. /\ a \o r \in Texts /\ Len(a \o r) = Len(a) + Len(r)
        /\ Len(a) \in 0..Len(a \o r) /\ SubSeq(a \o r, 1, Len(a)) = a
    BY <1>2, JoinIs
  <2>3. QED
    BY <2>1, <2>2
<1>6. Len(p) \in 0..Len(s) /\ SubSeq(s, Len(p) + 1, Len(s)) = c
  <2> HIDE DEF p
  <2>1. Len(p) \in 0..Len(p \o c) /\ SubSeq(p \o c, Len(p) + 1, Len(p \o c)) = c
    BY <1>3, JoinIs
  <2>2. QED
    BY <1>4, <2>1
<1>7. m = b
  <2>1. s \in Seq(Symbols) /\ b \in Seq(Symbols) /\ Len(s) = Len(a) + (Len(b) + Len(c))
    BY <1>2, <1>5 DEF Texts
  <2>2. /\ m \in Seq(Symbols) /\ Len(m) = Len(b)
        /\ \A k \in 1..Len(b) : m[k] = s[i + k]
    <3>1. \A k \in (i + 1)..j : s[k] \in Symbols
      BY <1>1, <2>1
    <3>2. /\ m \in Seq(Symbols)
          /\ Len(m) = IF i + 1 <= j THEN j - (i + 1) + 1 ELSE 0
          /\ \A k \in 1..(j - (i + 1) + 1) : m[k] = s[i + 1 + k - 1]
      BY <1>1, <3>1, SubSeqProperties
    <3> HIDE DEF m
    <3>3. j - (i + 1) + 1 = Len(b) /\ (i + 1 <= j <=> Len(b) # 0)
      BY <1>1
    <3>4. \A k \in 1..Len(b) : m[k] = s[i + k]
      <4>1. \A k \in 1..Len(b) : m[k] = s[i + 1 + k - 1]
        BY <3>2, <3>3
      <4>2. \A k \in 1..Len(b) : i + 1 + k - 1 = i + k
        BY <1>1
      <4>3. QED
        BY <4>1, <4>2
    <3>5. Len(m) = Len(b)
      BY <1>1, <3>2, <3>3
    <3>6. QED
      BY <3>2, <3>4, <3>5
  <2>3. ASSUME NEW k \in 1..Len(b) PROVE s[i + k] = b[k]
    <3>1. s[i + k] = r[k]
      <4>1. /\ a \in Seq(Symbols) /\ r \in Seq(Symbols)
        BY <1>2 DEF Texts
      <4>2. \A n \in 1..(Len(a) + Len(r)) : (a \o r)[n] = IF n <= Len(a) THEN a[n] ELSE r[n - Len(a)]
        BY <4>1, ConcatProperties
      <4>3. i + k \in 1..(Len(a) + Len(r)) /\ ~(i + k <= Len(a)) /\ (i + k) - Len(a) = k
        BY <1>1, <1>2
      <4>4. QED
        BY <1>0, <4>2, <4>3
    <3>2. r[k] = b[k]
      <4>1. /\ b \in Seq(Symbols) /\ c \in Seq(Symbols)
        BY DEF Texts
      <4>2. \A n \in 1..(Len(b) + Len(c)) : (b \o c)[n] = IF n <= Len(b) THEN b[n] ELSE c[n - Len(b)]
        BY <4>1, ConcatProperties
      <4>3. k \in 1..(Len(b) + Len(c)) /\ k <= Len(b)
        BY <1>1
      <4>4. QED
        BY <4>2, <4>3
    <3>3. QED
      BY <3>1, <3>2
  <2> HIDE DEF m
  <2>4. QED
    BY <2>1, <2>2, <2>3, SeqEqual
<1>8. QED
  BY <1>1, <1>2, <1>3, <1>5, <1>6, <1>7 DEF Meet

\* One character of a text, as a text.
LEMMA SubOne ==
  ASSUME NEW s \in Texts, NEW n \in 1..Len(s)
  PROVE  SubSeq(s, n, n) = <<s[n]>> /\ s[n] \in Symbols
<1>1. s \in Seq(Symbols) /\ Len(s) \in Nat /\ n \in Int /\ s[n] \in Symbols
  BY DEF Texts
<1>2. \A k \in n..n : s[k] \in Symbols
  BY <1>1
<1>3. /\ SubSeq(s, n, n) \in Seq(Symbols)
      /\ Len(SubSeq(s, n, n)) = IF n <= n THEN n - n + 1 ELSE 0
      /\ \A i \in 1..(n - n + 1) : SubSeq(s, n, n)[i] = s[n + i - 1]
  BY <1>1, <1>2, SubSeqProperties
<1>4. Len(SubSeq(s, n, n)) = 1 /\ SubSeq(s, n, n)[1] = s[n]
  BY <1>1, <1>3
<1>5. <<s[n]>> \in Seq(Symbols) /\ Len(<<s[n]>>) = 1 /\ <<s[n]>>[1] = s[n]
  BY <1>1
<1> DEFINE x == SubSeq(s, n, n)
           y == <<s[n]>>
<1> HIDE DEF x, y
<1>6. x \in Seq(Symbols) /\ y \in Seq(Symbols) /\ Len(x) = Len(y) /\ \A i \in 1..Len(x) : x[i] = y[i]
  <2>1. x \in Seq(Symbols) /\ Len(x) = 1 /\ x[1] = s[n]
    BY <1>3, <1>4 DEF x
  <2>2. y \in Seq(Symbols) /\ Len(y) = 1 /\ y[1] = s[n]
    BY <1>5 DEF y
  <2>3. \A i \in 1..Len(x) : i = 1
    BY <2>1
  <2>4. QED
    BY <2>1, <2>2, <2>3
<1>7. x = y
  BY <1>6, SeqEqual
<1>8. QED
  BY <1>1, <1>7 DEF x, y

\* A text of one character.
LEMMA OneText ==
  ASSUME NEW c, NEW a \in Texts, a \in Letter(c)
  PROVE  a = <<c>> /\ c \in Symbols /\ Len(a) = 1 /\ a[1] = c
<1>1. a = <<c>>
  BY DEF Letter, Letters
<1>2. \A i \in 1..Len(a) : a[i] \in Symbols
  BY DEF Texts
<1>3. Len(<<c>>) = 1 /\ <<c>>[1] = c
  OBVIOUS
<1>4. QED
  BY <1>1, <1>2, <1>3

\* Where a product of three is cut.
CutAt(s, i, j, A, B, C) ==
  /\ i <= j /\ SubSeq(s, 1, i) \in A
  /\ SubSeq(s, i + 1, j) \in B /\ SubSeq(s, j + 1, Len(s)) \in C

\* A product of three, by the two places.
LEMMA CatThree ==
  \A A, B, C, s : s \in A ** (B ** C) <=>
    s \in Texts /\ \E i \in 0..Len(s), j \in 0..Len(s) : CutAt(s, i, j, A, B, C)
<1> TAKE A, B, C, s
<1>1. ASSUME s \in A ** (B ** C)
      PROVE  s \in Texts /\ \E i \in 0..Len(s), j \in 0..Len(s) : CutAt(s, i, j, A, B, C)
  <2>1. Cut(s, A, B ** C)
    BY <1>1, CatIs, Zenon
  <2>2. PICK a \in Texts, r \in Texts : a \in A /\ r \in B ** C /\ s = a \o r
    BY <2>1 DEF Cut
  <2>3. Cut(r, B, C)
    BY <2>2, CatIs, Zenon
  <2>4. PICK b \in Texts, c \in Texts : b \in B /\ c \in C /\ r = b \o c
    BY <2>3 DEF Cut
  <2>5. a \in Texts /\ b \in Texts /\ c \in Texts /\ s = a \o (b \o c)
    BY <2>2, <2>4
  <2>6. /\ s \in Texts
        /\ Len(a) \in 0..Len(s) /\ Len(a) + Len(b) \in 0..Len(s)
        /\ SubSeq(s, 1, Len(a)) = a
        /\ SubSeq(s, Len(a) + 1, Len(a) + Len(b)) = b
        /\ SubSeq(s, Len(a) + Len(b) + 1, Len(s)) = c
    <3>1. Meet(a \o (b \o c), a, b, c)
      BY <2>5, JoinThree
    <3>2. QED
      BY <2>5, <3>1 DEF Meet
  <2>7. Len(a) <= Len(a) + Len(b)
    BY <2>5 DEF Texts
  <2>8. CutAt(s, Len(a), Len(a) + Len(b), A, B, C)
    BY <2>2, <2>4, <2>6, <2>7 DEF CutAt
  <2>9. QED
    BY <2>6, <2>8
<1>2. ASSUME s \in Texts, NEW i \in 0..Len(s), NEW j \in 0..Len(s), CutAt(s, i, j, A, B, C)
      PROVE  s \in A ** (B ** C)
  <2> DEFINE a == SubSeq(s, 1, i)
             b == SubSeq(s, i + 1, j)
             c == SubSeq(s, j + 1, Len(s))
  <2>1. i \in Nat /\ j \in i..Len(s)
    BY <1>2 DEF CutAt, Texts
  <2>2. a \in Texts /\ b \in Texts /\ c \in Texts /\ s = a \o (b \o c)
    BY <1>2, <2>1, CutThree
  <2>3. a \in A /\ b \in B /\ c \in C
    BY <1>2 DEF CutAt
  <2> HIDE DEF a, b, c
  <2>4. b \o c \in Texts /\ b \o c \in B ** C
    BY <2>2, <2>3, JoinText, CatHas
  <2>5. a \o (b \o c) \in A ** (B ** C)
    BY <2>2, <2>3, <2>4, CatHas
  <2>6. QED
    BY <2>2, <2>5
<1>3. QED
  BY <1>1, <1>2

\* The languages of the grammar as products.
LEMMA PaddedIs == \A A : Padded(A) = Blank ** (A ** Blank)
<1> TAKE A
<1>1. \A s : s \in Padded(A) <=>
        s \in Texts /\ \E i \in 0..Len(s), j \in 0..Len(s) : CutAt(s, i, j, Blank, A, Blank)
  BY DEF Padded, CutAt
<1>2. \A s : s \in Blank ** (A ** Blank) <=>
        s \in Texts /\ \E i \in 0..Len(s), j \in 0..Len(s) : CutAt(s, i, j, Blank, A, Blank)
  BY CatThree
<1>3. QED
  BY <1>1, <1>2

\* With a character between them.
LEMMA SeparatedIs == \A A, c, B : Separated(A, c, B) = A ** (Letter(c) ** B)
<1> TAKE A, c, B
<1>1. ASSUME NEW s \in Separated(A, c, B)
      PROVE  s \in A ** (Letter(c) ** B)
  <2>1. s \in Texts
    BY DEF Separated
  <2>2. PICK n \in 1..Len(s) :
          s[n] = c /\ SubSeq(s, 1, n - 1) \in A /\ SubSeq(s, n + 1, Len(s)) \in B
    BY DEF Separated
  <2>3. Len(s) \in Nat /\ n - 1 \in 0..Len(s) /\ n \in 0..Len(s) /\ n - 1 <= n /\ (n - 1) + 1 = n
    BY <2>1 DEF Texts
  <2>4. SubSeq(s, n, n) \in Letter(c)
    BY <2>1, <2>2, SubOne DEF Letter, Letters
  <2>5. CutAt(s, n - 1, n, A, Letter(c), B)
    BY <2>2, <2>3, <2>4 DEF CutAt
  <2>6. QED
    BY <2>1, <2>3, <2>5, CatThree
<1>2. ASSUME NEW s \in A ** (Letter(c) ** B)
      PROVE  s \in Separated(A, c, B)
  <2>1. s \in Texts /\ \E i \in 0..Len(s), j \in 0..Len(s) : CutAt(s, i, j, A, Letter(c), B)
    BY CatThree
  <2>2. PICK i \in 0..Len(s), j \in 0..Len(s) : CutAt(s, i, j, A, Letter(c), B)
    BY <2>1
  <2>3. i \in Nat /\ j \in i..Len(s) /\ Len(s) \in Nat
    BY <2>1, <2>2 DEF CutAt, Texts
  <2>4. SubSeq(s, i + 1, j) \in Texts /\ Len(SubSeq(s, i + 1, j)) = j - i
    BY <2>1, <2>3, CutThree
  <2>5. SubSeq(s, i + 1, j) \in Letter(c)
    BY <2>2 DEF CutAt
  <2>6. SubSeq(s, i + 1, j) = <<c>> /\ Len(SubSeq(s, i + 1, j)) = 1 /\ c \in Symbols
    BY <2>4, <2>5, OneText
  <2>7. j = i + 1 /\ j \in 1..Len(s) /\ j - 1 = i
    BY <2>3, <2>4, <2>6
  <2>8. s[j] = c
    <3>1. SubSeq(s, j, j) = <<s[j]>>
      BY <2>1, <2>7, SubOne
    <3>2. <<s[j]>> = <<c>>
      BY <2>6, <2>7, <3>1
    <3>3. QED
      BY <3>2
  <2>9. SubSeq(s, 1, j - 1) \in A /\ SubSeq(s, j + 1, Len(s)) \in B
    BY <2>2, <2>7 DEF CutAt
  <2>10. QED
    BY <2>1, <2>7, <2>8, <2>9 DEF Separated
<1>3. QED
  BY <1>1, <1>2

\* With a character before and one after.
LEMMA EnclosedIs == \A c, A, d : Enclosed(c, A, d) = Letter(c) ** (A ** Letter(d))
<1> TAKE c, A, d
<1>1. ASSUME NEW s \in Enclosed(c, A, d)
      PROVE  s \in Letter(c) ** (A ** Letter(d))
  <2>1. /\ s \in Texts /\ Len(s) > 1 /\ s[1] = c /\ s[Len(s)] = d
        /\ SubSeq(s, 2, Len(s) - 1) \in A
    BY DEF Enclosed
  <2>2. /\ Len(s) \in Nat /\ 1 \in 0..Len(s) /\ Len(s) - 1 \in 0..Len(s) /\ 1 <= Len(s) - 1
        /\ (Len(s) - 1) + 1 = Len(s) /\ 1 + 1 = 2 /\ 1 \in 1..Len(s) /\ Len(s) \in 1..Len(s)
    BY <2>1 DEF Texts
  <2>3. SubSeq(s, 1, 1) \in Letter(c)
    BY <2>1, <2>2, SubOne DEF Letter, Letters
  <2>4. SubSeq(s, Len(s), Len(s)) \in Letter(d)
    BY <2>1, <2>2, SubOne DEF Letter, Letters
  <2>5. CutAt(s, 1, Len(s) - 1, Letter(c), A, Letter(d))
    BY <2>1, <2>2, <2>3, <2>4 DEF CutAt
  <2>6. QED
    BY <2>1, <2>2, <2>5, CatThree
<1>2. ASSUME NEW s \in Letter(c) ** (A ** Letter(d))
      PROVE  s \in Enclosed(c, A, d)
  <2>1. s \in Texts /\ \E i \in 0..Len(s), j \in 0..Len(s) : CutAt(s, i, j, Letter(c), A, Letter(d))
    BY CatThree
  <2>2. PICK i \in 0..Len(s), j \in 0..Len(s) : CutAt(s, i, j, Letter(c), A, Letter(d))
    BY <2>1
  <2>3. i \in Nat /\ j \in Nat /\ i <= j /\ Len(s) \in Nat
    BY <2>1, <2>2 DEF CutAt, Texts
  <2>4. /\ SubSeq(s, 1, i) \in Texts /\ Len(SubSeq(s, 1, i)) = i
        /\ SubSeq(s, j + 1, Len(s)) \in Texts /\ Len(SubSeq(s, j + 1, Len(s))) = Len(s) - j
    BY <2>1, CutIs
  <2>5. SubSeq(s, 1, i) \in Letter(c) /\ SubSeq(s, j + 1, Len(s)) \in Letter(d)
        /\ SubSeq(s, i + 1, j) \in A
    BY <2>2 DEF CutAt
  <2>6. SubSeq(s, 1, i) = <<c>> /\ Len(SubSeq(s, 1, i)) = 1
    BY <2>4, <2>5, OneText
  <2>7. SubSeq(s, j + 1, Len(s)) = <<d>> /\ Len(SubSeq(s, j + 1, Len(s))) = 1
    BY <2>4, <2>5, OneText
  <2>8. i = 1 /\ j = Len(s) - 1 /\ j + 1 = Len(s) /\ Len(s) > 1
        /\ 1 \in 1..Len(s) /\ Len(s) \in 1..Len(s) /\ i + 1 = 2
    BY <2>3, <2>4, <2>6, <2>7
  <2>9. s[1] = c
    <3>1. SubSeq(s, 1, 1) = <<s[1]>>
      BY <2>1, <2>8, SubOne
    <3>2. <<s[1]>> = <<c>>
      BY <2>6, <2>8, <3>1
    <3>3. QED
      BY <3>2
  <2>10. s[Len(s)] = d
    <3>1. SubSeq(s, Len(s), Len(s)) = <<s[Len(s)]>>
      BY <2>1, <2>8, SubOne
    <3>2. <<s[Len(s)]>> = <<d>>
      BY <2>7, <2>8, <3>1
    <3>3. QED
      BY <3>2
  <2>11. SubSeq(s, 2, Len(s) - 1) \in A
    BY <2>5, <2>8
  <2>12. QED
    BY <2>1, <2>8, <2>9, <2>10, <2>11 DEF Enclosed
<1>3. QED
  BY <1>1, <1>2

-----------------------------------------------------------------------------
\* Recursion over the numbers.

\* n steps of f from a.
Run(h, n, S, a, f) ==
  h \in [0..n -> S] /\ h[0] = a /\ \A i \in 0..(n - 1) : h[i + 1] = f[h[i]]

\* What f does step by step from a is a function.
LEMMA IterExists ==
  ASSUME NEW S, NEW a \in S, NEW f \in [S -> S]
  PROVE  \E g \in [Nat -> S] : g[0] = a /\ \A n \in Nat : g[n + 1] = f[g[n]]
<1> DEFINE R(h, n) == Run(h, n, S, a, f)
           Some == {n \in Nat : \E h : R(h, n)}
           Same == {i \in Nat : \A m, n \in Nat : \A h, k :
                      i <= m /\ i <= n /\ R(h, m) /\ R(k, n) => h[i] = k[i]}
<1>1. 0 \in Some
  <2> DEFINE h == [i \in 0..0 |-> a]
  <2>1. h \in [0..0 -> S] /\ h[0] = a /\ \A i \in 0..(0 - 1) : h[i + 1] = f[h[i]]
    OBVIOUS
  <2> HIDE DEF h
  <2>2. R(h, 0)
    BY <2>1 DEF Run
  <2>3. QED
    BY <2>2
<1>2. ASSUME NEW n \in Nat, n \in Some
      PROVE  n + 1 \in Some
  <2>1. PICK h : R(h, n)
    BY <1>2
  <2>2. h \in [0..n -> S] /\ h[0] = a /\ \A i \in 0..(n - 1) : h[i + 1] = f[h[i]]
    BY <2>1 DEF Run
  <2> DEFINE k == [i \in 0..(n + 1) |-> IF i = n + 1 THEN f[h[n]] ELSE h[i]]
  <2>3. k \in [0..(n + 1) -> S] /\ k[0] = a
    BY <2>2
  <2>4. ASSUME NEW i \in 0..((n + 1) - 1)
        PROVE  k[i + 1] = f[k[i]]
    <3>1. CASE i = n
      BY <3>1
    <3>2. CASE i # n
      <4>1. i \in 0..(n - 1) /\ i + 1 \in 0..n
        BY <3>2
      <4>2. QED
        BY <2>2, <4>1
    <3>3. QED
      BY <3>1, <3>2
  <2> HIDE DEF k
  <2>5. R(k, n + 1)
    BY <2>3, <2>4 DEF Run
  <2>6. QED
    BY <2>5
<1>3. \A n \in Nat : n \in Some
  <2> HIDE DEF Some
  <2>1. QED
    BY <1>1, <1>2, NaturalInduction
<1>4. 0 \in Same
  BY DEF Run
<1>5. ASSUME NEW i \in Nat, i \in Same
      PROVE  i + 1 \in Same
  <2>1. SUFFICES ASSUME NEW m \in Nat, NEW n \in Nat, NEW h, NEW k,
                        i + 1 <= m, i + 1 <= n, R(h, m), R(k, n)
                 PROVE  h[i + 1] = k[i + 1]
    BY <1>5
  <2>2. i \in 0..(m - 1) /\ i \in 0..(n - 1) /\ i <= m /\ i <= n
    BY <2>1
  <2>3. h[i] = k[i]
    BY <1>5, <2>1, <2>2
  <2>4. h[i + 1] = f[h[i]] /\ k[i + 1] = f[k[i]]
    BY <2>1, <2>2 DEF Run
  <2>5. QED
    BY <2>3, <2>4
<1>6. \A n \in Nat : n \in Same
  <2> HIDE DEF Same
  <2>1. QED
    BY <1>4, <1>5, NaturalInduction
<1> DEFINE c(n) == CHOOSE h : R(h, n)
           g == [n \in Nat |-> c(n)[n]]
<1>7. \A n \in Nat : R(c(n), n)
  BY <1>3
<1>8. ASSUME NEW n \in Nat
      PROVE  c(n)[n] \in S /\ c(0)[0] = a /\ c(n + 1)[n + 1] = f[c(n)[n]]
  <2>1. R(c(n), n) /\ R(c(0), 0) /\ R(c(n + 1), n + 1)
    BY <1>7
  <2> HIDE DEF c
  <2>2. n \in 0..n /\ n \in 0..((n + 1) - 1) /\ n <= n + 1 /\ n <= n /\ n + 1 \in Nat
    OBVIOUS
  <2>3. c(n)[n] \in S /\ c(0)[0] = a /\ c(n + 1)[n + 1] = f[c(n + 1)[n]]
    BY <2>1, <2>2 DEF Run
  <2>4. c(n + 1)[n] = c(n)[n]
    BY <1>6, <2>1, <2>2
  <2>5. QED
    BY <2>3, <2>4
<1> HIDE DEF c
<1>9. g \in [Nat -> S] /\ g[0] = a
  BY <1>8
<1>10. \A n \in Nat : g[n + 1] = f[g[n]]
  BY <1>8
<1>11. QED
  BY <1>9, <1>10

\* The same for a function on languages.
LEMMA LangIter ==
  ASSUME NEW f \in [SUBSET Texts -> SUBSET Texts], NEW A \in SUBSET Texts
  PROVE  \E g \in [Nat -> SUBSET Texts] : g[0] = A /\ \A n \in Nat : g[n + 1] = f[g[n]]
<1>1. PICK S : S = SUBSET Texts
  OBVIOUS
<1>2. A \in S /\ f \in [S -> S]
  BY <1>1
<1>3. \E g \in [Nat -> S] : g[0] = A /\ \A n \in Nat : g[n + 1] = f[g[n]]
  BY <1>2, IterExists
<1>4. QED
  BY <1>1, <1>3

\* f looks at shorter texts only.
Shrinks(f) ==
  \A E, F \in SUBSET Texts : \A s \in Texts :
    (\A y \in Texts : Len(y) < Len(s) => (y \in E => y \in F)) /\ s \in f[E] => s \in f[F]

\* The texts that so many steps of such an f reach as they have characters are its
\* fixed point.
LEMMA FixIs ==
  ASSUME NEW f \in [SUBSET Texts -> SUBSET Texts], Shrinks(f),
         NEW g \in [Nat -> SUBSET Texts], g[0] = {}, \A n \in Nat : g[n + 1] = f[g[n]]
  PROVE  LET L == {s \in Texts : s \in g[Len(s) + 1]} IN L = f[L]
<1> DEFINE L == {s \in Texts : s \in g[Len(s) + 1]}
           Agree == {n \in Nat : \A m \in Nat : m >= n =>
                       \A s \in Texts : Len(s) < n => (s \in g[m] <=> s \in g[n])}
<1>1. \A s \in Texts : Len(s) \in Nat
  BY DEF Texts
<1>2. \A E, F \in SUBSET Texts : \A s \in Texts :
        (\A y \in Texts : Len(y) < Len(s) => (y \in E <=> y \in F)) => (s \in f[E] <=> s \in f[F])
  BY DEF Shrinks
<1>3. 0 \in Agree
  BY <1>1
<1>4. ASSUME NEW n \in Nat, n \in Agree
      PROVE  n + 1 \in Agree
  <2>1. SUFFICES ASSUME NEW m \in Nat, m >= n + 1, NEW s \in Texts, Len(s) < n + 1
                 PROVE  s \in g[m] <=> s \in g[n + 1]
    OBVIOUS
  <2>2. m - 1 \in Nat /\ (m - 1) + 1 = m /\ m - 1 >= n
    BY <2>1
  <2>3. g[m] = f[g[m - 1]] /\ g[n + 1] = f[g[n]] /\ g[m - 1] \in SUBSET Texts /\ g[n] \in SUBSET Texts
    BY <2>2
  <2>4. ASSUME NEW y \in Texts, Len(y) < Len(s)
        PROVE  y \in g[m - 1] <=> y \in g[n]
    <3>1. Len(y) < n
      BY <1>1, <2>1, <2>4
    <3>2. QED
      BY <1>4, <2>2, <3>1
  <2>5. s \in f[g[m - 1]] <=> s \in f[g[n]]
    BY <1>2, <2>3, <2>4
  <2>6. QED
    BY <2>3, <2>5
<1>5. \A n \in Nat : n \in Agree
  <2> HIDE DEF Agree
  <2>1. QED
    BY <1>3, <1>4, NaturalInduction
<1>6. ASSUME NEW s \in Texts
      PROVE  s \in L <=> s \in f[L]
  <2>1. Len(s) \in Nat
    BY <1>1
  <2>2. g[Len(s) + 1] = f[g[Len(s)]] /\ g[Len(s)] \in SUBSET Texts
    BY <2>1
  <2>3. ASSUME NEW y \in Texts, Len(y) < Len(s)
        PROVE  y \in g[Len(s)] <=> y \in L
    <3>0. Len(y) \in Nat /\ Len(y) < Len(s)
      BY <1>1, <2>3
    <3>1. Len(y) + 1 \in Nat /\ Len(s) >= Len(y) + 1 /\ Len(y) < Len(y) + 1
      <4>1. \A a, b \in Nat : a < b => a + 1 \in Nat /\ b >= a + 1 /\ a < a + 1
        OBVIOUS
      <4> HIDE DEF L
      <4>2. QED
        BY <2>1, <3>0, <4>1
    <3>2. y \in g[Len(s)] <=> y \in g[Len(y) + 1]
      BY <1>5, <2>1, <3>1
    <3>3. QED
      BY <3>2
  <2>4. L \in SUBSET Texts
    OBVIOUS
  <2> HIDE DEF L
  <2>5. s \in f[g[Len(s)]] <=> s \in f[L]
    BY <1>2, <2>2, <2>3, <2>4
  <2>6. s \in L <=> s \in g[Len(s) + 1]
    BY DEF L
  <2>7. QED
    BY <2>2, <2>5, <2>6
<1>7. L \subseteq Texts /\ f[L] \subseteq Texts
  <2>1. L \in SUBSET Texts
    OBVIOUS
  <2> HIDE DEF L
  <2>2. QED
    BY <2>1
<1> HIDE DEF L
<1>8. L = f[L]
  BY <1>6, <1>7
<1>9. QED
  BY <1>8 DEF L

-----------------------------------------------------------------------------
\* The grammar's recursive parts are what their equations say.

\* No character is nothing.
LEMMA CharNotNone == <<>> \notin Char
<1>1. <<>> \notin Letters(Plain)
  <2>1. \A c : <<c>> # <<>>
    OBVIOUS
  <2>2. QED
    BY <2>1 DEF Letters
<1>2. <<>> \notin Letter("backslash") ** Letters(Escapes)
  BY FirstNotNone DEF Letter
<1>3. QED
  BY <1>1, <1>2 DEF Char

\* The second of two parts is shorter when the first is not empty.
LEMMA RestShorter ==
  \A a, b \in Texts : a # <<>> => Len(b) < Len(a \o b)
<1> TAKE a, b \in Texts
<1>1. HAVE a # <<>>
<1>2. Len(a) \in Nat /\ Len(b) \in Nat /\ Len(a) # 0
  BY <1>1 DEF Texts
<1>3. Len(a \o b) = Len(a) + Len(b)
  BY JoinIs
<1>4. QED
  BY <1>2, <1>3

\* A string's characters: none, or one and more.
LEMMA BodyIs == Body = {<<>>} \cup (Char ** Body)
<1> DEFINE f == [E \in SUBSET Texts |-> {<<>>} \cup (Char ** E)]
           Made1(g) == g = [n \in Nat |-> IF n = 0 THEN {} ELSE {<<>>} \cup (Char ** g[n - 1])]
<1>1. f \in [SUBSET Texts -> SUBSET Texts]
  BY CatTexts, NoText
<1>2. ASSUME NEW E \in SUBSET Texts, NEW F \in SUBSET Texts, NEW s \in Texts,
             \A y \in Texts : Len(y) < Len(s) => (y \in E => y \in F), s \in Char ** E
      PROVE  s \in Char ** F
  <2>1. Cut(s, Char, E)
    BY <1>2, CatIs, Zenon
  <2>2. PICK a \in Texts, b \in Texts : a \in Char /\ b \in E /\ s = a \o b
    BY <2>1 DEF Cut
  <2>3. a # <<>>
    BY <2>2, CharNotNone
  <2>4. Len(b) < Len(a \o b)
    BY <2>3, RestShorter
  <2>5. b \in F
    BY <1>2, <2>2, <2>4
  <2>6. a \o b \in Char ** F
    BY <2>2, <2>5, CatHas
  <2>7. QED
    BY <2>2, <2>6
<1>3. Shrinks(f)
  <2>1. ASSUME NEW E \in SUBSET Texts, NEW F \in SUBSET Texts, NEW s \in Texts,
               \A y \in Texts : Len(y) < Len(s) => (y \in E => y \in F), s \in f[E]
        PROVE  s \in f[F]
    <3>1. s \in {<<>>} \cup (Char ** E)
      BY <2>1
    <3>2. s \in {<<>>} \cup (Char ** F)
      BY <1>2, <2>1, <3>1
    <3>3. QED
      BY <3>2
  <2> HIDE DEF f
  <2>2. QED
    BY <2>1 DEF Shrinks
<1>4. PICK h \in [Nat -> SUBSET Texts] : h[0] = {} /\ \A n \in Nat : h[n + 1] = f[h[n]]
  <2>1. {} \in SUBSET Texts
    OBVIOUS
  <2> HIDE DEF f
  <2>2. QED
    BY <1>1, <2>1, LangIter
<1>5. Made1(h)
  <2>1. ASSUME NEW n \in Nat
        PROVE  h[n] = IF n = 0 THEN {} ELSE {<<>>} \cup (Char ** h[n - 1])
    <3>1. CASE n = 0
      BY <1>4, <3>1
    <3>2. CASE n # 0
      <4>1. n - 1 \in Nat /\ (n - 1) + 1 = n
        BY <3>2
      <4>2. h[n] = f[h[n - 1]] /\ h[n - 1] \in SUBSET Texts
        BY <1>4, <4>1
      <4>3. QED
        BY <3>2, <4>2
    <3>3. QED
      BY <3>1, <3>2
  <2>2. h = [n \in Nat |-> h[n]]
    BY <1>4
  <2>3. QED
    BY <2>1, <2>2
<1>6. Chars = CHOOSE g : Made1(g)
  BY DEF Chars
<1>7. Made1(Chars)
  <2> HIDE DEF Made1
  <2>1. QED
    BY <1>5, <1>6
<1>8. Chars[0] = {} /\ \A n \in Nat : Chars[n + 1] = {<<>>} \cup (Char ** Chars[n])
  <2> DEFINE step(n) == IF n = 0 THEN {} ELSE {<<>>} \cup (Char ** Chars[n - 1])
  <2>1. Chars = [n \in Nat |-> step(n)]
    BY <1>7
  <2> HIDE DEF step
  <2>2. \A n \in Nat : Chars[n] = step(n)
    BY <2>1
  <2>3. \A n \in Nat : n + 1 \in Nat /\ n + 1 # 0 /\ (n + 1) - 1 = n
    OBVIOUS
  <2>4. QED
    BY <2>2, <2>3 DEF step
<1>9. DOMAIN Chars = Nat /\ Chars = [n \in Nat |-> Chars[n]]
  BY <1>7
<1>10. \A n \in Nat : Chars[n] \in SUBSET Texts
  <2>1. \A E : {<<>>} \cup (Char ** E) \in SUBSET Texts
    BY CatTexts, NoText
  <2>2. ASSUME NEW n \in Nat PROVE Chars[n] \in SUBSET Texts
    <3>1. CASE n = 0
      BY <1>8, <3>1
    <3>2. CASE n # 0
      <4>1. n - 1 \in Nat /\ (n - 1) + 1 = n
        BY <3>2
      <4>2. Chars[n] = {<<>>} \cup (Char ** Chars[n - 1])
        BY <1>8, <4>1
      <4>3. QED
        BY <2>1, <4>2
    <3>3. QED
      BY <3>1, <3>2
  <2>3. QED
    BY <2>2
<1>11. Chars \in [Nat -> SUBSET Texts] /\ \A n \in Nat : Chars[n + 1] = f[Chars[n]]
  BY <1>8, <1>9, <1>10
<1>12. Body = f[Body]
  <2> HIDE DEF f
  <2>1. QED
    BY <1>1, <1>3, <1>8, <1>11, FixIs DEF Body
<1>13. QED
  BY <1>12 DEF Body

\* A list that holds a shorter one.
LEMMA ListsShrink ==
  ASSUME NEW E \in SUBSET Texts, NEW F \in SUBSET Texts, NEW s \in Texts,
         \A y \in Texts : Len(y) < Len(s) => (y \in E => y \in F), s \in Lists(E)
  PROVE  s \in Lists(F)
<1>1. \A y \in Texts : Len(y) \in Nat
  BY DEF Texts
<1>2. ASSUME NEW x \in Texts, Len(x) <= Len(s), x \in Value(E)
      PROVE  x \in Value(F)
  <2>1. CASE x \in Enclosed("[", Blank \cup E, "]")
    <3>1. /\ Len(x) > 1 /\ x[1] = "[" /\ x[Len(x)] = "]"
          /\ SubSeq(x, 2, Len(x) - 1) \in Blank \cup E
      BY <2>1 DEF Enclosed
    <3> DEFINE y == SubSeq(x, 1 + 1, Len(x) - 1)
    <3>2. 1 \in 0..Len(x) /\ Len(x) - 1 \in 1..Len(x) /\ 1 + 1 = 2
      BY <1>1, <3>1
    <3>3. y \in Texts /\ Len(y) = (Len(x) - 1) - 1
      BY <3>2, CutThree
    <3>4. y \in Blank \cup E
      BY <3>1, <3>2
    <3> HIDE DEF y
    <3>5. Len(y) < Len(s)
      BY <1>1, <1>2, <3>3
    <3>6. y \in Blank \cup F
      BY <1>2, <3>3, <3>4, <3>5
    <3>7. SubSeq(x, 2, Len(x) - 1) \in Blank \cup F
      BY <3>2, <3>6 DEF y
    <3>8. x \in Enclosed("[", Blank \cup F, "]")
      BY <3>1, <3>7 DEF Enclosed
    <3>9. QED
      BY <3>8 DEF Value
  <2>2. CASE x \notin Enclosed("[", Blank \cup E, "]")
    BY <1>2, <2>2 DEF Value
  <2>3. QED
    BY <2>1, <2>2
<1>3. ASSUME NEW x \in Texts, Len(x) <= Len(s), x \in Padded(Value(E))
      PROVE  x \in Padded(Value(F))
  <2>1. PICK i \in 0..Len(x), j \in 0..Len(x) :
          /\ SubSeq(x, 1, i) \in Blank /\ SubSeq(x, j + 1, Len(x)) \in Blank
          /\ i <= j /\ SubSeq(x, i + 1, j) \in Value(E)
    BY <1>3 DEF Padded
  <2>2. Len(x) \in Nat /\ j \in i..Len(x) /\ j - i <= Len(x)
    BY <1>1, <2>1
  <2>3. SubSeq(x, i + 1, j) \in Texts /\ Len(SubSeq(x, i + 1, j)) = j - i
    BY <2>2, CutThree
  <2>4. Len(SubSeq(x, i + 1, j)) <= Len(s)
    <3>1. Len(x) \in Nat /\ Len(s) \in Nat /\ i \in Nat /\ j \in Nat
      BY <1>1
    <3>2. QED
      BY <1>3, <2>2, <2>3, <3>1
  <2>5. SubSeq(x, i + 1, j) \in Value(F)
    BY <1>2, <2>1, <2>3, <2>4
  <2>6. QED
    BY <2>1, <2>5 DEF Padded
<1>4. CASE s \in Padded(Value(E))
  <2>1. s \in Padded(Value(F))
    BY <1>1, <1>3, <1>4
  <2>2. QED
    BY <2>1 DEF Lists
<1>5. CASE s \in Separated(Padded(Value(E)), ",", E)
  <2>1. PICK n \in 1..Len(s) :
          /\ s[n] = "," /\ SubSeq(s, 1, n - 1) \in Padded(Value(E))
          /\ SubSeq(s, n + 1, Len(s)) \in E
    BY <1>5 DEF Separated
  <2>2. Len(s) \in Nat /\ n - 1 \in 0..Len(s) /\ n \in 0..Len(s) /\ n >= 1
    <3>1. Len(s) \in Nat /\ n \in 1..Len(s)
      BY <1>1
    <3>2. QED
      BY <3>1
  <2>3. SubSeq(s, 1, n - 1) \in Texts /\ Len(SubSeq(s, 1, n - 1)) = n - 1
    BY <2>2, CutIs
  <2>4. SubSeq(s, n + 1, Len(s)) \in Texts /\ Len(SubSeq(s, n + 1, Len(s))) = Len(s) - n
    BY <2>2, CutIs
  <2>5. SubSeq(s, 1, n - 1) \in Padded(Value(F))
    <3>1. Len(SubSeq(s, 1, n - 1)) <= Len(s)
      BY <2>2, <2>3
    <3>2. QED
      BY <1>3, <2>1, <2>3, <3>1
  <2>6. SubSeq(s, n + 1, Len(s)) \in F
    <3>1. Len(SubSeq(s, n + 1, Len(s))) < Len(s)
      BY <2>2, <2>4
    <3>2. QED
      BY <2>1, <2>4, <3>1
  <2>7. s \in Separated(Padded(Value(F)), ",", F)
    BY <2>1, <2>5, <2>6 DEF Separated
  <2>8. QED
    BY <2>7 DEF Lists
<1>6. QED
  BY <1>4, <1>5 DEF Lists

\* Lists are texts.
LEMMA ListsTexts == \A E : Lists(E) \in SUBSET Texts
BY DEF Lists, Padded, Separated

\* A list is an element, or an element, a comma and a list.
LEMMA ListIs == List = Lists(List)
<1> DEFINE f == [E \in SUBSET Texts |-> Lists(E)]
           Made1(g) == g = [n \in Nat |-> IF n = 0 THEN {} ELSE Lists(g[n - 1])]
<1>1. f \in [SUBSET Texts -> SUBSET Texts]
  BY ListsTexts
<1>2. Shrinks(f)
  <2>1. ASSUME NEW E \in SUBSET Texts, NEW F \in SUBSET Texts, NEW s \in Texts,
               \A y \in Texts : Len(y) < Len(s) => (y \in E => y \in F), s \in f[E]
        PROVE  s \in f[F]
    <3>1. s \in Lists(E)
      BY <2>1
    <3>2. s \in Lists(F)
      BY <2>1, <3>1, ListsShrink
    <3>3. QED
      BY <3>2
  <2> HIDE DEF f
  <2>2. QED
    BY <2>1 DEF Shrinks
<1>3. PICK h \in [Nat -> SUBSET Texts] : h[0] = {} /\ \A n \in Nat : h[n + 1] = f[h[n]]
  <2>1. {} \in SUBSET Texts
    OBVIOUS
  <2> HIDE DEF f
  <2>2. QED
    BY <1>1, <2>1, LangIter
<1>4. Made1(h)
  <2>1. ASSUME NEW n \in Nat
        PROVE  h[n] = IF n = 0 THEN {} ELSE Lists(h[n - 1])
    <3>1. CASE n = 0
      BY <1>3, <3>1
    <3>2. CASE n # 0
      <4>1. n - 1 \in Nat /\ (n - 1) + 1 = n
        BY <3>2
      <4>2. h[n] = f[h[n - 1]] /\ h[n - 1] \in SUBSET Texts
        BY <1>3, <4>1
      <4>3. QED
        BY <3>2, <4>2
    <3>3. QED
      BY <3>1, <3>2
  <2>2. h = [n \in Nat |-> h[n]]
    BY <1>3
  <2>3. QED
    BY <2>1, <2>2
<1>5. Listed = CHOOSE g : Made1(g)
  BY DEF Listed
<1>6. Made1(Listed)
  <2> HIDE DEF Made1
  <2>1. QED
    BY <1>4, <1>5
<1>7. Listed[0] = {} /\ \A n \in Nat : Listed[n + 1] = Lists(Listed[n])
  <2> DEFINE step(n) == IF n = 0 THEN {} ELSE Lists(Listed[n - 1])
  <2>1. Listed = [n \in Nat |-> step(n)]
    BY <1>6
  <2> HIDE DEF step
  <2>2. \A n \in Nat : Listed[n] = step(n)
    BY <2>1
  <2>3. \A n \in Nat : n + 1 \in Nat /\ n + 1 # 0 /\ (n + 1) - 1 = n
    OBVIOUS
  <2>4. QED
    BY <2>2, <2>3 DEF step
<1>8. DOMAIN Listed = Nat /\ Listed = [n \in Nat |-> Listed[n]]
  BY <1>6
<1>9. ASSUME NEW n \in Nat PROVE Listed[n] \in SUBSET Texts
  <2>1. CASE n = 0
    BY <1>7, <2>1
  <2>2. CASE n # 0
    <3>1. n - 1 \in Nat /\ (n - 1) + 1 = n
      BY <2>2
    <3>2. Listed[n] = Lists(Listed[n - 1])
      BY <1>7, <3>1
    <3>3. QED
      BY <3>2, ListsTexts
  <2>3. QED
    BY <2>1, <2>2
<1>10. Listed \in [Nat -> SUBSET Texts] /\ \A n \in Nat : Listed[n + 1] = f[Listed[n]]
  BY <1>7, <1>8, <1>9
<1>11. List = f[List]
  <2> HIDE DEF f
  <2>1. QED
    BY <1>1, <1>2, <1>7, <1>10, FixIs DEF List
<1>12. List \in SUBSET Texts
  BY DEF List
<1>13. QED
  BY <1>11, <1>12

-----------------------------------------------------------------------------
\* What may follow a value, inside k arrays.

Val == Value(List)

Follows(g) ==
  /\ g \in [Nat -> SUBSET Texts]
  /\ g[0] = Blank \cap Texts
  /\ \A k \in Nat :
       g[k + 1] = Blank ** ((Letter("]") ** g[k])
                              \cup (Letter(",") ** (List ** (Letter("]") ** g[k]))))

Follow == CHOOSE g : Follows(g)

\* There are such languages.
LEMMA FollowIs == Follows(Follow)
<1> DEFINE f == [A \in SUBSET Texts |->
                   Blank ** ((Letter("]") ** A) \cup (Letter(",") ** (List ** (Letter("]") ** A))))]
<1>1. f \in [SUBSET Texts -> SUBSET Texts]
  BY CatTexts
<1>2. Blank \cap Texts \in SUBSET Texts
  OBVIOUS
<1>3. PICK g \in [Nat -> SUBSET Texts] :
         g[0] = Blank \cap Texts /\ \A n \in Nat : g[n + 1] = f[g[n]]
  <2> HIDE DEF f
  <2>1. QED
    BY <1>1, <1>2, LangIter
<1>4. Follows(g)
  <2>1. \A k \in Nat : g[k] \in SUBSET Texts
    BY <1>3
  <2>2. QED
    BY <1>3, <2>1 DEF Follows
<1>5. QED
  BY <1>4 DEF Follow

\* The rest of an array that has been opened, inside k others.
Opened(k) == Blank ** ((Letter("]") ** Follow[k]) \cup (Val ** Follow[k + 1]))

\* Blanks before and after a value, and what comes then.
LEMMA PaddedCat == \A A, X : Padded(A) ** X = Blank ** (A ** (Blank ** X))
<1> TAKE A, X
<1>1. Padded(A) ** X = (Blank ** (A ** Blank)) ** X
  BY PaddedIs
<1>2. (Blank ** (A ** Blank)) ** X = Blank ** ((A ** Blank) ** X)
  BY CatAssoc
<1>3. (A ** Blank) ** X = A ** (Blank ** X)
  BY CatAssoc
<1>4. QED
  BY <1>1, <1>2, <1>3

\* The last values of an array are values with what may follow each.
LEMMA ListCloses ==
  \A k \in Nat : List ** (Letter("]") ** Follow[k]) = Blank ** (Val ** Follow[k + 1])
<1> TAKE k \in Nat
<1> DEFINE P == Padded(Val)
           X == Letter("]") ** Follow[k]
           L == List ** X
           M == Letter(",")
           C == M ** L
           R == M ** List
           Q == P ** R
<1>1. List = P \cup Q
  BY ListIs, SeparatedIs DEF Lists, Val
<1>2. Follow[k + 1] = Blank ** (X \cup C)
  BY FollowIs DEF Follows
<1> HIDE DEF P, X, L, M, C, R, Q
<1>3. L = (P ** X) \cup (Q ** X)
  <2>1. (P \cup Q) ** X = (P ** X) \cup (Q ** X)
    BY CatUnion
  <2>2. QED
    BY <1>1, <2>1 DEF L
<1>4. Q ** X = P ** C
  <2>1. (P ** R) ** X = P ** (R ** X)
    BY CatAssoc
  <2>2. (M ** List) ** X = M ** (List ** X)
    BY CatAssoc
  <2>3. QED
    BY <2>1, <2>2 DEF C, L, Q, R
<1>5. P ** (X \cup C) = (P ** X) \cup (P ** C)
  BY CatUnion
<1>6. P ** (X \cup C) = Blank ** (Val ** (Blank ** (X \cup C)))
  BY PaddedCat DEF P
<1>7. L = Blank ** (Val ** Follow[k + 1])
  BY <1>2, <1>3, <1>4, <1>5, <1>6
<1>8. QED
  BY <1>7 DEF L, X

\* Blanks, then the rest.
LEMMA BlankStep ==
  \A A : A \subseteq Texts => Blank ** A = A \cup (Letter(" ") ** (Blank ** A))
BY SeqStep DEF Blank, Letter

\* A string's characters, then the rest.
LEMMA BodyStep ==
  \A A : A \subseteq Texts =>
    Body ** A = A \cup (Letters(Plain) ** (Body ** A))
                  \cup (Letter("backslash") ** (Letters(Escapes) ** (Body ** A)))
<1> TAKE A
<1>1. HAVE A \subseteq Texts
<1> DEFINE B == Body ** A
<1>2. Body = {<<>>} \cup (Char ** Body)
  BY BodyIs
<1>3. B = ({<<>>} ** A) \cup ((Char ** Body) ** A)
  <2>1. ({<<>>} \cup (Char ** Body)) ** A = ({<<>>} ** A) \cup ((Char ** Body) ** A)
    BY CatUnion
  <2>2. QED
    BY <1>2, <2>1
<1>4. {<<>>} ** A = A
  <2>1. {<<>>} ** A = A \cap Texts
    BY CatOne
  <2>2. QED
    BY <1>1, <2>1
<1>5. (Char ** Body) ** A = Char ** B
  BY CatAssoc
<1> HIDE DEF B
<1>6. Char ** B = (Letters(Plain) ** B) \cup ((Letter("backslash") ** Letters(Escapes)) ** B)
  BY CatUnion DEF Char
<1>7. (Letter("backslash") ** Letters(Escapes)) ** B = Letter("backslash") ** (Letters(Escapes) ** B)
  BY CatAssoc
<1>8. B = A \cup (Letters(Plain) ** B) \cup (Letter("backslash") ** (Letters(Escapes) ** B))
  BY <1>3, <1>4, <1>5, <1>6, <1>7
<1>9. QED
  BY <1>8 DEF B

\* A value, by its first character.
LEMMA ValueStep ==
  \A k \in Nat : Val ** Follow[k] =
    (Letter("true") ** Follow[k]) \cup (Letter("[") ** Opened(k))
      \cup (Letter("quote") ** (Body ** (Letter("quote") ** Follow[k])))
      \cup (Number ** Follow[k])
<1> TAKE k \in Nat
<1> DEFINE F == Follow[k]
           X == Letter("]") ** F
           G == Follow[k + 1]
           T == Letter("true")
           A == Enclosed("[", Blank \cup List, "]")
           S == Enclosed("quote", Body, "quote")
<1>1. Val = ((T \cup A) \cup S) \cup Number
  BY DEF Val, Value, Letter, Letters
<1> HIDE DEF T, A, S, F
<1>2. (((T \cup A) \cup S) \cup Number) ** F = (((T \cup A) \cup S) ** F) \cup (Number ** F)
  BY CatUnion
<1>3. ((T \cup A) \cup S) ** F = ((T \cup A) ** F) \cup (S ** F)
  BY CatUnion
<1>4. (T \cup A) ** F = (T ** F) \cup (A ** F)
  BY CatUnion
<1>5. S ** F = Letter("quote") ** (Body ** (Letter("quote") ** F))
  <2>1. S = Letter("quote") ** (Body ** Letter("quote"))
    BY EnclosedIs DEF S
  <2>2. (Letter("quote") ** (Body ** Letter("quote"))) ** F
          = Letter("quote") ** ((Body ** Letter("quote")) ** F)
    BY CatAssoc
  <2>3. (Body ** Letter("quote")) ** F = Body ** (Letter("quote") ** F)
    BY CatAssoc
  <2>4. QED
    BY <2>1, <2>2, <2>3
<1>6. A ** F = Letter("[") ** Opened(k)
  <2> DEFINE M == Blank \cup List
  <2>1. A = Letter("[") ** (M ** Letter("]"))
    BY EnclosedIs DEF A
  <2> HIDE DEF M
  <2>2. (Letter("[") ** (M ** Letter("]"))) ** F = Letter("[") ** ((M ** Letter("]")) ** F)
    BY CatAssoc
  <2>3. (M ** Letter("]")) ** F = M ** (Letter("]") ** F)
    BY CatAssoc
  <2>4. M ** (Letter("]") ** F) = (Blank ** (Letter("]") ** F)) \cup (List ** (Letter("]") ** F))
    BY CatUnion DEF M
  <2>5. List ** (Letter("]") ** F) = Blank ** (Val ** G)
    BY ListCloses DEF F
  <2>6. Blank ** ((Letter("]") ** F) \cup (Val ** G))
          = (Blank ** (Letter("]") ** F)) \cup (Blank ** (Val ** G))
    BY CatUnion
  <2>7. Opened(k) = Blank ** ((Letter("]") ** F) \cup (Val ** G))
    BY DEF Opened, F
  <2>8. QED
    BY <2>1, <2>2, <2>3, <2>4, <2>5, <2>6, <2>7
<1>7. Val ** F = (T ** F) \cup (Letter("[") ** Opened(k))
                  \cup (Letter("quote") ** (Body ** (Letter("quote") ** F))) \cup (Number ** F)
  BY <1>1, <1>2, <1>3, <1>4, <1>5, <1>6
<1>8. QED
  BY <1>7 DEF F, T

-----------------------------------------------------------------------------
\* The rest of a number, before a text of A.
ExpDigits(A) == Seq(Digits) ** A
ExpSign(A) == Letters(Digits) ** ExpDigits(A)
Exp(A) == ExpSign(A) \cup (Letter("-") ** ExpSign(A))
Powered(A) == A \cup (Letter("e") ** Exp(A))
Frac(A) == Seq(Digits) ** Powered(A)
Point(A) == Letters(Digits) ** Frac(A)
Zero(A) == Powered(A) \cup (Letter(".") ** Point(A))
Integer(A) == Seq(Digits) ** Zero(A)
Minus(A) == (Letter("0") ** Zero(A)) \cup (Letter("1") ** Integer(A))
Numbered(A) == Minus(A) \cup (Letter("-") ** Minus(A))

\* They are texts.
LEMMA NumberTexts ==
  ASSUME NEW A, A \subseteq Texts
  PROVE  /\ ExpDigits(A) \subseteq Texts /\ ExpSign(A) \subseteq Texts /\ Exp(A) \subseteq Texts
         /\ Powered(A) \subseteq Texts /\ Frac(A) \subseteq Texts /\ Point(A) \subseteq Texts
         /\ Zero(A) \subseteq Texts /\ Integer(A) \subseteq Texts /\ Minus(A) \subseteq Texts
         /\ Numbered(A) \subseteq Texts
<1>1. /\ ExpDigits(A) \subseteq Texts /\ ExpSign(A) \subseteq Texts
      /\ Frac(A) \subseteq Texts /\ Point(A) \subseteq Texts /\ Integer(A) \subseteq Texts
  BY CatTexts DEF ExpDigits, ExpSign, Frac, Point, Integer
<1>2. Exp(A) \subseteq Texts
  BY <1>1, CatTexts DEF Exp
<1>3. Powered(A) \subseteq Texts
  BY CatTexts DEF Powered
<1>4. Zero(A) \subseteq Texts
  BY <1>3, CatTexts DEF Zero
<1>5. Minus(A) \subseteq Texts
  BY CatTexts DEF Minus
<1>6. Numbered(A) \subseteq Texts
  BY <1>5, CatTexts DEF Numbered
<1>7. QED
  BY <1>1, <1>2, <1>3, <1>4, <1>5, <1>6

\* A numeral before a text of A.
LEMMA NumeralCat == \A A : Numeral ** A = Letters(Digits) ** (Seq(Digits) ** A)
BY CatAssoc DEF Numeral

\* They are a number's.
LEMMA NumberIs ==
  ASSUME NEW A, A \subseteq Texts
  PROVE  Number ** A = Numbered(A)
<1> DEFINE e1 == Maybe(Exponent)
           f1 == Maybe(Fraction)
           m1 == Maybe(Letter("-"))
<1>1. e1 ** A = Powered(A)
  <2>1. e1 ** A = A \cup (Exponent ** A)
    BY MaybeCat
  <2>2. Exponent ** A = Letter("e") ** ((m1 ** Numeral) ** A)
    BY CatAssoc DEF Exponent
  <2>3. (m1 ** Numeral) ** A = m1 ** (Numeral ** A)
    BY CatAssoc
  <2>4. Numeral ** A = ExpSign(A)
    BY NumeralCat DEF ExpSign, ExpDigits
  <2>5. m1 ** ExpSign(A) = Exp(A)
    <3>1. ExpSign(A) \subseteq Texts
      BY NumberTexts
    <3>2. QED
      BY <3>1, MaybeCat DEF Exp
  <2> HIDE DEF e1, m1
  <2>6. QED
    BY <2>1, <2>2, <2>3, <2>4, <2>5 DEF Powered
<1>2. f1 ** Powered(A) = Zero(A)
  <2>1. f1 ** Powered(A) = Powered(A) \cup (Fraction ** Powered(A))
    <3>1. Powered(A) \subseteq Texts
      BY NumberTexts
    <3>2. QED
      BY <3>1, MaybeCat
  <2>2. Fraction ** Powered(A) = Letter(".") ** (Numeral ** Powered(A))
    BY CatAssoc DEF Fraction
  <2>3. Numeral ** Powered(A) = Point(A)
    BY NumeralCat DEF Point, Frac
  <2>4. QED
    BY <2>1, <2>2, <2>3 DEF Zero
<1>3. Whole ** Zero(A) = Minus(A)
  <2> DEFINE w == Letter("1") ** Seq(Digits)
             o == Letter("0")
             z == Zero(A)
  <2>1. w ** z = Letter("1") ** (Seq(Digits) ** z)
    BY CatAssoc
  <2>2. Whole = o \cup w
    BY DEF Whole
  <2> HIDE DEF w, o, z
  <2>3. (o \cup w) ** z = (o ** z) \cup (w ** z)
    BY CatUnion
  <2>4. QED
    BY <2>1, <2>2, <2>3 DEF Minus, Integer, o, z
<1>4. m1 ** Minus(A) = Numbered(A)
  <2>1. Minus(A) \subseteq Texts
    BY NumberTexts
  <2>2. QED
    BY <2>1, MaybeCat DEF Numbered
<1>5. Number ** A = m1 ** (Whole ** (f1 ** (e1 ** A)))
  <2>1. Number = m1 ** (Whole ** (f1 ** e1))
    BY DEF Number
  <2> HIDE DEF e1, f1, m1
  <2> DEFINE x == f1 ** e1
             y == Whole ** x
  <2>2. x ** A = f1 ** (e1 ** A)
    BY CatAssoc
  <2> HIDE DEF x
  <2>3. y ** A = Whole ** (x ** A)
    BY CatAssoc
  <2> HIDE DEF y
  <2>4. (m1 ** y) ** A = m1 ** (y ** A)
    BY CatAssoc
  <2>5. QED
    BY <2>1, <2>2, <2>3, <2>4 DEF x, y
<1> HIDE DEF e1, f1, m1
<1>6. QED
  BY <1>1, <1>2, <1>3, <1>4, <1>5

\* The characters of a number.
NumberSigns == {"-", ".", "0", "1", "e"}

\* What remains of a number after one more character.
LEMMA NumberPast ==
  ASSUME NEW A, A \subseteq Texts, NEW c \in Symbols, c \in NumberSigns => Past(c, A) = {}
  PROVE  /\ Past(c, ExpDigits(A)) = IF c \in Digits THEN ExpDigits(A) ELSE Past(c, A)
         /\ Past(c, ExpSign(A)) = IF c \in Digits THEN ExpDigits(A) ELSE {}
         /\ Past(c, Exp(A)) = IF c \in Digits THEN ExpDigits(A)
                              ELSE IF c = "-" THEN ExpSign(A) ELSE {}
         /\ Past(c, Frac(A)) = IF c \in Digits THEN Frac(A)
                               ELSE IF c = "e" THEN Exp(A) ELSE Past(c, A)
         /\ Past(c, Point(A)) = IF c \in Digits THEN Frac(A) ELSE {}
         /\ Past(c, Zero(A)) = IF c = "." THEN Point(A)
                               ELSE IF c = "e" THEN Exp(A) ELSE Past(c, A)
         /\ Past(c, Integer(A)) = IF c \in Digits THEN Integer(A)
                                  ELSE IF c = "." THEN Point(A)
                                  ELSE IF c = "e" THEN Exp(A) ELSE Past(c, A)
         /\ Past(c, Minus(A)) = IF c = "0" THEN Zero(A) ELSE IF c = "1" THEN Integer(A) ELSE {}
         /\ Past(c, Numbered(A)) = IF c = "-" THEN Minus(A)
                                   ELSE IF c = "0" THEN Zero(A)
                                   ELSE IF c = "1" THEN Integer(A) ELSE {}
<1>1. /\ ExpDigits(A) \subseteq Texts /\ ExpSign(A) \subseteq Texts /\ Exp(A) \subseteq Texts
      /\ Powered(A) \subseteq Texts /\ Frac(A) \subseteq Texts /\ Point(A) \subseteq Texts
      /\ Zero(A) \subseteq Texts /\ Integer(A) \subseteq Texts /\ Minus(A) \subseteq Texts
  BY NumberTexts
<1>2. \A S, B : B \subseteq Texts => Past(c, Letters(S) ** B) = IF c \in S THEN B ELSE {}
  BY PastFirst
<1>3. \A d, B : B \subseteq Texts => Past(c, Letter(d) ** B) = IF c = d THEN B ELSE {}
  BY <1>2 DEF Letter
<1>4. \A B, C : Past(c, B \cup C) = Past(c, B) \cup Past(c, C)
  BY PastUnion
<1>5. \A S, B : B \subseteq Texts =>
        Past(c, Seq(S) ** B) = IF c \in S THEN Past(c, B) \cup (Seq(S) ** B) ELSE Past(c, B)
  <2> TAKE S, B
  <2>1. HAVE B \subseteq Texts
  <2> DEFINE D == Seq(S) ** B
  <2>2. D = B \cup (Letters(S) ** D) /\ D \subseteq Texts
    BY <2>1, SeqStep, CatTexts
  <2> HIDE DEF D
  <2>3. Past(c, D) = Past(c, B) \cup Past(c, Letters(S) ** D)
    BY <1>4, <2>2
  <2>4. Past(c, Letters(S) ** D) = IF c \in S THEN D ELSE {}
    BY <1>2, <2>2
  <2>5. Past(c, D) = IF c \in S THEN Past(c, B) \cup D ELSE Past(c, B)
    BY <2>3, <2>4
  <2>6. QED
    BY <2>5 DEF D
<1>6. Digits = {"0", "1"} /\ Digits \subseteq NumberSigns
  BY DEF Digits, NumberSigns
<1>7. Past(c, ExpDigits(A)) = IF c \in Digits THEN ExpDigits(A) ELSE Past(c, A)
  <2>1. Past(c, ExpDigits(A)) = IF c \in Digits THEN Past(c, A) \cup ExpDigits(A) ELSE Past(c, A)
    BY <1>5 DEF ExpDigits
  <2>2. c \in Digits => Past(c, A) = {}
    BY <1>6
  <2>3. QED
    BY <2>1, <2>2
<1>8. Past(c, ExpSign(A)) = IF c \in Digits THEN ExpDigits(A) ELSE {}
  BY <1>1, <1>2 DEF ExpSign
<1>9. Past(c, Exp(A)) = IF c \in Digits THEN ExpDigits(A) ELSE IF c = "-" THEN ExpSign(A) ELSE {}
  <2>1. Past(c, Exp(A)) = Past(c, ExpSign(A)) \cup Past(c, Letter("-") ** ExpSign(A))
    BY <1>4 DEF Exp
  <2>2. Past(c, Letter("-") ** ExpSign(A)) = IF c = "-" THEN ExpSign(A) ELSE {}
    BY <1>1, <1>3
  <2>3. QED
    BY <1>6, <1>8, <2>1, <2>2
<1>10. Past(c, Powered(A)) = IF c = "e" THEN Exp(A) ELSE Past(c, A)
  <2>1. Past(c, Powered(A)) = Past(c, A) \cup Past(c, Letter("e") ** Exp(A))
    BY <1>4 DEF Powered
  <2>2. Past(c, Letter("e") ** Exp(A)) = IF c = "e" THEN Exp(A) ELSE {}
    BY <1>1, <1>3
  <2>3. c = "e" => Past(c, A) = {}
    BY DEF NumberSigns
  <2>4. QED
    BY <2>1, <2>2, <2>3
<1>11. Past(c, Frac(A)) = IF c \in Digits THEN Frac(A)
                          ELSE IF c = "e" THEN Exp(A) ELSE Past(c, A)
  <2>1. Past(c, Frac(A)) = IF c \in Digits THEN Past(c, Powered(A)) \cup Frac(A)
                           ELSE Past(c, Powered(A))
    BY <1>1, <1>5 DEF Frac
  <2>2. c \in Digits => Past(c, Powered(A)) = {}
    BY <1>6, <1>10
  <2>3. QED
    BY <1>10, <2>1, <2>2
<1>12. Past(c, Point(A)) = IF c \in Digits THEN Frac(A) ELSE {}
  BY <1>1, <1>2 DEF Point
<1>13. Past(c, Zero(A)) = IF c = "." THEN Point(A)
                          ELSE IF c = "e" THEN Exp(A) ELSE Past(c, A)
  <2>1. Past(c, Zero(A)) = Past(c, Powered(A)) \cup Past(c, Letter(".") ** Point(A))
    BY <1>4 DEF Zero
  <2>2. Past(c, Letter(".") ** Point(A)) = IF c = "." THEN Point(A) ELSE {}
    BY <1>1, <1>3
  <2>3. c = "." => Past(c, A) = {}
    BY DEF NumberSigns
  <2>4. QED
    BY <1>10, <2>1, <2>2, <2>3
<1>14. Past(c, Integer(A)) = IF c \in Digits THEN Integer(A)
                             ELSE IF c = "." THEN Point(A)
                             ELSE IF c = "e" THEN Exp(A) ELSE Past(c, A)
  <2>1. Past(c, Integer(A)) = IF c \in Digits THEN Past(c, Zero(A)) \cup Integer(A)
                              ELSE Past(c, Zero(A))
    BY <1>1, <1>5 DEF Integer
  <2>2. c \in Digits => Past(c, Zero(A)) = {}
    BY <1>6, <1>13
  <2>3. QED
    BY <1>13, <2>1, <2>2
<1>15. Past(c, Minus(A)) = IF c = "0" THEN Zero(A) ELSE IF c = "1" THEN Integer(A) ELSE {}
  <2>1. Past(c, Minus(A)) = Past(c, Letter("0") ** Zero(A)) \cup Past(c, Letter("1") ** Integer(A))
    BY <1>4 DEF Minus
  <2>2. Past(c, Letter("0") ** Zero(A)) = IF c = "0" THEN Zero(A) ELSE {}
    BY <1>1, <1>3
  <2>3. Past(c, Letter("1") ** Integer(A)) = IF c = "1" THEN Integer(A) ELSE {}
    BY <1>1, <1>3
  <2>4. QED
    BY <2>1, <2>2, <2>3
<1>16. Past(c, Numbered(A)) = IF c = "-" THEN Minus(A)
                              ELSE IF c = "0" THEN Zero(A)
                              ELSE IF c = "1" THEN Integer(A) ELSE {}
  <2>1. Past(c, Numbered(A)) = Past(c, Minus(A)) \cup Past(c, Letter("-") ** Minus(A))
    BY <1>4 DEF Numbered
  <2>2. Past(c, Letter("-") ** Minus(A)) = IF c = "-" THEN Minus(A) ELSE {}
    BY <1>1, <1>3
  <2>3. QED
    BY <1>15, <2>1, <2>2
<1>17. QED
  BY <1>7, <1>8, <1>9, <1>11, <1>12, <1>13, <1>14, <1>15, <1>16

\* The automaton's moves, one by one.
Moves(from, c, to) ==
  \/ from = "number" /\ c = "-" /\ to = "minus"
  \/ from = "zero" /\ c = "." /\ to = "point"
  \/ from = "int" /\ c = "." /\ to = "point"
  \/ from = "exp" /\ c = "-" /\ to = "exp sign"
  \/ from \in {"number", "minus"} /\ c = "0" /\ to = "zero"
  \/ from \in {"number", "minus"} /\ c = "1" /\ to = "int"
  \/ from \in {"zero", "int", "frac"} /\ c = "e" /\ to = "exp"
  \/ from = "int" /\ c \in Digits /\ to = "int"
  \/ from \in {"point", "frac"} /\ c \in Digits /\ to = "frac"
  \/ from \in {"exp", "exp sign", "exp digits"} /\ c \in Digits /\ to = "exp digits"

\* They are those of NumberGoes.
LEMMA GoesMoves ==
  /\ \A g \in NumberGoes : Moves(g[1], g[2], g[3])
  /\ \A from, c, to : Moves(from, c, to) => \E g \in NumberGoes : g[1] = from /\ g[2] = c /\ g[3] = to
<1>1. ASSUME NEW g \in NumberGoes
      PROVE  Moves(g[1], g[2], g[3])
  <2>1. \/ g \in {<<"number", "-", "minus">>, <<"zero", ".", "point">>, <<"int", ".", "point">>,
                  <<"exp", "-", "exp sign">>}
        \/ g \in {"number", "minus"} \X {"0"} \X {"zero"}
        \/ g \in {"number", "minus"} \X {"1"} \X {"int"}
        \/ g \in {"zero", "int", "frac"} \X {"e"} \X {"exp"}
        \/ g \in {"int"} \X Digits \X {"int"}
        \/ g \in {"point", "frac"} \X Digits \X {"frac"}
        \/ g \in {"exp", "exp sign", "exp digits"} \X Digits \X {"exp digits"}
    BY Zenon DEF NumberGoes
  <2>2. CASE g \in {<<"number", "-", "minus">>, <<"zero", ".", "point">>, <<"int", ".", "point">>,
                    <<"exp", "-", "exp sign">>}
    <3>1. CASE g = <<"number", "-", "minus">>
      BY <3>1 DEF Moves
    <3>2. CASE g = <<"zero", ".", "point">>
      BY <3>2 DEF Moves
    <3>3. CASE g = <<"int", ".", "point">>
      BY <3>3 DEF Moves
    <3>4. CASE g = <<"exp", "-", "exp sign">>
      BY <3>4 DEF Moves
    <3>5. QED
      BY <2>2, <3>1, <3>2, <3>3, <3>4
  <2>3. CASE g \in {"number", "minus"} \X {"0"} \X {"zero"}
    BY <2>3 DEF Moves
  <2>4. CASE g \in {"number", "minus"} \X {"1"} \X {"int"}
    BY <2>4 DEF Moves
  <2>5. CASE g \in {"zero", "int", "frac"} \X {"e"} \X {"exp"}
    BY <2>5 DEF Moves
  <2>6. CASE g \in {"int"} \X Digits \X {"int"}
    BY <2>6 DEF Moves
  <2>7. CASE g \in {"point", "frac"} \X Digits \X {"frac"}
    BY <2>7 DEF Moves
  <2>8. CASE g \in {"exp", "exp sign", "exp digits"} \X Digits \X {"exp digits"}
    BY <2>8 DEF Moves
  <2>9. QED
    BY <2>1, <2>2, <2>3, <2>4, <2>5, <2>6, <2>7, <2>8
<1>2. ASSUME NEW from, NEW c, NEW to, Moves(from, c, to)
      PROVE  <<from, c, to>> \in NumberGoes
  <2> DEFINE g == <<from, c, to>>
  <2>1. \/ g \in {<<"number", "-", "minus">>, <<"zero", ".", "point">>, <<"int", ".", "point">>,
                  <<"exp", "-", "exp sign">>}
        \/ g \in {"number", "minus"} \X {"0"} \X {"zero"}
        \/ g \in {"number", "minus"} \X {"1"} \X {"int"}
        \/ g \in {"zero", "int", "frac"} \X {"e"} \X {"exp"}
        \/ g \in {"int"} \X Digits \X {"int"}
        \/ g \in {"point", "frac"} \X Digits \X {"frac"}
        \/ g \in {"exp", "exp sign", "exp digits"} \X Digits \X {"exp digits"}
    BY <1>2 DEF Moves
  <2> HIDE DEF g
  <2>2. g \in NumberGoes
    BY <2>1, Zenon DEF NumberGoes
  <2>3. QED
    BY <2>2 DEF g
<1>3. \A from, c, to : <<from, c, to>>[1] = from /\ <<from, c, to>>[2] = c /\ <<from, c, to>>[3] = to
  OBVIOUS
<1>4. ASSUME NEW from, NEW c, NEW to, Moves(from, c, to)
      PROVE  \E g \in NumberGoes : g[1] = from /\ g[2] = c /\ g[3] = to
  <2> DEFINE g == <<from, c, to>>
  <2>1. g \in NumberGoes
    BY <1>2, <1>4
  <2>2. g[1] = from /\ g[2] = c /\ g[3] = to
    OBVIOUS
  <2> HIDE DEF g
  <2>3. QED
    BY <2>1, <2>2
<1>5. QED
  BY <1>1, <1>4

NumberPc == {"number", "minus", "zero", "int", "point", "frac", "exp", "exp sign", "exp digits"}

\* What a number may go on with, by the state of lept_parse_number.
NumberRest(state, A) ==
  CASE state = "number" -> Numbered(A)
    [] state = "minus" -> Minus(A)
    [] state = "zero" -> Zero(A)
    [] state = "int" -> Integer(A)
    [] state = "point" -> Point(A)
    [] state = "frac" -> Frac(A)
    [] state = "exp" -> Exp(A)
    [] state = "exp sign" -> ExpSign(A)
    [] state = "exp digits" -> ExpDigits(A)

\* By state.
LEMMA RestIs ==
  \A A : /\ NumberRest("number", A) = Numbered(A) /\ NumberRest("minus", A) = Minus(A)
         /\ NumberRest("zero", A) = Zero(A) /\ NumberRest("int", A) = Integer(A)
         /\ NumberRest("point", A) = Point(A) /\ NumberRest("frac", A) = Frac(A)
         /\ NumberRest("exp", A) = Exp(A) /\ NumberRest("exp sign", A) = ExpSign(A)
         /\ NumberRest("exp digits", A) = ExpDigits(A)
BY DEF NumberRest

\* The automaton accepts what the grammar has, character by character.
LEMMA NumberSteps ==
  ASSUME NEW A, A \subseteq Texts, NEW c \in Symbols, c \in NumberSigns => Past(c, A) = {},
         NEW state \in NumberPc
  PROVE  /\ \A to : Moves(state, c, to) =>
              to \in NumberPc \ {"number"} /\ Past(c, NumberRest(state, A)) = NumberRest(to, A)
         /\ (\A to : ~Moves(state, c, to)) =>
              Past(c, NumberRest(state, A)) = IF state \in NumberEnds THEN Past(c, A) ELSE {}
<1> DEFINE Goal ==
      /\ \A to : Moves(state, c, to) =>
           to \in NumberPc \ {"number"} /\ Past(c, NumberRest(state, A)) = NumberRest(to, A)
      /\ (\A to : ~Moves(state, c, to)) =>
           Past(c, NumberRest(state, A)) = IF state \in NumberEnds THEN Past(c, A) ELSE {}
<1>0. Digits = {"0", "1"}
  BY DEF Digits
<1>1. /\ Past(c, ExpDigits(A)) = IF c \in Digits THEN ExpDigits(A) ELSE Past(c, A)
      /\ Past(c, ExpSign(A)) = IF c \in Digits THEN ExpDigits(A) ELSE {}
      /\ Past(c, Exp(A)) = IF c \in Digits THEN ExpDigits(A)
                           ELSE IF c = "-" THEN ExpSign(A) ELSE {}
      /\ Past(c, Frac(A)) = IF c \in Digits THEN Frac(A)
                            ELSE IF c = "e" THEN Exp(A) ELSE Past(c, A)
      /\ Past(c, Point(A)) = IF c \in Digits THEN Frac(A) ELSE {}
  BY NumberPast
<1>2. /\ Past(c, Zero(A)) = IF c = "." THEN Point(A)
                            ELSE IF c = "e" THEN Exp(A) ELSE Past(c, A)
      /\ Past(c, Integer(A)) = IF c \in Digits THEN Integer(A)
                               ELSE IF c = "." THEN Point(A)
                               ELSE IF c = "e" THEN Exp(A) ELSE Past(c, A)
      /\ Past(c, Minus(A)) = IF c = "0" THEN Zero(A) ELSE IF c = "1" THEN Integer(A) ELSE {}
      /\ Past(c, Numbered(A)) = IF c = "-" THEN Minus(A)
                                ELSE IF c = "0" THEN Zero(A)
                                ELSE IF c = "1" THEN Integer(A) ELSE {}
  BY NumberPast
<1>3. CASE state = "number"
  <2>1. \A to : Moves(state, c, to) <=>
          (c = "-" /\ to = "minus") \/ (c = "0" /\ to = "zero") \/ (c = "1" /\ to = "int")
    BY <1>3 DEF Moves
  <2>2. QED
    BY <1>2, <1>3, <2>1, RestIs DEF NumberEnds, NumberPc
<1>4. CASE state = "minus"
  <2>1. \A to : Moves(state, c, to) <=> (c = "0" /\ to = "zero") \/ (c = "1" /\ to = "int")
    BY <1>4 DEF Moves
  <2>2. QED
    BY <1>2, <1>4, <2>1, RestIs DEF NumberEnds, NumberPc
<1>5. CASE state = "zero"
  <2>1. \A to : Moves(state, c, to) <=> (c = "." /\ to = "point") \/ (c = "e" /\ to = "exp")
    BY <1>5 DEF Moves
  <2>2. QED
    BY <1>2, <1>5, <2>1, RestIs DEF NumberEnds, NumberPc
<1>6. CASE state = "int"
  <2>1. \A to : Moves(state, c, to) <=>
          (c \in Digits /\ to = "int") \/ (c = "." /\ to = "point") \/ (c = "e" /\ to = "exp")
    BY <1>6 DEF Moves
  <2>2. QED
    BY <1>0, <1>2, <1>6, <2>1, RestIs DEF NumberEnds, NumberPc
<1>7. CASE state = "point"
  <2>1. \A to : Moves(state, c, to) <=> c \in Digits /\ to = "frac"
    BY <1>7 DEF Moves
  <2>2. QED
    BY <1>0, <1>1, <1>7, <2>1, RestIs DEF NumberEnds, NumberPc
<1>8. CASE state = "frac"
  <2>1. \A to : Moves(state, c, to) <=> (c \in Digits /\ to = "frac") \/ (c = "e" /\ to = "exp")
    BY <1>8 DEF Moves
  <2>2. QED
    BY <1>0, <1>1, <1>8, <2>1, RestIs DEF NumberEnds, NumberPc
<1>9. CASE state = "exp"
  <2>1. \A to : Moves(state, c, to) <=>
          (c \in Digits /\ to = "exp digits") \/ (c = "-" /\ to = "exp sign")
    BY <1>9 DEF Moves
  <2>2. QED
    BY <1>0, <1>1, <1>9, <2>1, RestIs DEF NumberEnds, NumberPc
<1>10. CASE state = "exp sign"
  <2>1. \A to : Moves(state, c, to) <=> c \in Digits /\ to = "exp digits"
    BY <1>10 DEF Moves
  <2>2. QED
    BY <1>0, <1>1, <1>10, <2>1, RestIs DEF NumberEnds, NumberPc
<1>11. CASE state = "exp digits"
  <2>1. \A to : Moves(state, c, to) <=> c \in Digits /\ to = "exp digits"
    BY <1>11 DEF Moves
  <2>2. QED
    BY <1>0, <1>1, <1>11, <2>1, RestIs DEF NumberEnds, NumberPc
<1>12. QED
  BY <1>3, <1>4, <1>5, <1>6, <1>7, <1>8, <1>9, <1>10, <1>11 DEF NumberPc

-----------------------------------------------------------------------------
\* What remains, after one more character, at the other points of the parser.
ValueRest(k) == Blank ** (Val ** Follow[k])
StringRest(k) == Body ** (Letter("quote") ** Follow[k])
EscapeRest(k) == Letters(Escapes) ** StringRest(k)

\* One character before a text.
LEMMA PastLetter ==
  \A c \in Symbols : \A d, A : A \subseteq Texts =>
    Past(c, Letter(d) ** A) = IF c = d THEN A ELSE {}
BY PastFirst DEF Letter

\* A text that begins with a character is not empty.
LEMMA LetterNotNone == \A d, A : <<>> \notin Letter(d) ** A
BY FirstNotNone DEF Letter

\* What follows a value are texts.
LEMMA FollowTexts == \A k \in Nat : Follow[k] \subseteq Texts
BY FollowIs DEF Follows

\* Blanks before a text that does not begin with one.
LEMMA PastBlank ==
  \A c \in Symbols : \A A : A \subseteq Texts /\ (c = " " => Past(c, A) = {}) =>
    Past(c, Blank ** A) = IF c = " " THEN Blank ** A ELSE Past(c, A)
<1> TAKE c \in Symbols
<1> TAKE A
<1>1. HAVE A \subseteq Texts /\ (c = " " => Past(c, A) = {})
<1> DEFINE B == Blank ** A
<1>2. B = A \cup (Letter(" ") ** B) /\ B \subseteq Texts
  BY <1>1, BlankStep, CatTexts
<1> HIDE DEF B
<1> DEFINE C == Letter(" ") ** B
<1>3. Past(c, B) = Past(c, A) \cup Past(c, Letter(" ") ** B)
  <2> HIDE DEF C
  <2>1. Past(c, A \cup C) = Past(c, A) \cup Past(c, C)
    BY PastUnion
  <2>2. B = A \cup C
    BY <1>2 DEF C
  <2>3. QED
    BY <2>1, <2>2 DEF C
<1>4. Past(c, Letter(" ") ** B) = IF c = " " THEN B ELSE {}
  BY <1>2, PastLetter
<1>5. Past(c, B) = IF c = " " THEN B ELSE Past(c, A)
  BY <1>1, <1>3, <1>4
<1>6. QED
  BY <1>5 DEF B

\* Blanks before a language do not give it the empty text.
LEMMA BlankNone == \A A : A \subseteq Texts => (<<>> \in Blank ** A <=> <<>> \in A)
<1> TAKE A
<1>1. HAVE A \subseteq Texts
<1> DEFINE B == Blank ** A
<1>2. B = A \cup (Letter(" ") ** B)
  BY <1>1, BlankStep
<1> HIDE DEF B
<1>3. <<>> \notin Letter(" ") ** B
  BY LetterNotNone
<1>4. <<>> \in B <=> <<>> \in A
  BY <1>2, <1>3
<1>5. QED
  BY <1>4 DEF B

\* After the outermost value.
LEMMA FollowNone ==
  /\ <<>> \in Follow[0]
  /\ \A c \in Symbols : Past(c, Follow[0]) = IF c = " " THEN Follow[0] ELSE {}
<1>1. Follow[0] = Blank \cap Texts
  BY FollowIs DEF Follows
<1>2. Blank ** {<<>>} = Blank \cap Texts
  BY CatOne
<1>3. {<<>>} \subseteq Texts
  BY NoText
<1>4. <<>> \in Follow[0]
  <2>1. <<>> \in Seq({" "}) /\ <<>> \in Texts
    BY NoText
  <2>2. QED
    BY <1>1, <2>1 DEF Blank
<1>5. ASSUME NEW c \in Symbols
      PROVE  Past(c, Follow[0]) = IF c = " " THEN Follow[0] ELSE {}
  <2>1. Past(c, {<<>>}) = {}
    BY PastNone
  <2>2. Past(c, Blank ** {<<>>}) = IF c = " " THEN Blank ** {<<>>} ELSE Past(c, {<<>>})
    BY <1>3, <2>1, PastBlank
  <2>3. QED
    BY <1>1, <1>2, <2>1, <2>2
<1>6. QED
  BY <1>4, <1>5

\* After a value in an array.
LEMMA FollowSome ==
  \A k \in Nat :
    /\ <<>> \notin Follow[k + 1]
    /\ \A c \in Symbols : Past(c, Follow[k + 1]) =
         IF c = " " THEN Follow[k + 1] ELSE IF c = "]" THEN Follow[k]
         ELSE IF c = "," THEN ValueRest(k + 1) ELSE {}
<1> TAKE k \in Nat
<1> DEFINE X == Letter("]") ** Follow[k]
           V == ValueRest(k + 1)
           C == Letter(",") ** V
           A == X \cup C
<1>1. Follow[k + 1] = Blank ** A
  <2>1. Follow[k + 1] = Blank ** (X \cup (Letter(",") ** (List ** X)))
    BY FollowIs DEF Follows
  <2>2. List ** X = V
    BY ListCloses DEF ValueRest
  <2>3. QED
    BY <2>1, <2>2
<1>2. V \subseteq Texts /\ X \subseteq Texts /\ C \subseteq Texts /\ Follow[k] \subseteq Texts
  BY CatTexts, FollowTexts DEF ValueRest
<1>3. <<>> \notin X /\ <<>> \notin C
  BY LetterNotNone
<1>4. ASSUME NEW c \in Symbols
      PROVE  Past(c, X) = (IF c = "]" THEN Follow[k] ELSE {})
             /\ Past(c, C) = (IF c = "," THEN V ELSE {})
  <2> HIDE DEF V
  <2>1. QED
    BY <1>2, PastLetter
<1> HIDE DEF X, C, V
<1>5. A \subseteq Texts /\ <<>> \notin A
  BY <1>2, <1>3
<1>6. \A c \in Symbols : Past(c, A) = Past(c, X) \cup Past(c, C)
  BY PastUnion
<1> HIDE DEF A
<1>7. <<>> \notin Follow[k + 1]
  BY <1>1, <1>5, BlankNone
<1>8. ASSUME NEW c \in Symbols
      PROVE  Past(c, Follow[k + 1]) =
               IF c = " " THEN Follow[k + 1] ELSE IF c = "]" THEN Follow[k]
               ELSE IF c = "," THEN V ELSE {}
  <2>1. Past(c, A) = IF c = "]" THEN Follow[k] ELSE IF c = "," THEN V ELSE {}
    BY <1>4, <1>6
  <2>2. c = " " => Past(c, A) = {}
    BY <2>1
  <2>3. Past(c, Blank ** A) = IF c = " " THEN Blank ** A ELSE Past(c, A)
    BY <1>5, <2>2, PastBlank
  <2>4. QED
    BY <1>1, <2>1, <2>3
<1>9. QED
  BY <1>7, <1>8 DEF V

\* No sign of a number follows a value.
LEMMA FollowSigns ==
  \A k \in Nat : \A c \in Symbols : c \in NumberSigns => Past(c, Follow[k]) = {}
<1> TAKE k \in Nat
<1> TAKE c \in Symbols
<1>1. HAVE c \in NumberSigns
<1>2. c # " " /\ c # "]" /\ c # ","
  BY <1>1 DEF NumberSigns
<1>3. CASE k = 0
  BY <1>2, <1>3, FollowNone
<1>4. CASE k # 0
  <2>1. PICK m \in Nat : k = m + 1
    <3>1. k - 1 \in Nat /\ k = (k - 1) + 1
      BY <1>4
    <3>2. QED
      BY <3>1
  <2>2. QED
    BY <1>2, <2>1, FollowSome
<1>5. QED
  BY <1>3, <1>4

\* At a value.
LEMMA ValuePast ==
  \A k \in Nat :
    /\ <<>> \notin Val ** Follow[k]
    /\ \A c \in Symbols : Past(c, Val ** Follow[k]) =
         IF c = "true" THEN Follow[k] ELSE IF c = "[" THEN Opened(k)
         ELSE IF c = "quote" THEN StringRest(k) ELSE Past(c, Numbered(Follow[k]))
<1> TAKE k \in Nat
<1> DEFINE F == Follow[k]
           O == Opened(k)
           S == StringRest(k)
           T1 == Letter("true") ** F
           O1 == Letter("[") ** O
           S1 == Letter("quote") ** S
           N1 == Numbered(F)
<1>1. Val ** F = ((T1 \cup O1) \cup S1) \cup N1
  <2>1. Val ** F = T1 \cup O1 \cup S1 \cup (Number ** F)
    BY ValueStep DEF StringRest
  <2>2. Number ** F = N1
    BY FollowTexts, NumberIs
  <2>3. QED
    BY <2>1, <2>2
<1>2. F \subseteq Texts /\ O \subseteq Texts /\ S \subseteq Texts
  BY FollowTexts, CatTexts DEF Opened, StringRest
<1>3. <<>> \notin T1 /\ <<>> \notin O1 /\ <<>> \notin S1 /\ <<>> \notin N1
  BY LetterNotNone DEF Numbered, Minus
<1>4. ASSUME NEW c \in Symbols
      PROVE  Past(c, Val ** F) =
               IF c = "true" THEN F ELSE IF c = "[" THEN O
               ELSE IF c = "quote" THEN S ELSE Past(c, N1)
  <2> HIDE DEF F, O, S, N1
  <2>1. Past(c, T1) = IF c = "true" THEN F ELSE {}
    BY <1>2, PastLetter
  <2>2. Past(c, O1) = IF c = "[" THEN O ELSE {}
    BY <1>2, PastLetter
  <2>3. Past(c, S1) = IF c = "quote" THEN S ELSE {}
    BY <1>2, PastLetter
  <2>4. c \notin NumberSigns => Past(c, N1) = {}
    <3>1. c \in NumberSigns => Past(c, F) = {}
      BY FollowSigns DEF F
    <3>2. Past(c, N1) = IF c = "-" THEN Minus(F) ELSE IF c = "0" THEN Zero(F)
                        ELSE IF c = "1" THEN Integer(F) ELSE {}
      BY <1>2, <3>1, NumberPast DEF N1
    <3>3. QED
      BY <3>2 DEF NumberSigns
  <2>5. "true" \notin NumberSigns /\ "[" \notin NumberSigns /\ "quote" \notin NumberSigns
    BY DEF NumberSigns
  <2> HIDE DEF T1, O1, S1
  <2>6. Past(c, Val ** F) = Past(c, T1) \cup Past(c, O1) \cup Past(c, S1) \cup Past(c, N1)
    <3>1. Past(c, ((T1 \cup O1) \cup S1) \cup N1) = Past(c, (T1 \cup O1) \cup S1) \cup Past(c, N1)
      BY PastUnion
    <3>2. Past(c, (T1 \cup O1) \cup S1) = Past(c, T1 \cup O1) \cup Past(c, S1)
      BY PastUnion
    <3>3. Past(c, T1 \cup O1) = Past(c, T1) \cup Past(c, O1)
      BY PastUnion
    <3>4. QED
      BY <1>1, <3>1, <3>2, <3>3
  <2>7. QED
    BY <2>1, <2>2, <2>3, <2>4, <2>5, <2>6
<1>5. <<>> \notin Val ** F
  <2> HIDE DEF T1, O1, S1, N1, F
  <2>1. QED
    BY <1>1, <1>3
<1>6. QED
  BY <1>4, <1>5

\* Where a value begins.
LEMMA ValueRestPast ==
  \A k \in Nat :
    /\ <<>> \notin ValueRest(k)
    /\ \A c \in Symbols : Past(c, ValueRest(k)) =
         IF c = " " THEN ValueRest(k)
         ELSE IF c = "true" THEN Follow[k] ELSE IF c = "[" THEN Opened(k)
         ELSE IF c = "quote" THEN StringRest(k) ELSE Past(c, Numbered(Follow[k]))
<1> TAKE k \in Nat
<1> DEFINE A == Val ** Follow[k]
<1>1. A \subseteq Texts /\ <<>> \notin A
  BY CatTexts, ValuePast
<1>2. ASSUME NEW c \in Symbols
      PROVE  Past(c, ValueRest(k)) =
         IF c = " " THEN ValueRest(k)
         ELSE IF c = "true" THEN Follow[k] ELSE IF c = "[" THEN Opened(k)
         ELSE IF c = "quote" THEN StringRest(k) ELSE Past(c, Numbered(Follow[k]))
  <2>1. Past(c, A) = IF c = "true" THEN Follow[k] ELSE IF c = "[" THEN Opened(k)
                     ELSE IF c = "quote" THEN StringRest(k) ELSE Past(c, Numbered(Follow[k]))
    BY ValuePast
  <2>2. c = " " => Past(c, A) = {}
    <3>1. Past(c, Numbered(Follow[k])) = IF c = "-" THEN Minus(Follow[k])
            ELSE IF c = "0" THEN Zero(Follow[k]) ELSE IF c = "1" THEN Integer(Follow[k]) ELSE {}
      <4>1. Follow[k] \subseteq Texts /\ (c \in NumberSigns => Past(c, Follow[k]) = {})
        BY FollowTexts, FollowSigns
      <4>2. QED
        BY <4>1, NumberPast
    <3>2. QED
      BY <2>1, <3>1
  <2> HIDE DEF A
  <2>3. Past(c, Blank ** A) = IF c = " " THEN Blank ** A ELSE Past(c, A)
    BY <1>1, <2>2, PastBlank
  <2>4. QED
    BY <2>1, <2>3 DEF ValueRest, A
<1>3. <<>> \notin ValueRest(k)
  BY <1>1, BlankNone DEF ValueRest
<1>4. QED
  BY <1>2, <1>3

\* In an array that has just been opened.
LEMMA OpenedPast ==
  \A k \in Nat :
    /\ <<>> \notin Opened(k)
    /\ ValueRest(k + 1) \subseteq Opened(k)
    /\ \A c \in Symbols : Past(c, Opened(k)) =
         IF c = " " THEN Opened(k) ELSE IF c = "]" THEN Follow[k]
         ELSE Past(c, ValueRest(k + 1))
<1> TAKE k \in Nat
<1> DEFINE X == Letter("]") ** Follow[k]
           V == Val ** Follow[k + 1]
           A == X \cup V
<1>1. X \subseteq Texts /\ V \subseteq Texts /\ Follow[k] \subseteq Texts
  BY CatTexts, FollowTexts
<1>2. <<>> \notin X /\ <<>> \notin V
  BY LetterNotNone, ValuePast
<1>3. ValueRest(k + 1) = Blank ** V /\ Opened(k) = Blank ** A
  BY DEF ValueRest, Opened
<1>4. ASSUME NEW c \in Symbols
      PROVE  /\ Past(c, X) = IF c = "]" THEN Follow[k] ELSE {}
             /\ c = " " \/ c = "]" => Past(c, V) = {}
  <2>1. Past(c, X) = IF c = "]" THEN Follow[k] ELSE {}
    BY <1>1, PastLetter
  <2>2. c = " " \/ c = "]" => Past(c, V) = {}
    <3>1. Follow[k + 1] \subseteq Texts /\ (c \in NumberSigns => Past(c, Follow[k + 1]) = {})
      BY FollowTexts, FollowSigns
    <3>2. Past(c, Numbered(Follow[k + 1])) = IF c = "-" THEN Minus(Follow[k + 1])
            ELSE IF c = "0" THEN Zero(Follow[k + 1])
            ELSE IF c = "1" THEN Integer(Follow[k + 1]) ELSE {}
      BY <3>1, NumberPast
    <3>3. Past(c, V) = IF c = "true" THEN Follow[k + 1] ELSE IF c = "[" THEN Opened(k + 1)
                     ELSE IF c = "quote" THEN StringRest(k + 1)
                     ELSE Past(c, Numbered(Follow[k + 1]))
      BY ValuePast
    <3>4. QED
      BY <3>2, <3>3
  <2>3. QED
    BY <2>1, <2>2
<1> HIDE DEF X, V
<1>5. A \subseteq Texts /\ <<>> \notin A
  BY <1>1, <1>2
<1>6. Blank ** A = (Blank ** X) \cup (Blank ** V)
  BY CatUnion
<1>7. \A c \in Symbols : Past(c, A) = Past(c, X) \cup Past(c, V)
  BY PastUnion
<1> HIDE DEF A
<1>8. <<>> \notin Opened(k)
  BY <1>3, <1>5, BlankNone
<1>9. ASSUME NEW c \in Symbols
      PROVE  Past(c, Opened(k)) =
               IF c = " " THEN Opened(k) ELSE IF c = "]" THEN Follow[k]
               ELSE Past(c, ValueRest(k + 1))
  <2>1. Past(c, A) = IF c = "]" THEN Follow[k] ELSE Past(c, V)
    BY <1>4, <1>7
  <2>2. c = " " => Past(c, A) = {}
    BY <1>4, <2>1
  <2>3. Past(c, Blank ** A) = IF c = " " THEN Blank ** A ELSE Past(c, A)
    BY <1>5, <2>2, PastBlank
  <2>4. Past(c, Blank ** V) = IF c = " " THEN Blank ** V ELSE Past(c, V)
    BY <1>1, <1>4, PastBlank
  <2>5. QED
    BY <1>3, <2>1, <2>3, <2>4
<1>10. QED
  BY <1>3, <1>6, <1>8, <1>9

\* In a string.
LEMMA StringPast ==
  \A k \in Nat :
    /\ <<>> \notin StringRest(k)
    /\ \A c \in Symbols : Past(c, StringRest(k)) =
         IF c = "quote" THEN Follow[k] ELSE IF c \in Plain THEN StringRest(k)
         ELSE IF c = "backslash" THEN EscapeRest(k) ELSE {}
<1> TAKE k \in Nat
<1> DEFINE Q == Letter("quote") ** Follow[k]
           S == StringRest(k)
           P == Letters(Plain) ** S
           X == EscapeRest(k)
           B == Letter("backslash") ** X
<1>1. Q \subseteq Texts /\ S \subseteq Texts /\ X \subseteq Texts /\ Follow[k] \subseteq Texts
  BY CatTexts, FollowTexts DEF StringRest, EscapeRest
<1>2. S = (Q \cup P) \cup B
  BY <1>1, BodyStep DEF StringRest, EscapeRest
<1>3. <<>> \notin Q /\ <<>> \notin P /\ <<>> \notin B
  BY LetterNotNone, FirstNotNone
<1>4. ASSUME NEW c \in Symbols
      PROVE  Past(c, S) = IF c = "quote" THEN Follow[k] ELSE IF c \in Plain THEN S
                          ELSE IF c = "backslash" THEN X ELSE {}
  <2> HIDE DEF S, X
  <2>1. Past(c, Q) = IF c = "quote" THEN Follow[k] ELSE {}
    BY <1>1, PastLetter
  <2>2. Past(c, P) = IF c \in Plain THEN S ELSE {}
    BY <1>1, PastFirst
  <2>3. Past(c, B) = IF c = "backslash" THEN X ELSE {}
    BY <1>1, PastLetter
  <2> HIDE DEF Q, P, B
  <2>4. Past(c, (Q \cup P) \cup B) = Past(c, Q \cup P) \cup Past(c, B)
    BY PastUnion
  <2>5. Past(c, Q \cup P) = Past(c, Q) \cup Past(c, P)
    BY PastUnion
  <2>6. c \in Plain => c # "quote" /\ c # "backslash"
    BY DEF Plain
  <2>7. QED
    BY <1>2, <2>1, <2>2, <2>3, <2>4, <2>5, <2>6
<1>5. <<>> \notin S
  <2> HIDE DEF S, Q, P, B
  <2>1. QED
    BY <1>2, <1>3
<1>6. QED
  BY <1>4, <1>5

\* After a backslash.
LEMMA EscapePast ==
  \A k \in Nat :
    /\ <<>> \notin EscapeRest(k)
    /\ \A c \in Symbols : Past(c, EscapeRest(k)) = IF c \in Escapes THEN StringRest(k) ELSE {}
<1> TAKE k \in Nat
<1>1. StringRest(k) \subseteq Texts
  BY CatTexts DEF StringRest
<1>2. QED
  BY <1>1, PastFirst, FirstNotNone DEF EscapeRest

\* A text of the grammar is one that a parse may begin with.
LEMMA JsonIs == Json = ValueRest(0)
<1>1. Json = Blank ** (Val ** Blank)
  BY PaddedIs DEF Json, Val
<1>2. Follow[0] = Blank \cap Texts
  BY FollowIs DEF Follows
<1>3. Val ** Blank = Val ** Follow[0]
  <2>1. Follow[0] \cap Texts = Blank \cap Texts
    BY <1>2
  <2>2. QED
    BY <2>1, CatSame
<1>4. QED
  BY <1>1, <1>3 DEF ValueRest

\* Where a number may end.
LEMMA NumberNone ==
  ASSUME NEW A, A \subseteq Texts, NEW state \in NumberPc
  PROVE  /\ <<>> \in NumberRest(state, A) <=> state \in NumberEnds /\ <<>> \in A
         /\ state \in NumberEnds => A \subseteq NumberRest(state, A)
<1> DEFINE Ends(B) == (<<>> \in B <=> <<>> \in A) /\ A \subseteq B
           Goes(B) == <<>> \notin B
<1>1. \A S, B : <<>> \notin Letters(S) ** B
  BY FirstNotNone
<1>2. \A d, B : <<>> \notin Letter(d) ** B
  BY LetterNotNone
<1>3. /\ ExpDigits(A) \subseteq Texts /\ Powered(A) \subseteq Texts /\ Zero(A) \subseteq Texts
  BY NumberTexts
<1>4. \A S, B : B \subseteq Texts =>
        (<<>> \in Seq(S) ** B <=> <<>> \in B) /\ B \subseteq Seq(S) ** B
  <2> TAKE S, B
  <2>1. HAVE B \subseteq Texts
  <2> DEFINE D == Seq(S) ** B
             C == Letters(S) ** D
  <2>2. D = B \cup C
    BY <2>1, SeqStep
  <2>3. <<>> \notin C
    BY <1>1
  <2> HIDE DEF D, C
  <2>4. (<<>> \in D <=> <<>> \in B) /\ B \subseteq D
    BY <2>2, <2>3
  <2>5. QED
    BY <2>4 DEF D
<1>5. Ends(ExpDigits(A))
  BY <1>4 DEF ExpDigits
<1>6. Goes(ExpSign(A))
  BY <1>1 DEF ExpSign
<1>7. Goes(Exp(A))
  BY <1>2, <1>6 DEF Exp
<1>8. Ends(Powered(A))
  BY <1>2 DEF Powered
<1>9. Ends(Frac(A))
  BY <1>3, <1>4, <1>8 DEF Frac
<1>10. Goes(Point(A))
  BY <1>1 DEF Point
<1>11. Ends(Zero(A))
  BY <1>2, <1>8 DEF Zero
<1>12. Ends(Integer(A))
  BY <1>3, <1>4, <1>11 DEF Integer
<1>13. Goes(Minus(A))
  BY <1>2 DEF Minus
<1>14. Goes(Numbered(A))
  BY <1>2, <1>13 DEF Numbered
<1>15. CASE state = "number"
  BY <1>14, <1>15, RestIs DEF NumberEnds
<1>16. CASE state = "minus"
  BY <1>13, <1>16, RestIs DEF NumberEnds
<1>17. CASE state = "zero"
  BY <1>11, <1>17, RestIs DEF NumberEnds
<1>18. CASE state = "int"
  BY <1>12, <1>18, RestIs DEF NumberEnds
<1>19. CASE state = "point"
  BY <1>10, <1>19, RestIs DEF NumberEnds
<1>20. CASE state = "frac"
  BY <1>9, <1>20, RestIs DEF NumberEnds
<1>21. CASE state = "exp"
  BY <1>7, <1>21, RestIs DEF NumberEnds
<1>22. CASE state = "exp sign"
  BY <1>6, <1>22, RestIs DEF NumberEnds
<1>23. CASE state = "exp digits"
  BY <1>5, <1>23, RestIs DEF NumberEnds
<1>24. QED
  BY <1>15, <1>16, <1>17, <1>18, <1>19, <1>20, <1>21, <1>22, <1>23 DEF NumberPc

-----------------------------------------------------------------------------
\* The parser follows the grammar.

\* What may come after the characters the parser has moved over, at each of its
\* points, inside k arrays.
Rest(at, k) ==
  CASE at = "value" -> ValueRest(k)
    [] at = "open" -> Opened(k - 1)
    [] at \in {"after", "return", "trailing"} -> Follow[k]
    [] at = "string" -> StringRest(k)
    [] at = "escape" -> EscapeRest(k)
    [] OTHER -> NumberRest(at, Follow[k])

\* The character looked at is the last of the text, or the text has ended.
Reading ==
  /\ json \in Symbols \cup {End} /\ text \in Texts
  /\ json # End => Front(text) \in Texts /\ text = Front(text) \o <<json>>

\* The characters moved over.
Done == IF json = End THEN text ELSE Front(text)

\* The text may still become what the grammar has, in the ways A tells.
Fits(A) ==
  /\ \A u \in Texts : u \in A => Done \o u \in Json
  /\ json = End => (text \in Json => <<>> \in A)
  /\ json # End => \A u \in Texts : text \o u \in Json => u \in Past(json, A)

\* It cannot.
Rejected ==
  IF json = End THEN text \notin Json ELSE \A u \in Texts : text \o u \notin Json

Judged ==
  CASE ret = "OK" -> text \in Json
    [] ret = "ROOT_NOT_SINGULAR" -> Front(text) \in Json /\ Rejected
    [] OTHER -> v = Null /\ Rejected

Grammatical ==
  /\ Reading
  /\ Parsing => Fits(Rest(pc, Len(frames))) /\ (pc # "trailing" => v = Null)
  /\ pc = "done" => Judged

\* One more character.
LEMMA AppendText ==
  \A s \in Texts, c \in Symbols :
    /\ Append(s, c) \in Texts /\ Append(s, c) = s \o <<c>> /\ Front(Append(s, c)) = s
<1> TAKE s \in Texts, c \in Symbols
<1>1. <<c>> \in Texts /\ Len(<<c>>) = 1
  BY OneIs
<1>2. Append(s, c) = s \o <<c>>
  BY AppendIsConcat DEF Texts
<1>3. /\ s \o <<c>> \in Texts /\ Len(s \o <<c>>) = Len(s) + Len(<<c>>)
      /\ SubSeq(s \o <<c>>, 1, Len(s)) = s
  BY <1>1, JoinIs
<1>4. Len(s) \in Nat
  BY DEF Texts
<1>5. Len(s \o <<c>>) - 1 = Len(s)
  BY <1>1, <1>3, <1>4
<1>6. Front(s \o <<c>>) = s
  BY <1>3, <1>5 DEF Front
<1>7. QED
  BY <1>2, <1>3, <1>6

\* Reading the next character, or the end.
LEMMA ReadReads ==
  ASSUME Reading, NEW ch \in Symbols \cup {End}, Read(ch)
  PROVE  Reading' /\ Done' = text
<1>1. text \in Texts /\ End \notin Symbols /\ json' = ch
  BY LeptJsonAssumption DEF Reading, Read
<1>2. CASE ch = End
  BY <1>1, <1>2 DEF Reading, Read, Done
<1>3. CASE ch # End
  <2>1. ch \in Symbols /\ text' = Append(text, ch)
    BY <1>3 DEF Read
  <2>2. QED
    BY <1>1, <1>3, <2>1, AppendText DEF Reading, Done
<1>4. QED
  BY <1>2, <1>3

\* The parser moves over a character.
LEMMA AdvanceFits ==
  ASSUME Reading, json # End, Advance, NEW A, Fits(A), NEW B, Past(json, A) = B
  PROVE  Reading' /\ Fits(B)'
<1>1. PICK ch \in Symbols \cup {End} : Read(ch)
  BY LeptJsonAssumption DEF Advance, Offered
<1>2. json \in Symbols /\ text \in Texts /\ Front(text) \in Texts /\ text = Front(text) \o <<json>>
  BY DEF Reading
<1>3. Reading' /\ json' = ch /\ text' = IF ch = End THEN text ELSE Append(text, ch)
  BY <1>1, ReadReads DEF Read
<1>4. Done' = text
  BY <1>1, <1>2, <1>3, AppendText DEF Done
<1>5. \A u \in Texts : u \in B => text \o u \in Json
  <2>1. TAKE u \in Texts
  <2>2. HAVE u \in B
  <2>3. <<json>> \o u \in A /\ <<json>> \in Texts /\ <<json>> \o u \in Texts
    BY <1>2, <2>2, OneIs DEF Past
  <2>4. Front(text) \o (<<json>> \o u) \in Json
    BY <2>3 DEF Fits, Done
  <2>5. (Front(text) \o <<json>>) \o u = Front(text) \o (<<json>> \o u)
    BY <1>2, <2>3, JoinAssoc
  <2>6. QED
    BY <1>2, <2>4, <2>5
<1>6. \A u \in Texts : text \o u \in Json => u \in B
  BY DEF Fits
<1>7. CASE ch = End
  <2>1. text \in Json => <<>> \in B
    BY <1>2, <1>6, NoText
  <2>2. QED
    BY <1>3, <1>4, <1>5, <1>7, <2>1 DEF Fits
<1>8. CASE ch # End
  <2>1. ch \in Symbols /\ text' = text \o <<ch>> /\ <<ch>> \in Texts
    BY <1>2, <1>3, <1>8, AppendText, OneIs
  <2>2. \A u \in Texts : text' \o u \in Json => u \in Past(ch, B)
    <3>1. TAKE u \in Texts
    <3>2. HAVE text' \o u \in Json
    <3>3. <<ch>> \o u \in Texts
      BY <2>1, OneIs
    <3>4. (text \o <<ch>>) \o u = text \o (<<ch>> \o u)
      BY <1>2, <2>1, JoinAssoc
    <3>5. QED
      BY <1>6, <2>1, <3>2, <3>3, <3>4 DEF Past
  <2>3. QED
    BY <1>3, <1>4, <1>5, <1>8, <2>2 DEF Fits
<1>9. QED
  BY <1>3, <1>7, <1>8

\* It goes on without moving.
LEMMA StayFits ==
  ASSUME Reading, UNCHANGED input, NEW A, Fits(A), NEW B, B \subseteq A,
         json = End => (<<>> \in A => <<>> \in B),
         json # End => Past(json, A) \subseteq Past(json, B)
  PROVE  Reading' /\ Fits(B)'
<1>1. json' = json /\ text' = text
  BY DEF input
<1>2. Reading' /\ Done' = Done
  BY <1>1 DEF Reading, Done
<1>3. Fits(B)
  BY DEF Fits
<1>4. QED
  BY <1>1, <1>2, <1>3 DEF Fits

\* The same, for what remains at a point of the parser.
LEMMA FitsAt ==
  ASSUME NEW B, Fits(B)', B = Rest(pc', Len(frames'))
  PROVE  Fits(Rest(pc, Len(frames)))'
BY DEF Fits

\* It gives up.
LEMMA StopRejects ==
  ASSUME Reading, UNCHANGED input, NEW A, Fits(A),
         json = End => <<>> \notin A,
         json # End => Past(json, A) = {}
  PROVE  Reading' /\ Rejected'
<1>1. json' = json /\ text' = text
  BY DEF input
<1>2. Reading'
  BY <1>1 DEF Reading
<1>3. Rejected
  BY DEF Fits, Rejected
<1>4. QED
  BY <1>1, <1>2, <1>3 DEF Rejected

\* By point.
LEMMA RestAt ==
  \A k :
    /\ Rest("value", k) = ValueRest(k) /\ Rest("open", k) = Opened(k - 1)
    /\ Rest("after", k) = Follow[k] /\ Rest("return", k) = Follow[k]
    /\ Rest("trailing", k) = Follow[k]
    /\ Rest("string", k) = StringRest(k) /\ Rest("escape", k) = EscapeRest(k)
    /\ \A at \in Numeric : Rest(at, k) = NumberRest(at, Follow[k])
BY DEF Rest, Numeric

\* After a value, anywhere.
LEMMA FollowPast ==
  \A k \in Nat : k # 0 =>
    /\ k - 1 \in Nat /\ <<>> \notin Follow[k]
    /\ \A c \in Symbols : Past(c, Follow[k]) =
         IF c = " " THEN Follow[k] ELSE IF c = "]" THEN Follow[k - 1]
         ELSE IF c = "," THEN ValueRest(k) ELSE {}
<1> TAKE k \in Nat
<1>1. HAVE k # 0
<1>2. PICK m \in Nat : k = m + 1 /\ k - 1 = m
  <2>1. k - 1 \in Nat /\ k = (k - 1) + 1
    BY <1>1
  <2>2. QED
    BY <2>1
<1>3. QED
  BY <1>2, FollowSome

\* In an array just opened.
LEMMA OpenPast ==
  \A k \in Nat : k # 0 =>
    /\ k - 1 \in Nat /\ <<>> \notin Opened(k - 1)
    /\ ValueRest(k) \subseteq Opened(k - 1)
    /\ \A c \in Symbols : Past(c, Opened(k - 1)) =
         IF c = " " THEN Opened(k - 1) ELSE IF c = "]" THEN Follow[k - 1]
         ELSE Past(c, ValueRest(k))
<1> TAKE k \in Nat
<1>1. HAVE k # 0
<1>2. PICK m \in Nat : k = m + 1 /\ k - 1 = m
  <2>1. k - 1 \in Nat /\ k = (k - 1) + 1
    BY <1>1
  <2>2. QED
    BY <2>1
<1>3. QED
  BY <1>2, OpenedPast

\* The frames.
LEMMA FramesAre ==
  ASSUME Types, Flow
  PROVE  /\ frames \in Seq(Nat) /\ Len(frames) \in Nat
         /\ pc \in {"open", "after"} => Len(frames) # 0
         /\ pc = "trailing" => Len(frames) = 0
         /\ frames = <<>> <=> Len(frames) = 0
BY EmptySeq DEF Types, Flow

\* A character that the parser tells from the others is in the text.
LEMMA Named ==
  ASSUME Reading
  PROVE  /\ json # End => json \in Symbols
         /\ json \in {" ", "^", "[", "]", ",", "true", "tru", "quote", "backslash", "/",
                      "-", "0", "1", ".", "e"} => json # End
BY EndAssumption DEF Reading

\* The kinds of step.
LEMMA MovesOn ==
  ASSUME Grammatical, Parsing, json # End, Advance, v' = v, pc' \notin Outside,
         pc = "trailing" => pc' = "trailing",
         Past(json, Rest(pc, Len(frames))) = Rest(pc', Len(frames'))
  PROVE  Grammatical'
<1>0. PICK A, B : A = Rest(pc, Len(frames)) /\ B = Rest(pc', Len(frames'))
  OBVIOUS
<1>1. Reading /\ Fits(A) /\ (pc # "trailing" => v = Null)
  BY <1>0 DEF Grammatical
<1>2. Reading' /\ Fits(B)'
  <2>1. Past(json, A) = B
    BY <1>0
  <2>2. QED
    BY <1>1, <2>1, AdvanceFits
<1>3. Fits(Rest(pc, Len(frames)))'
  BY <1>0, <1>2, FitsAt
<1>4. pc' # "trailing" => v' = Null
  BY <1>1
<1>5. QED
  BY <1>2, <1>3, <1>4 DEF Grammatical, Outside

\* The parser goes on without moving.
LEMMA Stays ==
  ASSUME Grammatical, Parsing, UNCHANGED <<input, v>>, pc' \notin Outside,
         pc = "trailing" => pc' = "trailing",
         Rest(pc', Len(frames')) \subseteq Rest(pc, Len(frames)),
         json = End => (<<>> \in Rest(pc, Len(frames)) => <<>> \in Rest(pc', Len(frames'))),
         json # End => Past(json, Rest(pc, Len(frames))) \subseteq Past(json, Rest(pc', Len(frames')))
  PROVE  Grammatical'
<1>0. PICK A, B : A = Rest(pc, Len(frames)) /\ B = Rest(pc', Len(frames'))
  OBVIOUS
<1>1. Reading /\ Fits(A) /\ (pc # "trailing" => v = Null)
  BY <1>0 DEF Grammatical
<1>2. Reading' /\ Fits(B)'
  BY <1>0, <1>1, StayFits
<1>3. Fits(Rest(pc, Len(frames)))'
  BY <1>0, <1>2, FitsAt
<1>4. pc' # "trailing" => v' = Null
  BY <1>1
<1>5. QED
  BY <1>2, <1>3, <1>4 DEF Grammatical, Outside

\* The parser gives up.
LEMMA Stops ==
  ASSUME Grammatical, Parsing, UNCHANGED <<input, v>>, pc # "trailing", pc' = "done",
         ret' \notin {"OK", "ROOT_NOT_SINGULAR"},
         json = End => <<>> \notin Rest(pc, Len(frames)),
         json # End => Past(json, Rest(pc, Len(frames))) = {}
  PROVE  Grammatical'
<1>0. PICK A : A = Rest(pc, Len(frames))
  OBVIOUS
<1>1. Reading /\ Fits(A) /\ v = Null
  BY <1>0 DEF Grammatical
<1>2. Reading' /\ Rejected'
  BY <1>0, <1>1, StopRejects
<1>3. Judged'
  BY <1>1, <1>2 DEF Judged
<1>4. QED
  BY <1>2, <1>3 DEF Grammatical, Parsing

\* No parse is in progress.
LEMMA RestsOutside ==
  ASSUME Reading', pc' \in {"idle", "crashed", "freed twice"}
  PROVE  Grammatical'
BY DEF Grammatical, Parsing

\* White space.
LEMMA SkipWhitespaceFits ==
  ASSUME Types, Flow, Grammatical, SkipWhitespace
  PROVE  Grammatical'
<1> DEFINE k == Len(frames)
<1>1. /\ pc \in {"value", "open", "after", "trailing"} /\ json = " " /\ Advance
      /\ pc' = pc /\ frames' = frames /\ v' = v
  BY DEF SkipWhitespace, context, value
<1>2. json # End /\ json \in Symbols
  BY <1>1, Named DEF Grammatical
<1>3. /\ k \in Nat /\ (pc \in {"open", "after"} => k # 0) /\ (pc = "trailing" => k = 0)
  BY FramesAre
<1>4. CASE pc = "value"
  <2>1. Past(json, ValueRest(k)) = ValueRest(k)
    BY <1>1, <1>2, <1>3, ValueRestPast
  <2>2. Past(json, Rest(pc, k)) = Rest(pc', Len(frames'))
    BY <1>1, <1>4, <2>1, RestAt
  <2>3. QED
    BY <1>1, <1>2, <1>4, <2>2, MovesOn DEF Parsing, Outside
<1>5. CASE pc = "open"
  <2>1. Past(json, Opened(k - 1)) = Opened(k - 1)
    BY <1>1, <1>2, <1>3, <1>5, OpenPast
  <2>2. Past(json, Rest(pc, k)) = Rest(pc', Len(frames'))
    BY <1>1, <1>5, <2>1, RestAt
  <2>3. QED
    BY <1>1, <1>2, <1>5, <2>2, MovesOn DEF Parsing, Outside
<1>6. CASE pc \in {"after", "trailing"}
  <2>1. Past(json, Follow[k]) = Follow[k]
    <3>1. CASE pc = "after"
      BY <1>1, <1>2, <1>3, <3>1, FollowPast
    <3>2. CASE pc = "trailing"
      BY <1>1, <1>2, <1>3, <3>2, FollowNone
    <3>3. QED
      BY <1>6, <3>1, <3>2
  <2>2. Past(json, Rest(pc, k)) = Rest(pc', Len(frames'))
    BY <1>1, <1>6, <2>1, RestAt
  <2>3. QED
    BY <1>1, <1>2, <1>6, <2>2, MovesOn DEF Parsing, Outside
<1>7. QED
  BY <1>1, <1>4, <1>5, <1>6

\* A literal, and what is none.
LEMMA ParseLiteralFits ==
  ASSUME Types, Flow, Grammatical, ParseLiteral
  PROVE  Grammatical'
<1> DEFINE k == Len(frames)
<1>1. pc = "value" /\ json = "true" /\ Advance /\ pc' = "return" /\ frames' = frames /\ v' = v
  BY DEF ParseLiteral, context, value
<1>2. json # End /\ json \in Symbols /\ k \in Nat
  BY <1>1, Named, FramesAre DEF Grammatical
<1>3. Past(json, ValueRest(k)) = Follow[k]
  BY <1>1, <1>2, ValueRestPast
<1>4. Past(json, Rest(pc, k)) = Rest(pc', Len(frames'))
  BY <1>1, <1>3, RestAt
<1>5. QED
  BY <1>1, <1>2, <1>4, MovesOn DEF Parsing, Outside

\* Before a value, the characters of a number.
LEMMA NumberedPast ==
  \A k \in Nat : \A c \in Symbols :
    /\ Follow[k] \subseteq Texts /\ (c \in NumberSigns => Past(c, Follow[k]) = {})
    /\ Past(c, Numbered(Follow[k])) =
         IF c = "-" THEN Minus(Follow[k]) ELSE IF c = "0" THEN Zero(Follow[k])
         ELSE IF c = "1" THEN Integer(Follow[k]) ELSE {}
<1> TAKE k \in Nat
<1> TAKE c \in Symbols
<1>1. Follow[k] \subseteq Texts /\ (c \in NumberSigns => Past(c, Follow[k]) = {})
  BY FollowTexts, FollowSigns
<1>2. Past(c, Numbered(Follow[k])) =
         IF c = "-" THEN Minus(Follow[k]) ELSE IF c = "0" THEN Zero(Follow[k])
         ELSE IF c = "1" THEN Integer(Follow[k]) ELSE {}
  BY <1>1, NumberPast
<1>3. QED
  BY <1>1, <1>2

\* No value begins like this.
LEMMA ParseNothingFits ==
  ASSUME Types, Flow, Grammatical, ParseNothing
  PROVE  Grammatical'
<1> DEFINE k == Len(frames)
<1>1. pc = "value" /\ (json = "tru" \/ json = End) /\ UNCHANGED <<input, v>>
  BY DEF ParseNothing, value
<1>2. pc' = "done" /\ ret' \notin {"OK", "ROOT_NOT_SINGULAR"}
  BY DEF ParseNothing, Fail
<1>3. Reading /\ k \in Nat
  BY FramesAre DEF Grammatical
<1>4. <<>> \notin ValueRest(k)
  BY <1>3, ValueRestPast
<1>5. json # End => Past(json, ValueRest(k)) = {}
  <2>1. HAVE json # End
  <2>2. json = "tru" /\ json \in Symbols
    BY <1>1, <1>3, <2>1, Named
  <2>3. Past(json, Numbered(Follow[k])) = {}
    BY <1>3, <2>2, NumberedPast
  <2>4. QED
    BY <1>3, <2>2, <2>3, ValueRestPast
<1>6. /\ <<>> \notin Rest(pc, k) /\ (json # End => Past(json, Rest(pc, k)) = {})
  BY <1>1, <1>4, <1>5, RestAt
<1>7. QED
  BY <1>1, <1>2, <1>6, Stops DEF Parsing

\* A number: over one more character, or at its end.
LEMMA ParseNumberFits ==
  ASSUME Types, Flow, Grammatical, ParseNumber
  PROVE  Grammatical'
<1> DEFINE k == Len(frames)
           F == Follow[k]
<1> PICK state : state = IF pc = "value" THEN "number" ELSE pc
  OBVIOUS
<1>1. \/ pc = "value" /\ json \notin {" ", "true", "tru", "quote", "[", End}
      \/ pc \in Numeric
  BY NumberPoints DEF ParseNumber
<1>2. /\ state \in NumberPc /\ v' = v
      /\ \/ /\ \E g \in NumberGoes : g[1] = state /\ g[2] = json /\ pc' = g[3]
            /\ Advance /\ frames' = frames
         \/ /\ \A g \in NumberGoes : ~(g[1] = state /\ g[2] = json)
            /\ IF state \in NumberEnds THEN pc' = "return" /\ frames' = frames
                                       ELSE Fail("INVALID_VALUE", frames)
            /\ UNCHANGED input
  BY <1>1 DEF ParseNumber, value, NumberPc, Numeric
<1>3. Reading /\ k \in Nat /\ F \subseteq Texts
  BY FramesAre, FollowTexts DEF Grammatical
<1>4. /\ Parsing /\ pc # "trailing" /\ pc \notin Outside
  BY <1>1 DEF Parsing, Outside, Numeric
<1>5. state \in Numeric <=> pc \in Numeric
  BY <1>1, <1>2 DEF Numeric
<1>6. /\ <<>> \in NumberRest(state, F) <=> state \in NumberEnds /\ <<>> \in F
      /\ state \in NumberEnds => F \subseteq NumberRest(state, F)
  BY <1>2, <1>3, NumberNone
<1>7. ASSUME json # End
      PROVE  /\ json \in Symbols
             /\ json \in NumberSigns => Past(json, F) = {}
             /\ \A to : Moves(state, json, to) =>
                  to \in NumberPc \ {"number"} /\ Past(json, NumberRest(state, F)) = NumberRest(to, F)
             /\ (\A to : ~Moves(state, json, to)) =>
                  Past(json, NumberRest(state, F)) = IF state \in NumberEnds THEN Past(json, F) ELSE {}
  <2>1. json \in Symbols
    BY <1>3, <1>7, Named
  <2>2. json \in NumberSigns => Past(json, F) = {}
    BY <1>3, <2>1, FollowSigns
  <2> HIDE DEF F
  <2>3. QED
    BY <1>2, <1>3, <2>1, <2>2, NumberSteps
<1>8. /\ pc = "value" => Rest(pc, k) = ValueRest(k) /\ state = "number"
      /\ pc \in Numeric => Rest(pc, k) = NumberRest(state, F) /\ state = pc
  BY RestAt DEF Numeric
<1>9. json # End => Past(json, Rest(pc, k)) = Past(json, NumberRest(state, F))
  <2>1. HAVE json # End
  <2>2. CASE pc = "value"
    <3>1. json \in Symbols /\ json \notin {" ", "true", "quote", "["}
      BY <1>1, <1>7, <2>1, <2>2 DEF Numeric
    <3>2. Past(json, ValueRest(k)) = Past(json, Numbered(F))
      BY <1>3, <3>1, ValueRestPast
    <3>3. NumberRest(state, F) = Numbered(F)
      BY <1>8, <2>2, RestIs
    <3>4. QED
      BY <1>8, <2>2, <3>2, <3>3
  <2>3. CASE pc \in Numeric
    BY <1>8, <2>3
  <2>4. QED
    BY <1>1, <2>2, <2>3
<1>10. <<>> \in Rest(pc, k) <=> <<>> \in NumberRest(state, F)
  <2>1. CASE pc = "value"
    <3>1. <<>> \notin ValueRest(k)
      BY <1>3, ValueRestPast
    <3>2. "number" \notin NumberEnds
      BY DEF NumberEnds
    <3>3. QED
      BY <1>6, <1>8, <2>1, <3>1, <3>2
  <2>2. CASE pc \in Numeric
    BY <1>8, <2>2
  <2>3. QED
    BY <1>1, <2>1, <2>2
<1> HIDE DEF F
<1>11. CASE /\ \E g \in NumberGoes : g[1] = state /\ g[2] = json /\ pc' = g[3]
            /\ Advance /\ frames' = frames
  <2>1. Moves(state, json, pc')
    BY <1>11, GoesMoves
  <2>2. json \in NumberSigns
    BY <2>1 DEF Moves, NumberSigns, Digits
  <2>3. json # End
    BY <1>3, <2>2, Named DEF NumberSigns
  <2>4. /\ pc' \in NumberPc \ {"number"}
        /\ Past(json, NumberRest(state, F)) = NumberRest(pc', F)
    BY <1>7, <2>1, <2>3
  <2>5. pc' \in Numeric
    BY <2>4 DEF NumberPc, Numeric
  <2>6. Rest(pc', Len(frames')) = NumberRest(pc', F)
    BY <1>11, <2>5, RestAt DEF F
  <2>7. Past(json, Rest(pc, k)) = Rest(pc', Len(frames'))
    BY <1>9, <2>3, <2>4, <2>6
  <2>8. pc' \notin Outside
    BY <2>5 DEF Numeric, Outside
  <2>9. QED
    BY <1>2, <1>4, <1>11, <2>3, <2>7, <2>8, MovesOn
<1>12. CASE /\ \A g \in NumberGoes : ~(g[1] = state /\ g[2] = json)
            /\ IF state \in NumberEnds THEN pc' = "return" /\ frames' = frames
                                       ELSE Fail("INVALID_VALUE", frames)
            /\ UNCHANGED input
  <2>1. \A to : ~Moves(state, json, to)
    BY <1>12, GoesMoves
  <2>2. json # End =>
          Past(json, Rest(pc, k)) = IF state \in NumberEnds THEN Past(json, F) ELSE {}
    BY <1>7, <1>9, <2>1
  <2>3. CASE state \in NumberEnds
    <3>1. pc' = "return" /\ frames' = frames
      BY <1>12, <2>3
    <3>2. Rest(pc', Len(frames')) = F
      BY <3>1, RestAt DEF F
    <3>3. pc \in Numeric
      BY <1>5, <2>3 DEF NumberEnds, Numeric
    <3>4. F \subseteq Rest(pc, k)
      BY <1>6, <1>8, <2>3, <3>3
    <3>5. json = End => (<<>> \in Rest(pc, k) => <<>> \in F)
      BY <1>6, <1>10
    <3>6. json # End => Past(json, Rest(pc, k)) \subseteq Past(json, F)
      BY <2>2, <2>3
    <3>7. QED
      BY <1>2, <1>4, <1>12, <3>1, <3>2, <3>4, <3>5, <3>6, Stays DEF Outside
  <2>4. CASE state \notin NumberEnds
    <3>1. pc' = "done" /\ ret' \notin {"OK", "ROOT_NOT_SINGULAR"}
      BY <1>12, <2>4 DEF Fail
    <3>2. <<>> \notin Rest(pc, k)
      BY <1>6, <1>10, <2>4
    <3>3. json # End => Past(json, Rest(pc, k)) = {}
      BY <2>2, <2>4
    <3>4. QED
      BY <1>2, <1>4, <1>12, <3>1, <3>2, <3>3, Stops
  <2>5. QED
    BY <2>3, <2>4
<1>13. QED
  BY <1>2, <1>11, <1>12

\* A string.
LEMMA StringBeginsFits ==
  ASSUME Types, Flow, Grammatical, StringBegins
  PROVE  Grammatical'
<1> DEFINE k == Len(frames)
<1>1. pc = "value" /\ json = "quote" /\ Advance /\ pc' = "string" /\ frames' = frames /\ v' = v
  BY DEF StringBegins, value
<1>2. json # End /\ json \in Symbols /\ k \in Nat
  BY <1>1, Named, FramesAre DEF Grammatical
<1>3. Past(json, ValueRest(k)) = StringRest(k)
  BY <1>1, <1>2, ValueRestPast
<1>4. Past(json, Rest(pc, k)) = Rest(pc', Len(frames'))
  BY <1>1, <1>3, RestAt
<1>5. QED
  BY <1>1, <1>2, <1>4, MovesOn DEF Parsing, Outside

\* A character of a string.
LEMMA StringCharFits ==
  ASSUME Types, Flow, Grammatical, StringChar
  PROVE  Grammatical'
<1> DEFINE k == Len(frames)
<1>1. /\ pc = "string" /\ json \notin Low \cup {"quote", "backslash", End} /\ Advance
      /\ pc' = "string" /\ frames' = frames /\ v' = v
  BY DEF StringChar, value
<1>2. json # End /\ json \in Symbols /\ k \in Nat
  BY <1>1, Named, FramesAre DEF Grammatical
<1>3. json \in Plain /\ json # "quote"
  BY <1>1, <1>2 DEF Plain
<1>4. Past(json, StringRest(k)) = StringRest(k)
  BY <1>2, <1>3, StringPast
<1>5. Past(json, Rest(pc, k)) = Rest(pc', Len(frames'))
  BY <1>1, <1>4, RestAt
<1>6. QED
  BY <1>1, <1>2, <1>5, MovesOn DEF Parsing, Outside

\* The backslash of an escape.
LEMMA StringEscapeFits ==
  ASSUME Types, Flow, Grammatical, StringEscape
  PROVE  Grammatical'
<1> DEFINE k == Len(frames)
<1>1. /\ pc = "string" /\ json = "backslash" /\ Advance
      /\ pc' = "escape" /\ frames' = frames /\ v' = v
  BY DEF StringEscape, context, value
<1>2. json # End /\ json \in Symbols /\ k \in Nat
  BY <1>1, Named, FramesAre DEF Grammatical
<1>3. json \notin Plain /\ json # "quote"
  BY <1>1 DEF Plain
<1>4. Past(json, StringRest(k)) = EscapeRest(k)
  BY <1>1, <1>2, <1>3, StringPast
<1>5. Past(json, Rest(pc, k)) = Rest(pc', Len(frames'))
  BY <1>1, <1>4, RestAt
<1>6. QED
  BY <1>1, <1>2, <1>5, MovesOn DEF Parsing, Outside

\* The character after it.
LEMMA EscapeFits ==
  ASSUME Types, Flow, Grammatical, Escape
  PROVE  Grammatical'
<1> DEFINE k == Len(frames)
<1>1. /\ pc = "escape" /\ json \in Escapes /\ Advance
      /\ pc' = "string" /\ frames' = frames /\ v' = v
  BY DEF Escape, value
<1>2. Reading /\ k \in Nat
  BY FramesAre DEF Grammatical
<1>3. json # End /\ json \in Symbols
  BY <1>1, <1>2, Named DEF Escapes
<1>4. Past(json, EscapeRest(k)) = StringRest(k)
  BY <1>1, <1>2, <1>3, EscapePast
<1>5. Past(json, Rest(pc, k)) = Rest(pc', Len(frames'))
  BY <1>1, <1>4, RestAt
<1>6. QED
  BY <1>1, <1>3, <1>5, MovesOn DEF Parsing, Outside

\* A character that no string has there, or the end of the text.
LEMMA StringBadFits ==
  ASSUME Types, Flow, Grammatical, StringBad
  PROVE  Grammatical'
<1> DEFINE k == Len(frames)
<1>1. /\ \/ pc = "escape" /\ json \notin Escapes
         \/ pc = "string" /\ json \in Low
         \/ pc = "string" /\ json = End
      /\ pc' = "done" /\ ret' \notin {"OK", "ROOT_NOT_SINGULAR"}
      /\ UNCHANGED <<input, v>>
  BY DEF StringBad, Fail, value
<1>2. Reading /\ k \in Nat
  BY FramesAre DEF Grammatical
<1>3. json # End => json \in Symbols
  BY <1>2, Named
<1>4. CASE pc = "escape"
  <2>1. <<>> \notin EscapeRest(k) /\ (json # End => Past(json, EscapeRest(k)) = {})
    BY <1>1, <1>2, <1>3, <1>4, EscapePast
  <2>2. <<>> \notin Rest(pc, k) /\ (json # End => Past(json, Rest(pc, k)) = {})
    BY <1>4, <2>1, RestAt
  <2>3. QED
    BY <1>1, <1>4, <2>2, Stops DEF Parsing
<1>5. CASE pc = "string"
  <2>1. <<>> \notin StringRest(k)
    BY <1>2, StringPast
  <2>2. json # End => Past(json, StringRest(k)) = {}
    <3>1. HAVE json # End
    <3>2. json \in Low /\ json \in Symbols
      BY <1>1, <1>3, <1>5, <3>1
    <3>3. json # "quote" /\ json # "backslash" /\ json \notin Plain
      BY <3>2 DEF Low, Plain
    <3>4. QED
      BY <1>2, <3>2, <3>3, StringPast
  <2>3. <<>> \notin Rest(pc, k) /\ (json # End => Past(json, Rest(pc, k)) = {})
    BY <1>5, <2>1, <2>2, RestAt
  <2>4. QED
    BY <1>1, <1>5, <2>3, Stops DEF Parsing
<1>6. QED
  BY <1>1, <1>4, <1>5

\* The end of a string.
LEMMA StringEndsFits ==
  ASSUME Types, Flow, Grammatical, StringEnds
  PROVE  Grammatical'
<1> DEFINE k == Len(frames)
<1>1. /\ pc = "string" /\ json = "quote" /\ Advance
      /\ pc' = "return" \/ pc' = "crashed"
      /\ frames' = frames /\ v' = v
  BY DEF StringEnds, value
<1>2. json # End /\ json \in Symbols /\ k \in Nat /\ Reading
  BY <1>1, Named, FramesAre DEF Grammatical
<1>3. Past(json, StringRest(k)) = Follow[k]
  BY <1>1, <1>2, StringPast
<1>4. CASE pc' = "return"
  <2>1. Past(json, Rest(pc, k)) = Rest(pc', Len(frames'))
    BY <1>1, <1>3, <1>4, RestAt
  <2>2. QED
    BY <1>1, <1>2, <1>4, <2>1, MovesOn DEF Parsing, Outside
<1>5. CASE pc' = "crashed"
  <2>1. Reading'
    <3>1. PICK ch \in Symbols \cup {End} : Read(ch)
      BY <1>1, LeptJsonAssumption DEF Advance, Offered
    <3>2. QED
      BY <1>2, <3>1, ReadReads
  <2>2. QED
    BY <1>5, <2>1, RestsOutside
<1>6. QED
  BY <1>1, <1>4, <1>5

\* An array.
LEMMA ArrayBeginsFits ==
  ASSUME Types, Flow, Grammatical, ArrayBegins
  PROVE  Grammatical'
<1> DEFINE k == Len(frames)
<1>1. /\ pc = "value" /\ json = "[" /\ Advance /\ pc' = "open"
      /\ frames' = Append(frames, 0) /\ v' = v
  BY DEF ArrayBegins, value
<1>2. json # End /\ json \in Symbols /\ k \in Nat /\ frames \in Seq(Nat)
  BY <1>1, Named, FramesAre DEF Grammatical
<1>3. Past(json, ValueRest(k)) = Opened(k)
  BY <1>1, <1>2, ValueRestPast
<1>4. Len(frames') - 1 = k
  BY <1>1, <1>2
<1>5. Past(json, Rest(pc, k)) = Rest(pc', Len(frames'))
  BY <1>1, <1>3, <1>4, RestAt
<1>6. QED
  BY <1>1, <1>2, <1>5, MovesOn DEF Parsing, Outside

\* One array less.
LEMMA FrontLen ==
  ASSUME Types, frames # <<>>
  PROVE  Len(Front(frames)) = Len(frames) - 1
<1>1. frames \in Seq(Nat) /\ Len(frames) \in Nat /\ Len(frames) # 0
  BY EmptySeq DEF Types
<1>2. Len(frames) - 1 \in 0..Len(frames)
  BY <1>1
<1>3. Len(SubSeq(frames, 1, Len(frames) - 1)) = Len(frames) - 1
  BY <1>1, <1>2, Prefix
<1>4. QED
  BY <1>3 DEF Front

\* An array without elements.
LEMMA EmptyFits ==
  ASSUME Types, Flow, Grammatical, Empty
  PROVE  Grammatical'
<1> DEFINE k == Len(frames)
<1>1. /\ pc = "open" /\ json = "]" /\ Advance /\ pc' = "return"
      /\ frames' = Front(frames) /\ v' = v
  BY DEF Empty, value
<1>2. json # End /\ json \in Symbols /\ k \in Nat /\ k # 0 /\ frames # <<>>
  BY <1>1, Named, FramesAre DEF Grammatical
<1>3. Past(json, Opened(k - 1)) = Follow[k - 1]
  BY <1>1, <1>2, OpenPast
<1>4. Len(frames') = k - 1
  BY <1>1, <1>2, FrontLen
<1>5. Past(json, Rest(pc, k)) = Rest(pc', Len(frames'))
  BY <1>1, <1>3, <1>4, RestAt
<1>6. QED
  BY <1>1, <1>2, <1>5, MovesOn DEF Parsing, Outside

\* Its first element begins.
LEMMA FirstElementFits ==
  ASSUME Types, Flow, Grammatical, FirstElement
  PROVE  Grammatical'
<1> DEFINE k == Len(frames)
<1>1. /\ pc = "open" /\ json \notin {" ", "]"} /\ pc' = "value"
      /\ frames' = frames /\ UNCHANGED <<input, v>>
  BY DEF FirstElement, context, value
<1>2. Reading /\ k \in Nat /\ k # 0
  BY <1>1, FramesAre DEF Grammatical
<1>3. json # End => json \in Symbols
  BY <1>2, Named
<1>4. /\ <<>> \notin Opened(k - 1) /\ ValueRest(k) \subseteq Opened(k - 1)
      /\ json # End => Past(json, Opened(k - 1)) = Past(json, ValueRest(k))
  BY <1>1, <1>2, <1>3, OpenPast
<1>5. Rest(pc, k) = Opened(k - 1) /\ Rest(pc', Len(frames')) = ValueRest(k)
  BY <1>1, RestAt
<1>6. QED
  BY <1>1, <1>4, <1>5, Stays DEF Parsing, Outside

\* Another element begins.
LEMMA CommaFits ==
  ASSUME Types, Flow, Grammatical, Comma
  PROVE  Grammatical'
<1> DEFINE k == Len(frames)
<1>1. /\ pc = "after" /\ json = "," /\ Advance /\ pc' = "value"
      /\ frames' = frames /\ v' = v
  BY DEF Comma, context, value
<1>2. json # End /\ json \in Symbols /\ k \in Nat /\ k # 0
  BY <1>1, Named, FramesAre DEF Grammatical
<1>3. Past(json, Follow[k]) = ValueRest(k)
  BY <1>1, <1>2, FollowPast
<1>4. Past(json, Rest(pc, k)) = Rest(pc', Len(frames'))
  BY <1>1, <1>3, RestAt
<1>5. QED
  BY <1>1, <1>2, <1>4, MovesOn DEF Parsing, Outside

\* The end of an array.
LEMMA ArrayEndsFits ==
  ASSUME Types, Flow, Grammatical, ArrayEnds
  PROVE  Grammatical'
<1> DEFINE k == Len(frames)
<1>1. /\ pc = "after" /\ json = "]" /\ Advance /\ pc' = "return"
      /\ frames' = Front(frames) /\ v' = v
  BY DEF ArrayEnds, value
<1>2. json # End /\ json \in Symbols /\ k \in Nat /\ k # 0 /\ frames # <<>>
  BY <1>1, Named, FramesAre DEF Grammatical
<1>3. Past(json, Follow[k]) = Follow[k - 1]
  BY <1>1, <1>2, FollowPast
<1>4. Len(frames') = k - 1
  BY <1>1, <1>2, FrontLen
<1>5. Past(json, Rest(pc, k)) = Rest(pc', Len(frames'))
  BY <1>1, <1>3, <1>4, RestAt
<1>6. QED
  BY <1>1, <1>2, <1>5, MovesOn DEF Parsing, Outside

\* Neither a comma nor the end of the array.
LEMMA ArrayBadFits ==
  ASSUME Types, Flow, Grammatical, ArrayBad
  PROVE  Grammatical'
<1> DEFINE k == Len(frames)
<1>1. /\ pc = "after" /\ json \notin {" ", ",", "]"} /\ pc' = "done"
      /\ ret' \notin {"OK", "ROOT_NOT_SINGULAR"} /\ UNCHANGED <<input, v>>
  BY DEF ArrayBad, Fail, value
<1>2. Reading /\ k \in Nat /\ k # 0
  BY <1>1, FramesAre DEF Grammatical
<1>3. json # End => json \in Symbols
  BY <1>2, Named
<1>4. <<>> \notin Follow[k] /\ (json # End => Past(json, Follow[k]) = {})
  BY <1>1, <1>2, <1>3, FollowPast
<1>5. Rest(pc, k) = Follow[k]
  BY <1>1, RestAt
<1>6. QED
  BY <1>1, <1>4, <1>5, Stops DEF Parsing

\* A value has been read: the caller's, or an element.
LEMMA ReturnValueFits ==
  ASSUME Types, Flow, Grammatical, ReturnValue
  PROVE  Grammatical'
<1> DEFINE k == Len(frames)
<1>1. /\ pc = "return" /\ UNCHANGED input
      /\ \/ frames = <<>> /\ pc' = "trailing" /\ frames' = frames
         \/ /\ frames # <<>> /\ pc' = "after" /\ v' = v
            /\ frames' = [frames EXCEPT ![Len(frames)] = @ + 1]
  BY DEF ReturnValue, context
<1>2. frames \in Seq(Nat) /\ k \in Nat
  BY FramesAre
<1>3. Len(frames') = k
  BY <1>1, <1>2
<1>4. Rest(pc, k) = Follow[k] /\ Rest(pc', Len(frames')) = Follow[k]
  BY <1>1, <1>3, RestAt
<1>5. CASE frames = <<>> /\ pc' = "trailing" /\ frames' = frames
  <2>0. PICK A : A = Follow[k]
    OBVIOUS
  <2>1. Reading /\ Fits(A)
    BY <1>1, <1>4, <2>0 DEF Grammatical, Parsing
  <2>2. Reading' /\ Fits(A)'
    BY <1>1, <2>1, StayFits
  <2>3. Fits(Rest(pc, Len(frames)))'
    BY <1>4, <2>0, <2>2, FitsAt
  <2>4. QED
    BY <1>5, <2>2, <2>3 DEF Grammatical
<1>6. CASE /\ frames # <<>> /\ pc' = "after" /\ v' = v
           /\ frames' = [frames EXCEPT ![Len(frames)] = @ + 1]
  BY <1>1, <1>4, <1>6, Stays DEF Parsing, Outside
<1>7. QED
  BY <1>1, <1>5, <1>6

\* What follows the value.
LEMMA TrailingFits ==
  ASSUME Types, Flow, Grammatical, Trailing
  PROVE  Grammatical'
<1>1. /\ pc = "trailing" /\ json # " " /\ pc' = "done"
      /\ ret' = IF json = End THEN "OK" ELSE "ROOT_NOT_SINGULAR"
      /\ json' = json /\ text' = text /\ v' = v
  BY DEF Trailing, input, value
<1>2. Len(frames) = 0
  BY <1>1, FramesAre
<1>3. Reading /\ Fits(Follow[0])
  BY <1>1, <1>2, RestAt DEF Grammatical, Parsing
<1>4. Reading'
  BY <1>1, <1>3 DEF Reading
<1>5. Done \in Texts /\ Done \o <<>> = Done /\ Done \in Json
  <2>1. Done \in Texts
    BY <1>3 DEF Reading, Done
  <2>2. <<>> \in Texts /\ <<>> \in Follow[0] /\ Done \o <<>> = Done
    BY <2>1, NoText, FollowNone
  <2>3. Done \o <<>> \in Json
    BY <1>3, <2>2 DEF Fits
  <2>4. QED
    BY <2>1, <2>2, <2>3
<1>6. CASE json = End
  <2>1. ret' = "OK" /\ text' \in Json
    BY <1>1, <1>5, <1>6 DEF Done
  <2>2. QED
    BY <1>1, <1>4, <2>1 DEF Grammatical, Parsing, Judged
<1>7. CASE json # End
  <2>1. json \in Symbols
    BY <1>3, <1>7, Named
  <2>2. Past(json, Follow[0]) = {}
    BY <1>1, <2>1, FollowNone
  <2>3. Rejected'
    BY <1>1, <1>3, <1>7, <2>2, StopRejects DEF input
  <2>4. ret' = "ROOT_NOT_SINGULAR" /\ Front(text') \in Json
    BY <1>1, <1>5, <1>7 DEF Done
  <2>5. Judged'
    BY <2>3, <2>4 DEF Judged
  <2>6. QED
    BY <1>1, <1>4, <2>5 DEF Grammatical, Parsing
<1>8. QED
  BY <1>6, <1>7

\* A parse begins with the whole grammar before it.
LEMMA ParseFits ==
  ASSUME Parse
  PROVE  Grammatical'
<1>1. PICK ch \in Symbols \cup {End} : json' = ch /\ text' = IF ch = End THEN <<>> ELSE <<ch>>
  BY DEF Parse
<1>2. pc' = "value" /\ frames' = <<>> /\ v' = Null
  BY DEF Parse
<1>3. Rest(pc', Len(frames')) = Json
  <2>1. Len(<<>>) = 0
    BY NoText
  <2>2. QED
    BY <1>2, <2>1, RestAt, JsonIs
<1>4. <<>> \in Texts /\ \A u \in Texts : <<>> \o u = u
  BY NoText
<1>5. Reading' /\ Done' = <<>>
  <2>1. CASE ch = End
    BY <1>1, <1>4, <2>1 DEF Reading, Done
  <2>2. CASE ch # End
    <3>1. ch \in Symbols
      BY <2>2
    <3>2. Append(<<>>, ch) = <<>> \o <<ch>> /\ Front(Append(<<>>, ch)) = <<>> /\ <<ch>> \in Texts
      BY <1>4, <3>1, AppendText, OneIs
    <3>3. <<>> \o <<ch>> = <<ch>>
      BY <1>4, <3>2
    <3>4. Front(<<ch>>) = <<>>
      BY <3>2, <3>3
    <3>5. QED
      BY <1>1, <1>4, <2>2, <3>2, <3>3, <3>4 DEF Reading, Done
  <2>3. QED
    BY <2>1, <2>2
<1>6. Fits(Json)'
  <2>1. \A u \in Texts : u \in Json => Done' \o u \in Json
    BY <1>4, <1>5
  <2>2. json' = End => (text' \in Json => <<>> \in Json)
    BY <1>1
  <2>3. json' # End => \A u \in Texts : text' \o u \in Json => u \in Past(json', Json)
    BY <1>1 DEF Past
  <2>4. QED
    BY <2>1, <2>2, <2>3 DEF Fits
<1>7. Fits(Rest(pc, Len(frames)))'
  BY <1>3, <1>6 DEF Fits
<1>8. QED
  BY <1>2, <1>5, <1>7 DEF Grammatical

\* Every step keeps it.
LEMMA NextFits ==
  ASSUME Types, Flow, Grammatical, [Next]_vars
  PROVE  Grammatical'
<1>1. CASE UNCHANGED vars
  BY <1>1 DEF vars, input, context, value, Grammatical, Reading, Parsing, Fits, Done,
              Judged, Rejected
<1>2. CASE SkipWhitespace \/ ParseLiteral \/ ParseNothing \/ ParseNumber \/ Parse
  BY <1>2, SkipWhitespaceFits, ParseLiteralFits, ParseNothingFits, ParseNumberFits, ParseFits
<1>3. CASE \/ StringBegins \/ StringChar \/ StringEscape \/ Escape \/ StringBad \/ StringEnds
  BY <1>3, StringBeginsFits, StringCharFits, StringEscapeFits, EscapeFits, StringBadFits,
     StringEndsFits
<1>4. CASE \/ ArrayBegins \/ Empty \/ FirstElement \/ ReturnValue \/ Comma \/ ArrayEnds
           \/ ArrayBad \/ Trailing
  BY <1>4, ArrayBeginsFits, EmptyFits, FirstElementFits, ReturnValueFits, CommaFits,
     ArrayEndsFits, ArrayBadFits, TrailingFits
<1>5. CASE ReturnToCaller
  <2>1. pc' = "idle" /\ json' = End /\ text' = <<>>
    BY <1>5 DEF ReturnToCaller
  <2>2. Reading'
    BY <2>1, NoText DEF Reading
  <2>3. QED
    BY <2>1, <2>2, RestsOutside
<1>6. CASE InitValue \/ SetString \/ SetNumber \/ SetBoolean \/ SetNull \/ Free
  <2>1. pc' \in {"idle", "freed twice"} /\ UNCHANGED input
    BY <1>6 DEF InitValue, SetString, SetNumber, SetBoolean, SetScalar, SetNull, Free, FreeAgain
  <2>2. Reading'
    BY <2>1 DEF Grammatical, Reading, input
  <2>3. QED
    BY <2>1, <2>2, RestsOutside
<1>7. CASE Crashed
  BY <1>1, <1>7 DEF Crashed
<1>8. QED
  BY <1>1, <1>2, <1>3, <1>4, <1>5, <1>6, <1>7 DEF Next, SetNullNext

\* It begins so.
LEMMA InitFits == Init => Grammatical
BY NoText DEF Init, Grammatical, Reading, Parsing

\* What it says of a parse that returns.
LEMMA JudgedAccepts == Grammatical => AcceptsJson
<1> SUFFICES ASSUME Grammatical, pc = "done"
             PROVE  CASE ret = "OK" -> text \in Json
                      [] ret = "ROOT_NOT_SINGULAR" -> Front(text) \in Json /\ Hopeless
                      [] OTHER -> v = Null /\ Hopeless
  BY DEF AcceptsJson
<1>1. Judged
  BY DEF Grammatical
<1>2. Rejected => Hopeless
  BY DEF Rejected, Hopeless, Endings
<1>3. QED
  BY <1>1, <1>2 DEF Judged

-----------------------------------------------------------------------------
\* No error comes late.

\* The characters that can finish any text.
Enough == {"true", "]", "quote", "0"} \subseteq Symbols

\* A text of each makes one of the product.
LEMMA CatSome ==
  \A A, B : (\E a \in Texts : a \in A) /\ (\E b \in Texts : b \in B)
              => \E c \in Texts : c \in A ** B
<1> TAKE A, B
<1>1. HAVE (\E a \in Texts : a \in A) /\ (\E b \in Texts : b \in B)
<1>2. PICK a \in Texts : a \in A
  BY <1>1
<1>3. PICK b \in Texts : b \in B
  BY <1>1
<1>4. a \o b \in A ** B
  BY <1>2, <1>3, CatHas
<1>5. a \o b \in Texts
  BY JoinText
<1>6. QED
  BY <1>4, <1>5

\* One character is enough for a set of them.
LEMMA LettersSome ==
  \A S : \A c \in Symbols : c \in S => \E s \in Texts : s \in Letters(S)
<1> TAKE S
<1> TAKE c \in Symbols
<1>1. HAVE c \in S
<1>2. <<c>> \in Texts /\ <<c>> \in Letters(S)
  BY <1>1, OneIs DEF Letters
<1>3. QED
  BY <1>2

\* There is always a way to go on.
LEMMA RestSome ==
  ASSUME Enough, NEW k \in Nat
  PROVE  /\ \E s \in Texts : s \in Follow[k]
         /\ \E s \in Texts : s \in ValueRest(k)
         /\ \E s \in Texts : s \in Opened(k)
         /\ \E s \in Texts : s \in StringRest(k)
         /\ \E s \in Texts : s \in EscapeRest(k)
         /\ \A state \in NumberPc : \E s \in Texts : s \in NumberRest(state, Follow[k])
<1> DEFINE Some(A) == \E s \in Texts : s \in A
<1>1. \A A, B : Some(A) /\ Some(B) => Some(A ** B)
  BY CatSome
<1>2. \A A, B : Some(A) => Some(A \cup B) /\ Some(B \cup A)
  OBVIOUS
<1>3. Some(Letter("]")) /\ Some(Letter("quote")) /\ Some(Letter("0"))
  BY LettersSome DEF Letter, Enough
<1>4. Some(Letters(Escapes)) /\ Some(Letters(Digits))
  BY LettersSome DEF Enough, Escapes, Digits
<1>5. \A S : Some(Seq(S))
  <2>1. \A S : <<>> \in Seq(S)
    BY EmptySeq
  <2>2. QED
    BY <2>1, NoText
<1>6. Some(Blank)
  BY <1>5 DEF Blank
<1>7. Some(Body)
  <2>1. <<>> \in Body
    BY BodyIs
  <2>2. QED
    BY <2>1, NoText
<1>8. Some(Val)
  <2>1. <<"true">> \in Texts
    BY OneIs DEF Enough
  <2>2. <<"true">> \in Val
    BY DEF Val, Value
  <2>3. QED
    BY <2>1, <2>2
<1> HIDE DEF Some
<1>9. \A n \in Nat : Some(Follow[n])
  <2> DEFINE Q == {n \in Nat : Some(Follow[n])}
  <2>1. 0 \in Q
    BY FollowNone, NoText DEF Some
  <2>2. ASSUME NEW n \in Nat, n \in Q
        PROVE  n + 1 \in Q
    <3> DEFINE X == Letter("]") ** Follow[n]
               C == Letter(",") ** (List ** X)
    <3>1. Some(X)
      BY <1>1, <1>3, <2>2
    <3>2. Follow[n + 1] = Blank ** (X \cup C)
      BY FollowIs DEF Follows
    <3> HIDE DEF X, C
    <3>3. Some(X \cup C)
      BY <1>2, <3>1
    <3>4. Some(Follow[n + 1])
      BY <1>1, <1>6, <3>2, <3>3
    <3>5. QED
      BY <3>4
  <2> HIDE DEF Q
  <2>3. \A n \in Nat : n \in Q
    BY <2>1, <2>2, NaturalInduction
  <2>4. QED
    BY <2>3 DEF Q
<1>10. Some(ValueRest(k))
  BY <1>1, <1>6, <1>8, <1>9 DEF ValueRest
<1>11. Some(Opened(k))
  <2> DEFINE X == Letter("]") ** Follow[k]
             V == Val ** Follow[k + 1]
  <2>1. Some(X)
    BY <1>1, <1>3, <1>9
  <2>2. Opened(k) = Blank ** (X \cup V)
    BY DEF Opened
  <2> HIDE DEF X, V
  <2>3. QED
    BY <1>1, <1>2, <1>6, <2>1, <2>2
<1>12. Some(StringRest(k))
  BY <1>1, <1>3, <1>7, <1>9 DEF StringRest
<1>13. Some(EscapeRest(k))
  BY <1>1, <1>4, <1>12 DEF EscapeRest
<1>14. \A state \in NumberPc : Some(NumberRest(state, Follow[k]))
  <2> DEFINE A == Follow[k]
  <2>1. Some(A)
    BY <1>9
  <2> HIDE DEF A
  <2>2. Some(Powered(A))
    BY <1>2, <2>1 DEF Powered
  <2>3. Some(Zero(A))
    BY <1>2, <2>2 DEF Zero
  <2>4. Some(Integer(A))
    BY <1>1, <1>5, <2>3 DEF Integer
  <2>5. Some(Minus(A))
    BY <1>1, <1>2, <1>3, <2>3 DEF Minus
  <2>6. Some(Numbered(A))
    BY <1>2, <2>5 DEF Numbered
  <2>7. Some(Frac(A))
    BY <1>1, <1>5, <2>2 DEF Frac
  <2>8. Some(Point(A))
    BY <1>1, <1>4, <2>7 DEF Point
  <2>9. Some(ExpDigits(A))
    BY <1>1, <1>5, <2>1 DEF ExpDigits
  <2>10. Some(ExpSign(A))
    BY <1>1, <1>4, <2>9 DEF ExpSign
  <2>11. Some(Exp(A))
    BY <1>2, <2>10 DEF Exp
  <2>12. \A state \in NumberPc : Some(NumberRest(state, A))
    BY <2>3, <2>4, <2>5, <2>6, <2>7, <2>8, <2>9, <2>10, <2>11, RestIs DEF NumberPc
  <2>13. QED
    BY <2>12 DEF A
<1>15. QED
  BY <1>9, <1>10, <1>11, <1>12, <1>13, <1>14 DEF Some

\* The characters moved over begin a text of the grammar.
LEMMA GoesSomewhere ==
  ASSUME Types, Flow, Grammatical, Parsing, Enough
  PROVE  \E u \in Texts : Done \o u \in Json
<1> DEFINE k == Len(frames)
<1>1. k \in Nat /\ (pc = "open" => k # 0) /\ Fits(Rest(pc, k))
  BY FramesAre DEF Grammatical
<1>2. pc \in Numeric \/ pc \in {"value", "open", "after", "return", "trailing", "string", "escape"}
  BY DEF Flow, Points, Parsing, Outside
<1>3. \E u \in Texts : u \in Rest(pc, k)
  <2>1. CASE pc \in Numeric
    <3>1. pc \in NumberPc
      BY <2>1 DEF Numeric, NumberPc
    <3>2. Rest(pc, k) = NumberRest(pc, Follow[k])
      BY <2>1, RestAt
    <3>3. QED
      BY <1>1, <3>1, <3>2, RestSome
  <2>2. CASE pc = "open"
    <3>1. k - 1 \in Nat
      BY <1>1, <2>2
    <3>2. \E u \in Texts : u \in Opened(k - 1)
      BY <3>1, RestSome
    <3>3. QED
      BY <2>2, <3>2, RestAt
  <2>3. CASE pc \in {"value", "after", "return", "trailing", "string", "escape"}
    <3>1. /\ \E u \in Texts : u \in Follow[k]
          /\ \E u \in Texts : u \in ValueRest(k)
          /\ \E u \in Texts : u \in StringRest(k)
          /\ \E u \in Texts : u \in EscapeRest(k)
      BY <1>1, RestSome
    <3>2. QED
      BY <2>3, <3>1, RestAt
  <2>4. QED
    BY <1>2, <2>1, <2>2, <2>3
<1>4. QED
  BY <1>1, <1>3 DEF Fits

-----------------------------------------------------------------------------
\* The parser is always where the grammar is.
LEMMA SpecFits == Spec => [](IInv /\ Grammatical)
<1>1. Init => IInv /\ Grammatical
  BY InitIInv, InitFits
<1>2. ASSUME IInv, Grammatical, [Next]_vars
      PROVE  (IInv /\ Grammatical)'
  <2>1. Types /\ Flow
    BY <1>2 DEF IInv
  <2>2. Grammatical'
    BY <1>2, <2>1, NextFits
  <2>3. IInv'
    BY <1>2, NextIInv
  <2>4. QED
    BY <2>2, <2>3
<1>3. QED
  BY <1>1, <1>2, PTL DEF Spec

\* lept_parse accepts a text if and only if it is in the grammar, whatever its length
\* and the depth of its arrays; when it does not, the value is null and nothing that
\* could follow makes the text right (leptjson.c:57, 110, 285, 353).
THEOREM AcceptsExactlyJson == Spec => []AcceptsJson
<1>1. IInv /\ Grammatical => AcceptsJson
  BY JudgedAccepts
<1>2. QED
  BY <1>1, SpecFits, PTL

\* After an error, and after a value that is not the end of the text, no text of any
\* length makes what was read one of the grammar: lept_parse may stop there
\* (leptjson.c:110, 285, 353).
THEOREM ErrorsAreFinal == Spec => [](pc = "done" /\ ret # "OK" => Rejected)
<1>1. IInv /\ Grammatical => (pc = "done" /\ ret # "OK" => Rejected)
  BY DEF Grammatical, Judged
<1>2. QED
  BY <1>1, SpecFits, PTL

\* Until it returns, the characters lept_parse has moved over begin a text of the
\* grammar: it stops at the first character that is wrong (leptjson.c:57, 110, 285, 353).
THEOREM ErrorsAreFirst ==
  ASSUME Enough
  PROVE  Spec => [](Parsing => \E u \in Texts : Done \o u \in Json)
<1>1. IInv /\ Grammatical => (Parsing => \E u \in Texts : Done \o u \in Json)
  BY GoesSomewhere DEF IInv
<1>2. QED
  BY <1>1, SpecFits, PTL
=============================================================================
