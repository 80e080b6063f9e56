------------------------- MODULE CommandLineProofs --------------------------
(***************************************************************************)
(* Machine-checked proofs about module CommandLine, for all tables of      *)
(* benchmarks and all command lines.                                       *)
(*                                                                         *)
(* What the program lists and runs is defined with data of any length: a   *)
(* set of benchmarks sorted by number, and the lists of all sequences one  *)
(* after the other.  Facts about these are proved by the least of the      *)
(* numbers that could contradict them (LeastNumber): every finite set can  *)
(* be sorted (InOrderLists), and the joined list has the lines of its      *)
(* parts, each once and in their order (JointListed).                      *)
(*                                                                         *)
(* The inductive invariant (IInv) says what is known in each stage: while  *)
(* the words are parsed, that they were known so far and what they have    *)
(* selected (ParseInv); which of the lists are printed (PrintInv); and     *)
(* that the loop has written the first ones of the selection and has the   *)
(* others yet to do (RunInv).                                              *)
(***************************************************************************)
EXTENDS CommandLine, FiniteSetTheorems, SequenceTheorems, TLAPS

-----------------------------------------------------------------------------
(***************************************************************************)
(* Sets of numbers, and the order in which they are listed                 *)
(***************************************************************************)

Below == {pair \in Nat \X Nat : pair[1] < pair[2]}

\* A set of numbers that is not empty has a least element.
LEMMA LeastNumber ==
  ASSUME NEW T, T \subseteq Nat, T # {}
  PROVE  \E n \in T : \A m \in T : n <= m
<1>1. IsWellFoundedOn(Below, Nat)
  BY NatLessThanWellFounded DEF OpToRel, Below
<1>2. PICK n \in T : \A m \in T : ~(<<m, n>> \in Below)
  BY <1>1, WFMin
<1>3. \A m \in T : ~(m < n)
  BY <1>2 DEF Below
<1> QED
  BY <1>3

Increasing(f) == \A i, j \in DOMAIN f : i < j => f[i] < f[j]

\* Every finite set of numbers can be listed in increasing order.
LEMMA SortedExists ==
  ASSUME NEW S \in SUBSET Nat, IsFiniteSet(S)
  PROVE  \E f \in [1 .. Cardinality(S) -> S] : Increasing(f)
<1> DEFINE Sorts(X, n) == \E f \in [1 .. n -> X] : Increasing(f)
           Bad == {n \in Nat : \E X \in SUBSET Nat : IsFiniteSet(X) /\ Cardinality(X) = n /\ ~Sorts(X, n)}
<1>1. ASSUME Bad # {} PROVE FALSE
  <2> HIDE DEF Sorts
  <2>1. PICK n \in Bad : \A m \in Bad : n <= m
    BY <1>1, LeastNumber
  <2>2. PICK X \in SUBSET Nat : IsFiniteSet(X) /\ Cardinality(X) = n /\ ~Sorts(X, n)
    OBVIOUS
  <2>3. n \in Nat /\ n # 0
    <3>1. ASSUME n = 0 PROVE FALSE
      <4> DEFINE f == [i \in 1 .. 0 |-> 0]
      <4>1. f \in [1 .. 0 -> X] /\ Increasing(f)
        BY DEF Increasing
      <4> HIDE DEF f
      <4> QED
        BY <2>2, <3>1, <4>1 DEF Sorts
    <3> QED
      BY <3>1
  <2>4. X # {}
    BY <2>2, <2>3, FS_EmptySet
  <2>5. PICK least \in X : \A x \in X : least <= x
    BY <2>4, LeastNumber
  <2> DEFINE Rest == X \ {least}
  <2>6. IsFiniteSet(Rest) /\ Cardinality(Rest) = n - 1
    BY <2>2, FS_RemoveElement
  <2>7. Sorts(Rest, n - 1)
    <3>1. n - 1 \in Nat /\ n - 1 \notin Bad
      BY <2>1, <2>3
    <3> QED
      BY <2>6, <3>1
  <2>8. PICK g \in [1 .. n - 1 -> Rest] : Increasing(g)
    BY <2>7 DEF Sorts
  <2> DEFINE f == [i \in 1 .. n |-> IF i = 1 THEN least ELSE g[i - 1]]
  <2>9. f \in [1 .. n -> X]
    BY <2>3
  <2>10. Increasing(f)
    <3> SUFFICES ASSUME NEW i \in 1 .. n, NEW j \in 1 .. n, i < j PROVE f[i] < f[j]
      BY DEF Increasing
    <3>1. j - 1 \in 1 .. n - 1 /\ f[j] = g[j - 1]
      BY <2>3
    <3>2. CASE i = 1
      <4>1. g[j - 1] \in Rest /\ f[i] = least
        BY <2>3, <2>8, <3>1, <3>2
      <4>2. g[j - 1] \in Nat /\ least \in Nat /\ g[j - 1] # least /\ least <= g[j - 1]
        BY <2>5, <4>1
      <4> QED
        BY <3>1, <4>1, <4>2
    <3>3. CASE i # 1
      <4>1. i - 1 \in 1 .. n - 1 /\ i - 1 < j - 1 /\ f[i] = g[i - 1]
        BY <2>3, <3>3
      <4> QED
        BY <2>8, <3>1, <4>1 DEF Increasing
    <3> QED
      BY <3>2, <3>3
  <2> HIDE DEF f
  <2> QED
    BY <2>2, <2>9, <2>10 DEF Sorts
<1>2. Cardinality(S) \in Nat
  BY FS_CardinalityType
<1> QED
  BY <1>1, <1>2

\* InOrder(S) lists each element once, in increasing order.
LEMMA InOrderLists ==
  ASSUME NEW S \in SUBSET Nat, IsFiniteSet(S)
  PROVE  /\ Cardinality(S) \in Nat
         /\ InOrder(S) \in [1 .. Cardinality(S) -> S]
         /\ Increasing(InOrder(S))
         /\ \A i, j \in 1 .. Cardinality(S) : InOrder(S)[i] = InOrder(S)[j] => i = j
         /\ \A x \in S : \E i \in 1 .. Cardinality(S) : InOrder(S)[i] = x
<1> DEFINE n == Cardinality(S)
           f == InOrder(S)
<1>1. n \in Nat
  BY FS_CardinalityType
<1>2. f \in [1 .. n -> S] /\ Increasing(f)
  BY SortedExists DEF InOrder, Increasing
<1> HIDE DEF f
<1>3. ASSUME NEW i \in 1 .. n, NEW j \in 1 .. n, f[i] = f[j] PROVE i = j
  <2>1. f[i] \in Nat /\ f[j] \in Nat
    BY <1>2
  <2>2. ~(i < j) /\ ~(j < i)
    BY <1>2, <1>3, <2>1 DEF Increasing
  <2> QED
    BY <1>1, <2>2
<1>4. f \in Surjection(1 .. n, S)
  <2>1. f \in Injection(1 .. n, S)
    BY <1>2, <1>3 DEF Injection, IsInjective
  <2>2. IsFiniteSet(1 .. n) /\ Cardinality(1 .. n) = n
    BY <1>1, FS_Interval
  <2> QED
    BY <2>1, <2>2, FS_Injection
<1>5. \A x \in S : \E i \in 1 .. n : f[i] = x
  BY <1>4 DEF Surjection
<1> QED
  BY <1>1, <1>2, <1>3, <1>5 DEF f

-----------------------------------------------------------------------------
(***************************************************************************)
(* Sequences without repetitions                                           *)
(***************************************************************************)

On(lines, x) == \E k \in 1 .. Len(lines) : lines[k] = x

\* Its elements are as many as the sequence is long, and each is on one line.
LEMMA Counted ==
  ASSUME NEW W, NEW s \in Seq(W), IsInjective(s), NEW R, R = {s[i] : i \in 1 .. Len(s)}
  PROVE  /\ IsFiniteSet(R) /\ Cardinality(R) = Len(s)
         /\ \A x \in R : OnOneLine(s, x)
<1>1. Len(s) \in Nat /\ DOMAIN s = 1 .. Len(s) /\ s \in [1 .. Len(s) -> R]
  OBVIOUS
<1>2. s \in Bijection(1 .. Len(s), R)
  BY <1>1 DEF Bijection, Injection, Surjection
<1>3. ExistsBijection(1 .. Len(s), R)
  BY <1>2 DEF ExistsBijection
<1>4. IsFiniteSet(R) /\ Cardinality(R) = Len(s)
  BY <1>1, <1>3, FS_CountingElements, FS_NatBijection
<1>5. ASSUME NEW x \in R PROVE OnOneLine(s, x)
  <2>1. PICK i \in 1 .. Len(s) : s[i] = x
    OBVIOUS
  <2>2. {k \in DOMAIN s : s[k] = x} = {i}
    BY <1>1, <2>1 DEF IsInjective
  <2> QED
    BY <2>2, FS_Singleton DEF OnOneLine
<1> QED
  BY <1>4, <1>5

\* The same, of the elements by what On() says of them.
LEMMA AsManyLines ==
  ASSUME NEW s \in Seq(Word), IsInjective(s), NEW R, \A x : On(s, x) <=> x \in R
  PROVE  IsFiniteSet(R) /\ Cardinality(R) = Len(s)
<1>1. R = {s[i] : i \in 1 .. Len(s)}
  BY DEF On
<1> QED
  BY <1>1, Counted

\* An element of it is on one line.
LEMMA OnOne ==
  ASSUME NEW s \in Seq(Word), IsInjective(s), NEW x, On(s, x)
  PROVE  OnOneLine(s, x)
<1> DEFINE R == {s[i] : i \in 1 .. Len(s)}
<1>1. x \in R
  BY DEF On
<1> HIDE DEF R
<1> QED
  BY <1>1, Counted DEF R

\* Two such sequences with different elements make one.
LEMMA Joined ==
  ASSUME NEW s \in Seq(Word), NEW u \in Seq(Word), IsInjective(s), IsInjective(u),
         \A x : ~(On(s, x) /\ On(u, x))
  PROVE  /\ s \o u \in Seq(Word) /\ IsInjective(s \o u)
         /\ \A x : On(s \o u, x) <=> On(s, x) \/ On(u, x)
<1> DEFINE v == s \o u
           m == Len(s)
           n == Len(u)
<1>1. /\ m \in Nat /\ n \in Nat /\ v \in Seq(Word) /\ Len(v) = m + n
      /\ \A k \in 1 .. m : v[k] = s[k]
      /\ \A k \in 1 .. m + n : k > m => v[k] = u[k - m]
  OBVIOUS
<1>2. /\ \A i \in 1 .. m, j \in 1 .. m : s[i] = s[j] => i = j
      /\ \A i \in 1 .. n, j \in 1 .. n : u[i] = u[j] => i = j
  BY DEF IsInjective
<1> \A i \in 1 .. m, j \in 1 .. n : s[i] # u[j]
  BY DEF On
<1> HIDE DEF v
<1>3. ASSUME NEW i \in 1 .. m + n, NEW j \in 1 .. m + n, v[i] = v[j] PROVE i = j
  <2>1. CASE i <= m /\ j <= m
    BY <1>1, <1>2, <1>3, <2>1
  <2>2. CASE i > m /\ j > m
    <3>1. i - m \in 1 .. n /\ j - m \in 1 .. n /\ u[i - m] = u[j - m]
      BY <1>1, <1>3, <2>2
    <3>2. i - m = j - m
      BY <1>2, <3>1
    <3> QED
      BY <1>1, <3>2
  <2>3. CASE i <= m /\ j > m
    <3>1. i \in 1 .. m /\ j - m \in 1 .. n /\ s[i] = u[j - m]
      BY <1>1, <1>3, <2>3
    <3> QED
      BY <3>1
  <2>4. CASE i > m /\ j <= m
    <3>1. j \in 1 .. m /\ i - m \in 1 .. n /\ s[j] = u[i - m]
      BY <1>1, <1>3, <2>4
    <3> QED
      BY <3>1
  <2> QED
    BY <1>1, <2>1, <2>2, <2>3, <2>4
<1>4. IsInjective(v)
  <2>1. DOMAIN v = 1 .. m + n
    BY <1>1
  <2> QED
    BY <1>3, <2>1 DEF IsInjective
<1>5. ASSUME NEW x
      PROVE  (\E k \in 1 .. m + n : v[k] = x) <=> (\E i \in 1 .. m : s[i] = x) \/ (\E j \in 1 .. n : u[j] = x)
  <2>1. ASSUME NEW k \in 1 .. m + n, v[k] = x
        PROVE  (\E i \in 1 .. m : s[i] = x) \/ (\E j \in 1 .. n : u[j] = x)
    <3>1. CASE k <= m
      BY <1>1, <2>1, <3>1
    <3>2. CASE k > m
      <4>1. k - m \in 1 .. n /\ u[k - m] = x
        BY <1>1, <2>1, <3>2
      <4> QED
        BY <4>1
    <3> QED
      BY <1>1, <3>1, <3>2
  <2>2. ASSUME NEW i \in 1 .. m, s[i] = x PROVE \E k \in 1 .. m + n : v[k] = x
    <3>1. i \in 1 .. m + n /\ v[i] = x
      BY <1>1, <2>2
    <3> QED
      BY <3>1
  <2>3. ASSUME NEW j \in 1 .. n, u[j] = x PROVE \E k \in 1 .. m + n : v[k] = x
    <3>1. m + j \in 1 .. m + n /\ m + j > m /\ (m + j) - m = j
      BY <1>1
    <3>2. v[m + j] = x
      BY <1>1, <2>3, <3>1
    <3> QED
      BY <3>1, <3>2
  <2> QED
    BY <2>1, <2>2, <2>3
<1> QED
  BY <1>1, <1>4, <1>5 DEF v, On

\* The elements of one sequence after another.
LEMMA Appended ==
  ASSUME NEW s \in Seq(Word), NEW u \in Seq(Word)
  PROVE  /\ Len(s) \in Nat /\ Len(u) \in Nat /\ Len(s \o u) = Len(s) + Len(u)
         /\ \A k \in 1 .. Len(s) : (s \o u)[k] = s[k]
         /\ \A k \in 1 .. Len(u) : (s \o u)[Len(s) + k] = u[k]
<1> DEFINE v == s \o u
           m == Len(s)
           n == Len(u)
<1>1. /\ m \in Nat /\ n \in Nat /\ Len(v) = m + n
      /\ \A k \in 1 .. m : v[k] = s[k]
      /\ \A k \in 1 .. n : v[m + k] = u[k]
  OBVIOUS
<1> QED
  BY <1>1

\* FlattenSeq() appends one sequence after the other.
LEMMA Flattened ==
  ASSUME NEW s, Len(s) \in Nat \ {0}
  PROVE  \E f : /\ f[1] = s[1]
                /\ \A i \in 2 .. Len(s) : f[i] = f[i - 1] \o s[i]
                /\ FlattenSeq(s) = f[Len(s)]
<1> DEFINE N == Len(s)
           Flat(f, n) == f = [i \in 1 .. n |-> IF i = 1 THEN s[i] ELSE f[i - 1] \o s[i]]
           Bad == {n \in Nat : ~\E f : Flat(f, n)}
<1>1. ASSUME Bad # {} PROVE FALSE
  <2> HIDE DEF Flat
  <2>1. PICK n \in Bad : \A m \in Bad : n <= m
    BY <1>1, LeastNumber
  <2>2. n \in Nat /\ ~\E f : Flat(f, n)
    OBVIOUS
  <2>3. n # 0
    <3>1. \E f : Flat(f, 0)
      <4>1. Flat([i \in 1 .. 0 |-> 0], 0)
        BY DEF Flat
      <4> QED
        BY <4>1
    <3> QED
      BY <2>2, <3>1
  <2>4. n - 1 \in Nat /\ n - 1 \notin Bad
    BY <2>1, <2>2, <2>3
  <2>5. PICK g : Flat(g, n - 1)
    BY <2>4
  <2> DEFINE f == [i \in 1 .. n |-> IF i < n THEN g[i] ELSE IF i = 1 THEN s[i] ELSE g[i - 1] \o s[i]]
             h == [i \in 1 .. n |-> IF i = 1 THEN s[i] ELSE f[i - 1] \o s[i]]
  <2>6. \A i \in 1 .. n : f[i] = h[i]
    <3> SUFFICES ASSUME NEW i \in 1 .. n PROVE f[i] = IF i = 1 THEN s[i] ELSE f[i - 1] \o s[i]
      OBVIOUS
    <3>1. i # 1 => i - 1 \in 1 .. n /\ i - 1 < n /\ f[i - 1] = g[i - 1]
      BY <2>2
    <3>2. CASE i < n
      <4>1. i \in 1 .. n - 1
        BY <2>2, <3>2
      <4>2. g[i] = IF i = 1 THEN s[i] ELSE g[i - 1] \o s[i]
        BY <2>5, <4>1 DEF Flat
      <4>3. f[i] = g[i]
        BY <3>2
      <4> QED
        BY <3>1, <4>2, <4>3
    <3>3. CASE i = n
      <4>1. f[i] = IF i = 1 THEN s[i] ELSE g[i - 1] \o s[i]
        BY <2>2, <3>3
      <4> QED
        BY <3>1, <4>1
    <3> QED
      BY <2>2, <3>2, <3>3
  <2>7. f = h
    <3>1. DOMAIN f = 1 .. n /\ DOMAIN h = 1 .. n /\ f = [i \in 1 .. n |-> f[i]] /\ h = [i \in 1 .. n |-> h[i]]
      OBVIOUS
    <3> HIDE DEF f, h
    <3> QED
      BY <2>6, <3>1
  <2>8. Flat(f, n)
    BY <2>7 DEF Flat
  <2> QED
    BY <2>2, <2>8
<1>2. \E f : Flat(f, N)
  BY <1>1
<1> DEFINE F == CHOOSE f : Flat(f, N)
<1>3. Flat(F, N)
  BY <1>2
<1>4. FlattenSeq(s) = F[N]
  BY DEF FlattenSeq
<1>5. F[1] = s[1] /\ \A i \in 2 .. N : F[i] = F[i - 1] \o s[i]
  <2> HIDE DEF F
  <2>1. 1 \in 1 .. N /\ \A i \in 2 .. N : i \in 1 .. N /\ i # 1
    OBVIOUS
  <2>2. \A i \in 1 .. N : F[i] = IF i = 1 THEN s[i] ELSE F[i - 1] \o s[i]
    BY <1>3
  <2> QED
    BY <2>1, <2>2
<1> HIDE DEF F
<1> QED
  BY <1>4, <1>5

-----------------------------------------------------------------------------
(***************************************************************************)
(* Lists of benchmarks                                                     *)
(***************************************************************************)

CategoryLines(set) == [k \in 1 .. Cardinality(set) |-> CategoryLine(InOrder(set)[k])]

\* A list of the category and its benchmarks.
Part(list, c) == <<CategoryLine(c)>> \o BenchmarkLines(GroupByCategory(list)[c])

\* Before each benchmark there is its category, and only benchmarks in between.
Headed(lines) ==
  \A k \in 1 .. Len(lines) : lines[k].kind = "benchmark" =>
    \E j \in 1 .. k - 1 :
      /\ lines[j] = CategoryLine(CategoryOf(lines[k].id))
      /\ \A i \in j + 1 .. k : lines[i].kind = "benchmark"

\* A benchmark that has a category has no other.
LEMMA OneCategory ==
  ASSUME TableAssumption, NEW b \in Categorised
  PROVE  /\ CategoryOf(b) \in DOMAIN CategoryBenchmarkMap /\ CategoryOf(b) \in Category
         /\ \A c \in DOMAIN CategoryBenchmarkMap : b \in CategoryBenchmarkMap[c] <=> c = CategoryOf(b)
<1>1. \E c \in DOMAIN CategoryBenchmarkMap : b \in CategoryBenchmarkMap[c]
  BY DEF Categorised
<1>2. CategoryOf(b) \in DOMAIN CategoryBenchmarkMap /\ b \in CategoryBenchmarkMap[CategoryOf(b)]
  BY <1>1 DEF CategoryOf
<1>3. \A c \in DOMAIN CategoryBenchmarkMap :
        c # CategoryOf(b) => CategoryBenchmarkMap[c] \cap CategoryBenchmarkMap[CategoryOf(b)] = {}
  BY <1>2 DEF TableAssumption
<1> QED
  BY <1>2, <1>3 DEF TableAssumption

\* The categories of a list are categories, those of its benchmarks that have one.
LEMMA CategoriesType ==
  ASSUME TableAssumption, NEW list \in SUBSET Benchmark
  PROVE  /\ CategoriesOf(list) \in SUBSET Category
         /\ \A b \in list \cap Categorised : CategoryOf(b) \in CategoriesOf(list)
  BY OneCategory DEF CategoriesOf

\* The sets in question are finite sets of numbers.
LEMMA FiniteTables ==
  ASSUME TableAssumption, NEW S \in SUBSET Benchmark, NEW C \in SUBSET Category
  PROVE  /\ S \in SUBSET Nat /\ IsFiniteSet(S) /\ Cardinality(S) \in Nat
         /\ C \in SUBSET Nat /\ IsFiniteSet(C) /\ Cardinality(C) \in Nat
<1>1. NumBenchmarks \in Nat /\ NumCategories \in Nat
  BY DEF TableAssumption
<1>2. IsFiniteSet(Benchmark) /\ IsFiniteSet(Category) /\ Benchmark \subseteq Nat /\ Category \subseteq Nat
  <2>1. \A n \in Nat : IsFiniteSet(1 .. n) /\ 1 .. n \subseteq Nat
    <3> SUFFICES ASSUME NEW n \in Nat PROVE IsFiniteSet(1 .. n)
      OBVIOUS
    <3>1. 1 \in Int /\ n \in Int
      OBVIOUS
    <3> QED
      BY <3>1, FS_Interval
  <2> QED
    BY <1>1, <2>1 DEF Benchmark, Category
<1> QED
  BY <1>2, FS_Subset, FS_CardinalityType

\* A list of benchmarks has one line for each.
LEMMA BenchmarksListed ==
  ASSUME TableAssumption, NEW S \in SUBSET Benchmark
  PROVE  /\ BenchmarkLines(S) \in Seq(Word) /\ Len(BenchmarkLines(S)) = Cardinality(S)
         /\ IsInjective(BenchmarkLines(S))
         /\ \A x : On(BenchmarkLines(S), x) <=> \E b \in S : x = BenchmarkLine(b)
<1> DEFINE n == Cardinality(S)
           f == InOrder(S)
           s == BenchmarkLines(S)
<1>1. S \in SUBSET Nat /\ IsFiniteSet(S)
  BY FiniteTables
<1>2. /\ n \in Nat /\ f \in [1 .. n -> S]
      /\ \A i, j \in 1 .. n : f[i] = f[j] => i = j
      /\ \A x \in S : \E i \in 1 .. n : f[i] = x
  BY <1>1, InOrderLists
<1>3. \A b, d : BenchmarkLine(b) = BenchmarkLine(d) => b = d
  BY DEF BenchmarkLine
<1>4. \A b \in Benchmark : BenchmarkLine(b) \in Word
  BY DEF BenchmarkLine, Word
<1> HIDE DEF f
<1>5. s = [k \in 1 .. n |-> BenchmarkLine(f[k])]
  BY DEF BenchmarkLines, f
<1> HIDE DEF s
<1>6. s \in Seq(Word) /\ Len(s) = n /\ DOMAIN s = 1 .. n
  <2>1. \A k \in 1 .. n : BenchmarkLine(f[k]) \in Word
    BY <1>2, <1>4
  <2> HIDE DEF n
  <2> QED
    BY <1>2, <1>5, <2>1
<1>7. IsInjective(s)
  BY <1>2, <1>3, <1>5, <1>6 DEF IsInjective
<1>8. ASSUME NEW x PROVE On(s, x) <=> \E b \in S : x = BenchmarkLine(b)
  <2>1. ASSUME NEW k \in 1 .. n, s[k] = x PROVE \E b \in S : x = BenchmarkLine(b)
    BY <1>2, <1>5, <2>1
  <2>2. ASSUME NEW b \in S, x = BenchmarkLine(b) PROVE \E k \in 1 .. n : s[k] = x
    BY <1>2, <1>5, <2>2
  <2> QED
    BY <1>6, <2>1, <2>2 DEF On
<1> QED
  BY <1>6, <1>7, <1>8 DEF s

\* A list of categories has one line for each.
LEMMA CategoriesListed ==
  ASSUME TableAssumption, NEW C \in SUBSET Category
  PROVE  /\ CategoryLines(C) \in Seq(Word) /\ Len(CategoryLines(C)) = Cardinality(C)
         /\ IsInjective(CategoryLines(C))
         /\ \A x : On(CategoryLines(C), x) <=> \E c \in C : x = CategoryLine(c)
<1> DEFINE n == Cardinality(C)
           f == InOrder(C)
           s == CategoryLines(C)
<1>1. C \in SUBSET Nat /\ IsFiniteSet(C)
  BY FiniteTables
<1>2. /\ n \in Nat /\ f \in [1 .. n -> C]
      /\ \A i, j \in 1 .. n : f[i] = f[j] => i = j
      /\ \A x \in C : \E i \in 1 .. n : f[i] = x
  BY <1>1, InOrderLists
<1>3. \A b, d : CategoryLine(b) = CategoryLine(d) => b = d
  BY DEF CategoryLine
<1>4. \A b \in Category : CategoryLine(b) \in Word
  BY DEF CategoryLine, Word
<1> HIDE DEF f
<1>5. s = [k \in 1 .. n |-> CategoryLine(f[k])]
  BY DEF CategoryLines, f
<1> HIDE DEF s
<1>6. s \in Seq(Word) /\ Len(s) = n /\ DOMAIN s = 1 .. n
  <2>1. \A k \in 1 .. n : CategoryLine(f[k]) \in Word
    BY <1>2, <1>4
  <2> HIDE DEF n
  <2> QED
    BY <1>2, <1>5, <2>1
<1>7. IsInjective(s)
  BY <1>2, <1>3, <1>5, <1>6 DEF IsInjective
<1>8. ASSUME NEW x PROVE On(s, x) <=> \E c \in C : x = CategoryLine(c)
  <2>1. ASSUME NEW k \in 1 .. n, s[k] = x PROVE \E c \in C : x = CategoryLine(c)
    BY <1>2, <1>5, <2>1
  <2>2. ASSUME NEW c \in C, x = CategoryLine(c) PROVE \E k \in 1 .. n : s[k] = x
    BY <1>2, <1>5, <2>2
  <2> QED
    BY <1>6, <2>1, <2>2 DEF On
<1> QED
  BY <1>6, <1>7, <1>8 DEF s

\* A category with its benchmarks.
LEMMA PartListed ==
  ASSUME TableAssumption, NEW list \in SUBSET Categorised, NEW c \in CategoriesOf(list)
  PROVE  /\ Part(list, c) \in Seq(Word) /\ IsInjective(Part(list, c)) /\ Headed(Part(list, c))
         /\ \A x : On(Part(list, c), x) <=>
                     \/ x = CategoryLine(c)
                     \/ \E b \in list : CategoryOf(b) = c /\ x = BenchmarkLine(b)
<1> DEFINE G == GroupByCategory(list)[c]
           u == BenchmarkLines(G)
           s == <<CategoryLine(c)>>
           v == Part(list, c)
<1>1. G = {b \in list : CategoryOf(b) = c} /\ G \in SUBSET Benchmark
  BY DEF GroupByCategory, Categorised
<1>2. c \in Category
  BY OneCategory DEF CategoriesOf
<1> HIDE DEF G
<1>3. /\ u \in Seq(Word) /\ IsInjective(u) /\ Len(u) \in Nat
      /\ \A x : On(u, x) <=> \E b \in G : x = BenchmarkLine(b)
  BY <1>1, BenchmarksListed
<1>4. s \in Seq(Word) /\ Len(s) = 1 /\ s[1] = CategoryLine(c) /\ IsInjective(s)
  BY <1>2 DEF CategoryLine, Word, IsInjective
<1>5. \A b : CategoryLine(c) # BenchmarkLine(b)
  BY DEF CategoryLine, BenchmarkLine
<1> HIDE DEF u, s
<1>6. \A j \in 1 .. Len(u) : \E b \in G : u[j] = BenchmarkLine(b)
  BY <1>3 DEF On
<1>7. \A x : On(s, x) <=> x = CategoryLine(c)
  BY <1>4 DEF On
<1>8. v = s \o u
  BY DEF Part, s, u, G
<1> HIDE DEF v
<1>9. v \in Seq(Word) /\ IsInjective(v) /\ \A x : On(v, x) <=> On(s, x) \/ On(u, x)
  <2>1. \A x : ~(On(s, x) /\ On(u, x))
    BY <1>3, <1>5, <1>7
  <2> QED
    BY <1>3, <1>4, <1>8, <2>1, Joined
<1>10. \A x : On(v, x) <=> x = CategoryLine(c) \/ \E b \in list : CategoryOf(b) = c /\ x = BenchmarkLine(b)
  <2>1. \A x : On(u, x) <=> \E b \in list : CategoryOf(b) = c /\ x = BenchmarkLine(b)
    BY <1>1, <1>3
  <2> QED
    BY <1>7, <1>9, <2>1
<1>11. Headed(v)
  <2>1. /\ Len(v) = 1 + Len(u) /\ v[1] = CategoryLine(c)
        /\ \A k \in 2 .. Len(v) : v[k] = u[k - 1] /\ k - 1 \in 1 .. Len(u)
    <3>0. s \in Seq(Word) /\ u \in Seq(Word) /\ Len(s) = 1
      BY <1>3, <1>4
    <3>1. Len(v) = 1 + Len(u) /\ v[1] = s[1] /\ \A k \in 1 .. Len(u) : v[1 + k] = u[k]
      <4>1. /\ Len(v) = Len(s) + Len(u)
            /\ \A k \in 1 .. Len(s) : v[k] = s[k]
            /\ \A k \in 1 .. Len(u) : v[Len(s) + k] = u[k]
        <5> DEFINE w == s \o u
        <5>1. /\ Len(w) = Len(s) + Len(u)
              /\ \A k \in 1 .. Len(s) : w[k] = s[k]
              /\ \A k \in 1 .. Len(u) : w[Len(s) + k] = u[k]
          BY <3>0, Appended
        <5>2. v = w
          BY <1>8
        <5> HIDE DEF w
        <5> QED
          BY <5>1, <5>2
      <4> HIDE DEF v, u, s
      <4>2. 1 \in 1 .. 1
        OBVIOUS
      <4> QED
        BY <3>0, <4>1, <4>2
    <3> HIDE DEF v, u, s
    <3>2. ASSUME NEW k \in 2 .. Len(v) PROVE v[k] = u[k - 1] /\ k - 1 \in 1 .. Len(u)
      <4>1. k - 1 \in 1 .. Len(u) /\ 1 + (k - 1) = k
        BY <1>3, <3>1
      <4> QED
        BY <3>1, <4>1
    <3> QED
      BY <1>4, <3>1, <3>2
  <2>2. \A k \in 2 .. Len(v) : \E b \in G : v[k] = BenchmarkLine(b)
    BY <1>6, <2>1
  <2>3. \A k \in 2 .. Len(v) : v[k].kind = "benchmark" /\ CategoryOf(v[k].id) = c
    <3> SUFFICES ASSUME NEW k \in 2 .. Len(v) PROVE v[k].kind = "benchmark" /\ CategoryOf(v[k].id) = c
      OBVIOUS
    <3>1. PICK b \in G : v[k] = BenchmarkLine(b)
      BY <2>2
    <3>2. v[k].kind = "benchmark" /\ v[k].id = b
      BY <3>1 DEF BenchmarkLine
    <3> QED
      BY <1>1, <3>1, <3>2
  <2>4. v[1].kind # "benchmark"
    BY <2>1 DEF CategoryLine
  <2> SUFFICES ASSUME NEW k \in 1 .. Len(v), v[k].kind = "benchmark"
               PROVE  \E j \in 1 .. k - 1 :
                        /\ v[j] = CategoryLine(CategoryOf(v[k].id))
                        /\ \A i \in j + 1 .. k : v[i].kind = "benchmark"
    BY DEF Headed
  <2>5. k \in 2 .. Len(v)
    BY <1>3, <2>1, <2>4
  <2>6. 1 \in 1 .. k - 1 /\ v[1] = CategoryLine(CategoryOf(v[k].id)) /\ \A i \in 1 + 1 .. k : v[i].kind = "benchmark"
    <3>1. 1 \in 1 .. k - 1 /\ 1 + 1 = 2 /\ 2 .. k \subseteq 2 .. Len(v)
      BY <1>3, <2>1, <2>5
    <3> QED
      BY <2>1, <2>3, <2>5, <3>1
  <2> QED
    BY <2>6
<1> QED
  BY <1>9, <1>10, <1>11 DEF v

\* One list after another.
LEMMA HeadedJoined ==
  ASSUME NEW s \in Seq(Word), NEW u \in Seq(Word), Headed(s), Headed(u)
  PROVE  Headed(s \o u)
<1> DEFINE v == s \o u
           m == Len(s)
           n == Len(u)
<1>1. /\ m \in Nat /\ n \in Nat /\ Len(v) = m + n
      /\ \A k \in 1 .. m : v[k] = s[k]
      /\ \A k \in 1 .. n : v[m + k] = u[k]
  BY Appended
<1> HIDE DEF v, m, n
<1> SUFFICES ASSUME NEW k \in 1 .. m + n, v[k].kind = "benchmark"
             PROVE  \E j \in 1 .. k - 1 :
                      /\ v[j] = CategoryLine(CategoryOf(v[k].id))
                      /\ \A i \in j + 1 .. k : v[i].kind = "benchmark"
  BY <1>1 DEF Headed, v
<1>2. CASE k <= m
  <2>1. k \in 1 .. m /\ s[k].kind = "benchmark"
    BY <1>1, <1>2
  <2>2. PICK j \in 1 .. k - 1 : /\ s[j] = CategoryLine(CategoryOf(s[k].id))
                                    /\ \A i \in j + 1 .. k : s[i].kind = "benchmark"
    BY <2>1 DEF Headed, m
  <2>3. j \in 1 .. m /\ j + 1 .. k \subseteq 1 .. m
    BY <1>1, <2>1
  <2> QED
    BY <1>1, <2>1, <2>2, <2>3
<1>3. CASE k > m
  <2> DEFINE q == k - m
  <2>1. q \in 1 .. n /\ k = m + q
    BY <1>1, <1>3
  <2> HIDE DEF q
  <2>2. v[k] = u[q] /\ u[q].kind = "benchmark"
    BY <1>1, <2>1
  <2>3. PICK j \in 1 .. q - 1 : /\ u[j] = CategoryLine(CategoryOf(u[q].id))
                                    /\ \A i \in j + 1 .. q : u[i].kind = "benchmark"
    BY <2>1, <2>2 DEF Headed, n
  <2>4. m + j \in 1 .. k - 1 /\ v[m + j] = CategoryLine(CategoryOf(v[k].id))
    BY <1>1, <2>1, <2>2, <2>3
  <2>5. ASSUME NEW i \in m + j + 1 .. k PROVE v[i].kind = "benchmark"
    <3>1. i - m \in j + 1 .. q /\ i - m \in 1 .. n /\ i = m + (i - m)
      BY <1>1, <2>1, <2>3
    <3>2. v[i] = u[i - m]
      BY <1>1, <3>1
    <3> QED
      BY <2>3, <3>1, <3>2
  <2> QED
    BY <2>4, <2>5
<1> QED
  BY <1>1, <1>2, <1>3

\* PrintList() in its joint mode, of benchmarks that have a category: one after the other.
LEMMA JointListed ==
  ASSUME TableAssumption, NEW list \in SUBSET Categorised
  PROVE  LET lines == Lines(list, "joint")
         IN  /\ lines \in Seq(Word) /\ IsInjective(lines) /\ Headed(lines)
             /\ \A x : On(lines, x) <=> \/ \E c \in CategoriesOf(list) : x = CategoryLine(c)
                                        \/ \E b \in list : x = BenchmarkLine(b)
<1> DEFINE C == CategoriesOf(list)
           N == Cardinality(C)
           o == InOrder(C)
           s == [k \in 1 .. N |-> Part(list, o[k])]
<1>1. C \in SUBSET Category /\ \A b \in list : CategoryOf(b) \in C
  BY CategoriesType DEF Categorised
<1> HIDE DEF C
<1>2. C \in SUBSET Nat /\ IsFiniteSet(C) /\ N \in Nat
  BY <1>1, FiniteTables
<1>3. /\ o \in [1 .. N -> C]
      /\ \A i, j \in 1 .. N : o[i] = o[j] => i = j
      /\ \A c \in C : \E i \in 1 .. N : o[i] = c
  BY <1>2, InOrderLists
<1>4. Lines(list, "joint") = FlattenSeq(s)
  BY DEF Lines, Part, GroupByCategory, C
<1> HIDE DEF o
<1>5. Len(s) = N /\ \A k \in 1 .. N : s[k] = Part(list, o[k])
  BY <1>2
<1> HIDE DEF N, s
<1>6. \A k \in 1 .. N :
        /\ s[k] \in Seq(Word) /\ IsInjective(s[k]) /\ Headed(s[k])
        /\ \A x : On(s[k], x) <=> \/ x = CategoryLine(o[k])
                                  \/ \E b \in list : CategoryOf(b) = o[k] /\ x = BenchmarkLine(b)
  BY <1>3, <1>5, PartListed DEF C
<1> DEFINE Among(n, x) == \/ \E k \in 1 .. n : x = CategoryLine(o[k])
                          \/ \E k \in 1 .. n, b \in list : CategoryOf(b) = o[k] /\ x = BenchmarkLine(b)
           Listing(v, n) == /\ v \in Seq(Word) /\ IsInjective(v) /\ Headed(v)
                            /\ \A x : On(v, x) <=> Among(n, x)
<1>7. Listing(FlattenSeq(s), N)
  <2>1. CASE N = 0
    <3>1. FlattenSeq(s) = <<>>
      BY <1>5, <2>1 DEF FlattenSeq, s
    <3>2. <<>> \in Seq(Word) /\ IsInjective(<<>>) /\ Headed(<<>>) /\ \A x : ~On(<<>>, x)
      BY DEF IsInjective, Headed, On
    <3> QED
      BY <2>1, <3>1, <3>2
  <2>2. CASE N > 0
    <3>1. PICK f : f[1] = s[1] /\ (\A i \in 2 .. N : f[i] = f[i - 1] \o s[i]) /\ FlattenSeq(s) = f[N]
      <4>1. Len(s) \in Nat \ {0}
        BY <1>2, <1>5, <2>2
      <4>2. \E f : f[1] = s[1] /\ (\A i \in 2 .. Len(s) : f[i] = f[i - 1] \o s[i]) /\ FlattenSeq(s) = f[Len(s)]
        BY <4>1, Flattened
      <4> QED
        BY <1>5, <4>2
    <3> DEFINE Bad == {n \in 1 .. N : ~Listing(f[n], n)}
    <3>2. ASSUME Bad # {} PROVE FALSE
      <4> HIDE DEF Listing
      <4>1. Bad \subseteq Nat
        OBVIOUS
      <4>2. PICK n \in Bad : \A m \in Bad : n <= m
        BY <3>2, <4>1, LeastNumber
      <4>3. n \in 1 .. N /\ ~Listing(f[n], n)
        OBVIOUS
      <4> HIDE DEF Bad
      <4>4. CASE n = 1
        <5>1. Listing(s[1], 1)
          <6>1. 1 \in 1 .. N
            BY <1>2, <2>2
          <6>2. \A x : On(s[1], x) <=> Among(1, x)
            <7>1. \A k : k \in 1 .. 1 <=> k = 1
              OBVIOUS
            <7>2. \A x : On(s[1], x)
                           <=> x = CategoryLine(o[1]) \/ \E b \in list : CategoryOf(b) = o[1] /\ x = BenchmarkLine(b)
              BY <1>6, <6>1
            <7> QED
              BY <7>1, <7>2
          <6> QED
            BY <1>6, <6>1, <6>2 DEF Listing
        <5> QED
          BY <3>1, <4>3, <4>4, <5>1
      <4>5. CASE n # 1
        <5>1. n \in 2 .. N /\ n - 1 \in 1 .. N /\ n - 1 \notin Bad
          BY <1>2, <4>2, <4>3, <4>5
        <5> DEFINE u == f[n - 1]
        <5>2. Listing(u, n - 1) /\ f[n] = u \o s[n]
          BY <3>1, <5>1 DEF Bad
        <5> HIDE DEF u
        <5>3. u \in Seq(Word) /\ IsInjective(u) /\ Headed(u) /\ \A x : On(u, x) <=> Among(n - 1, x)
          BY <5>2 DEF Listing
        <5>4. /\ s[n] \in Seq(Word) /\ IsInjective(s[n]) /\ Headed(s[n])
              /\ \A x : On(s[n], x)
                          <=> x = CategoryLine(o[n]) \/ \E b \in list : CategoryOf(b) = o[n] /\ x = BenchmarkLine(b)
          BY <1>6, <4>3
        <5>5. \A x : ~(On(u, x) /\ On(s[n], x))
          <6> SUFFICES ASSUME NEW x, Among(n - 1, x), On(s[n], x) PROVE FALSE
            BY <5>3
          <6>1. PICK k \in 1 .. n - 1 : \/ x = CategoryLine(o[k])
                                        \/ \E b \in list : CategoryOf(b) = o[k] /\ x = BenchmarkLine(b)
            OBVIOUS
          <6>2. k \in 1 .. N /\ o[k] # o[n]
            BY <1>2, <1>3, <4>3, <5>1
          <6>3. x = CategoryLine(o[n]) \/ \E b \in list : CategoryOf(b) = o[n] /\ x = BenchmarkLine(b)
            BY <5>4
          <6>4. \A c, d : /\ CategoryLine(c) # BenchmarkLine(d)
                          /\ CategoryLine(c) = CategoryLine(d) => c = d
                          /\ BenchmarkLine(c) = BenchmarkLine(d) => c = d
            BY DEF CategoryLine, BenchmarkLine
          <6> QED
            BY <6>1, <6>2, <6>3, <6>4
        <5>7. /\ u \o s[n] \in Seq(Word) /\ IsInjective(u \o s[n])
              /\ \A x : On(u \o s[n], x) <=> On(u, x) \/ On(s[n], x)
          BY <5>3, <5>4, <5>5, Joined
        <5>8. Headed(u \o s[n])
          BY <5>3, <5>4, HeadedJoined
        <5>9. \A x : Among(n, x) <=> \/ Among(n - 1, x)
                                     \/ x = CategoryLine(o[n])
                                     \/ \E b \in list : CategoryOf(b) = o[n] /\ x = BenchmarkLine(b)
          <6>1. \A k : k \in 1 .. n <=> k \in 1 .. n - 1 \/ k = n
            BY <1>2, <4>3
          <6> QED
            BY <6>1
        <5>10. \A x : On(u \o s[n], x) <=> Among(n, x)
          <6> HIDE DEF Among
          <6> QED
            BY <5>3, <5>4, <5>7, <5>9
        <5>11. Listing(u \o s[n], n)
          BY <5>7, <5>8, <5>10 DEF Listing
        <5> QED
          BY <4>3, <5>2, <5>11
      <4> QED
        BY <4>4, <4>5
    <3>3. N \in 1 .. N
      BY <1>2, <2>2
    <3> HIDE DEF Listing
    <3> QED
      BY <3>1, <3>2, <3>3
  <2> QED
    BY <1>2, <2>1, <2>2
<1>8. \A x : Among(N, x) <=> (\E c \in C : x = CategoryLine(c)) \/ (\E b \in list : x = BenchmarkLine(b))
  <2>1. \A b \in list : \E k \in 1 .. N : CategoryOf(b) = o[k]
    BY <1>1, <1>3
  <2>2. \A k \in 1 .. N : o[k] \in C
    BY <1>3
  <2> QED
    BY <1>3, <2>1, <2>2
<1> QED
  BY <1>4, <1>7, <1>8 DEF C

\* Benchmarks without a category make no difference to it.
LEMMA JointOfCategorised ==
  ASSUME NEW list
  PROVE  Lines(list, "joint") = Lines(list \cap Categorised, "joint")
<1> DEFINE known == list \cap Categorised
<1>1. known = known \cap Categorised
  OBVIOUS
<1>2. CategoriesOf(list) = CategoriesOf(known)
  BY <1>1 DEF CategoriesOf
<1>3. GroupByCategory(list) = GroupByCategory(known)
  BY <1>1, <1>2 DEF GroupByCategory
<1> QED
  BY <1>3 DEF Lines

\* What is printed is a list of words' lines.
LEMMA LinesType ==
  ASSUME TableAssumption, NEW list \in SUBSET Benchmark, NEW mode \in ListMode \cup {"none"}
  PROVE  Lines(list, mode) \in Seq(Word)
<1>1. CategoriesOf(list) \in SUBSET Category
  BY CategoriesType
<1>2. CASE mode = "none"
  BY <1>2 DEF Lines
<1>3. CASE mode = "benchmarks"
  BY <1>3, BenchmarksListed DEF Lines
<1>4. CASE mode = "categories"
  BY <1>1, <1>4, CategoriesListed DEF Lines, CategoryLines
<1>5. CASE mode = "joint"
  <2>1. Lines(list \cap Categorised, "joint") \in Seq(Word)
    BY JointListed
  <2> QED
    BY <1>5, <2>1, JointOfCategorised
<1> QED
  BY <1>2, <1>3, <1>4, <1>5 DEF ListMode

\* Each mode lists the selection as it must.
LEMMA LinesListed ==
  ASSUME TableAssumption, NEW mode \in ListMode
  PROVE  Lists(Lines(Selected, mode), mode)
<1> DEFINE C == CategoriesOf(Selected)
           K == Selected \cap Categorised
           lines == Lines(Selected, mode)
           N == Cardinality(Selected)
           L == Cardinality(K)
           M == Cardinality(C)
<1>1. Selected \in SUBSET Benchmark /\ K \in SUBSET Benchmark /\ K \in SUBSET Categorised
  BY DEF Selected
<1>2. C \in SUBSET Category /\ \A b \in K : CategoryOf(b) \in C
  BY <1>1, CategoriesType
<1>3. C = {CategoryOf(b) : b \in K}
  BY DEF CategoriesOf
<1>0. Shown("benchmarks") = Selected /\ Shown("categories") = K /\ Shown("joint") = K
  BY DEF Shown
<1> HIDE DEF C, K
<1>4. N \in Nat /\ L \in Nat /\ M \in Nat
  BY <1>1, <1>2, FiniteTables
<1>5. CASE mode = "benchmarks"
  <2>1. lines = BenchmarkLines(Selected)
    BY <1>5 DEF Lines
  <2> HIDE DEF lines
  <2>2. /\ lines \in Seq(Word) /\ Len(lines) = N /\ IsInjective(lines)
        /\ \A b \in Selected : On(lines, BenchmarkLine(b))
    BY <1>1, <2>1, BenchmarksListed
  <2>3. \A b \in Selected : OnOneLine(lines, BenchmarkLine(b))
    BY <2>2, OnOne
  <2> QED
    BY <1>0, <1>4, <1>5, <2>2, <2>3 DEF Lists, lines
<1>6. CASE mode = "categories"
  <2>1. lines = CategoryLines(C)
    BY <1>6 DEF Lines, CategoryLines, C
  <2> HIDE DEF lines
  <2>2. /\ lines \in Seq(Word) /\ Len(lines) = M /\ IsInjective(lines)
        /\ \A c \in C : On(lines, CategoryLine(c))
    BY <1>2, <2>1, CategoriesListed
  <2>3. \A b \in K : OnOneLine(lines, CategoryLine(CategoryOf(b)))
    BY <1>2, <2>2, OnOne
  <2>4. Shown(mode) = K /\ {CategoryOf(b) : b \in Shown(mode)} = C
    BY <1>0, <1>3, <1>6
  <2>5. 0 + M = M
    BY <1>4
  <2> QED
    BY <1>6, <2>2, <2>3, <2>4, <2>5 DEF Lists, lines
<1>7. CASE mode = "joint"
  <2>1. /\ lines \in Seq(Word) /\ IsInjective(lines) /\ Headed(lines)
        /\ \A x : On(lines, x) <=> (\E c \in C : x = CategoryLine(c)) \/ (\E b \in K : x = BenchmarkLine(b))
    <3>1. CategoriesOf(K) = C
      BY DEF CategoriesOf, C, K
    <3>2. lines = Lines(K, "joint")
      BY <1>7, JointOfCategorised DEF K
    <3> HIDE DEF lines
    <3> QED
      BY <1>1, <3>1, <3>2, JointListed
  <2> HIDE DEF lines
  <2>2. /\ \A b \in K : OnOneLine(lines, BenchmarkLine(b))
        /\ \A b \in K : OnOneLine(lines, CategoryLine(CategoryOf(b)))
    BY <1>2, <2>1, OnOne
  <2>3. Len(lines) = L + M
    <3> DEFINE BL == {BenchmarkLine(b) : b \in K}
               CL == {CategoryLine(c) : c \in C}
    <3>1. IsFiniteSet(BL) /\ Cardinality(BL) = L
      BY <1>1, BenchmarksListed, AsManyLines
    <3>2. IsFiniteSet(CL) /\ Cardinality(CL) = M
      BY <1>2, CategoriesListed, AsManyLines
    <3>3. BL \cap CL = {}
      BY DEF BenchmarkLine, CategoryLine
    <3>4. \A x : On(lines, x) <=> x \in BL \cup CL
      BY <2>1
    <3> HIDE DEF BL, CL
    <3>5. Cardinality(BL \cup CL) = L + M
      <4>1. Cardinality(BL \cup CL) = Cardinality(BL) + Cardinality(CL) - Cardinality({})
        BY <3>1, <3>2, <3>3, FS_Union
      <4> QED
        BY <1>4, <3>1, <3>2, <4>1, FS_EmptySet
    <3>6. Cardinality(BL \cup CL) = Len(lines)
      BY <2>1, <3>4, AsManyLines
    <3> QED
      BY <3>5, <3>6
  <2>4. DOMAIN lines = 1 .. Len(lines)
    BY <2>1
  <2> QED
    BY <1>0, <1>3, <1>4, <1>7, <2>1, <2>2, <2>3, <2>4 DEF Lists, Headed, lines
<1> QED
  BY <1>5, <1>6, <1>7 DEF ListMode

-----------------------------------------------------------------------------
(***************************************************************************)
(* The program                                                             *)
(***************************************************************************)

Unknown == \E k \in 1 .. ofs : spec[k].kind = "unknown"
Stops == StopsAfterList \/ StopsAfterDescriptions

\* The words up to ofs have been taken, and all of them are known, once the parser has returned.
ParseInv ==
  /\ benchmarks = {b \in Benchmark : \E k \in 1 .. ofs : b \in Named(spec[k])}
  /\ pc = "parse" => ~Unknown
  /\ pc \in {"list", "describe", "setup", "run", "returned"} => ofs = Len(spec) /\ ~Unknown

\* Lines are printed once, and only of a selection that is complete.
PrintInv ==
  /\ pc \in {"parse", "list"} => listed = <<>>
  /\ pc \in {"parse", "list", "describe"} => described = <<>>
  /\ pc \in {"describe", "setup", "run", "returned"} => listed = Lines(benchmarks, list_mode)
  /\ pc \in {"setup", "run", "returned"} => described = Lines(benchmarks, describe_mode)

\* The first results of those that are selected, in their order.
Beginning ==
  /\ Len(written) <= Cardinality(benchmarks)
  /\ \A i \in 1 .. Len(written) : written[i] = InOrder(benchmarks)[i]

\* The loop has written the first ones, and the others are yet to come.
RunInv ==
  /\ pc \in {"parse", "list", "describe", "setup"} => written = <<>>
  /\ pc = "describe" => ~StopsAfterList
  /\ pc \in {"setup", "run"} => ~Stops
  /\ pc = "run" =>
       /\ Beginning
       /\ todo = {InOrder(benchmarks)[i] : i \in Len(written) + 1 .. Cardinality(benchmarks)}
  /\ pc = "returned" => written = IF Stops THEN <<>> ELSE InOrder(benchmarks)
  /\ pc = "terminated" =>
       \/ Unknown /\ listed = <<>> /\ described = <<>> /\ written = <<>>
       \/ ~Unknown /\ ofs = Len(spec) /\ Beginning

IInv == TypeOK /\ ParseInv /\ PrintInv /\ RunInv

\* Of those yet to come, the loop takes the next in the order.
LEMMA NextInOrder ==
  ASSUME NEW S \in SUBSET Nat, IsFiniteSet(S), NEW n \in Nat, NEW T,
         \A x : x \in T <=> \E i \in n + 1 .. Cardinality(S) : x = InOrder(S)[i],
         T # {}
  PROVE  /\ n + 1 \in 1 .. Cardinality(S)
         /\ Least(T) = InOrder(S)[n + 1] /\ Least(T) \in T
         /\ \A x : x \in T \ {Least(T)} <=> \E i \in n + 2 .. Cardinality(S) : x = InOrder(S)[i]
<1> DEFINE m == Cardinality(S)
           f == InOrder(S)
<1>1. /\ m \in Nat /\ f \in [1 .. m -> S]
      /\ \A i, j \in 1 .. m : i < j => f[i] < f[j]
      /\ \A i, j \in 1 .. m : f[i] = f[j] => i = j
  <2>1. m \in Nat /\ f \in [1 .. m -> S] /\ Increasing(f) /\ \A i, j \in 1 .. m : f[i] = f[j] => i = j
    BY InOrderLists
  <2> HIDE DEF f
  <2> QED
    BY <2>1 DEF Increasing
<1> HIDE DEF f, m
<1>2. T = {f[i] : i \in n + 1 .. m}
  BY DEF f, m
<1>3. n + 1 \in 1 .. m /\ f[n + 1] \in T /\ f[n + 1] \in Nat
  <2>1. PICK i \in n + 1 .. m : TRUE
    BY <1>2
  <2>2. n + 1 \in 1 .. m /\ n + 1 \in n + 1 .. m
    BY <1>1, <2>1
  <2> QED
    BY <1>1, <1>2, <2>2
<1>4. ASSUME NEW x \in T PROVE x \in Nat /\ f[n + 1] <= x
  <2>1. PICK i \in n + 1 .. m : x = f[i]
    BY <1>2
  <2>2. i \in 1 .. m /\ (i = n + 1 \/ n + 1 < i)
    BY <1>1, <2>1
  <2>3. f[i] \in Nat
    BY <1>1, <2>2
  <2>4. f[n + 1] = f[i] \/ f[n + 1] < f[i]
    BY <1>1, <1>3, <2>2
  <2> QED
    BY <1>3, <2>1, <2>3, <2>4
<1>5. Least(T) = f[n + 1]
  <2>1. \A x \in T : (\A y \in T : x <= y) => x = f[n + 1]
    BY <1>3, <1>4
  <2> QED
    BY <1>3, <1>4, <2>1 DEF Least
<1>6. T \ {f[n + 1]} = {f[i] : i \in n + 2 .. m}
  <2>1. \A i : i \in n + 1 .. m <=> i = n + 1 \/ i \in n + 2 .. m
    BY <1>1, <1>3
  <2>2. \A i \in n + 2 .. m : i \in 1 .. m /\ i # n + 1
    BY <1>1
  <2>3. \A i \in n + 2 .. m : f[i] # f[n + 1]
    BY <1>1, <1>3, <2>2
  <2> QED
    BY <1>2, <2>1, <2>3
<1> QED
  BY <1>3, <1>5, <1>6 DEF f, m

\* With all its words taken, the specification has selected what it names.
LEMMA AllParsed ==
  ASSUME TableAssumption, TypeOK, ofs = Len(spec), ParseInv
  PROVE  benchmarks = Selected /\ (Unknown <=> \E k \in DOMAIN spec : spec[k].kind = "unknown")
<1>1. DOMAIN spec = 1 .. ofs /\ \A k \in 1 .. ofs : spec[k] \in Word
  BY DEF TypeOK
<1>2. ASSUME NEW b \in Benchmark, NEW k \in 1 .. ofs
      PROVE  b \in Named(spec[k]) <=> \/ spec[k].kind = "all"
                                      \/ spec[k].kind = "benchmark" /\ spec[k].id = b
                                      \/ /\ spec[k].kind = "category"
                                         /\ b \in Categorised /\ spec[k].id = CategoryOf(b)
  <2> DEFINE w == spec[k]
  <2>1. w \in Word
    BY <1>1
  <2> SUFFICES b \in Named(w) <=> \/ w.kind = "all"
                                  \/ w.kind = "benchmark" /\ w.id = b
                                  \/ w.kind = "category" /\ b \in Categorised /\ w.id = CategoryOf(b)
    OBVIOUS
  <2> HIDE DEF w
  <2>2. /\ b \in Categorised => CategoryOf(b) \in DOMAIN CategoryBenchmarkMap
        /\ \A c \in DOMAIN CategoryBenchmarkMap :
             b \in CategoryBenchmarkMap[c] <=> b \in Categorised /\ c = CategoryOf(b)
    BY OneCategory DEF Categorised
  <2>3. w.kind \in {"all", "category", "benchmark", "unknown", "empty"}
    BY <2>1 DEF Word
  <2>4. CASE w.kind = "all"
    BY <2>4 DEF Named
  <2>5. CASE w.kind = "category"
    BY <2>2, <2>5 DEF Named
  <2>6. CASE w.kind = "benchmark"
    BY <2>6 DEF Named
  <2>7. CASE w.kind \in {"unknown", "empty"}
    BY <2>7 DEF Named
  <2> QED
    BY <2>3, <2>4, <2>5, <2>6, <2>7
<1> QED
  BY <1>1, <1>2 DEF ParseInv, Selected, Unknown

\* A word names benchmarks.
LEMMA NamedType ==
  ASSUME TableAssumption, NEW w \in Word
  PROVE  Named(w) \in SUBSET Benchmark
<1>1. CASE w.kind = "benchmark"
  <2>1. w.id \in Benchmark
    BY <1>1 DEF Word
  <2> QED
    BY <1>1, <2>1 DEF Named
<1>2. CASE w.kind = "category"
  BY <1>2 DEF Named, TableAssumption
<1>3. CASE w.kind = "all"
  BY <1>3 DEF Named
<1>4. CASE w.kind \in {"unknown", "empty"}
  BY <1>4 DEF Named
<1>5. w.kind \in {"all", "category", "benchmark", "unknown", "empty"}
  BY DEF Word
<1> QED
  BY <1>1, <1>2, <1>3, <1>4, <1>5

\* The options are what they were, and so is what depends on them alone.
LEMMA OptionsKept ==
  ASSUME [Next]_vars
  PROVE  /\ spec' = spec /\ list_mode' = list_mode /\ describe_mode' = describe_mode /\ run' = run /\ format' = format
         /\ Listed' = Listed /\ Described' = Described
         /\ StopsAfterList' = StopsAfterList /\ StopsAfterDescriptions' = StopsAfterDescriptions
         /\ Stops' = Stops
<1>1. /\ spec' = spec /\ list_mode' = list_mode /\ describe_mode' = describe_mode /\ run' = run /\ format' = format
  BY DEF Next, vars, options, ParseWord, EndParse, PrintList, PrintDescriptions, Setup, RunBenchmark, Return
<1> QED
  BY <1>1 DEF Listed, Described, StopsAfterList, StopsAfterDescriptions, Stops

\* IInv holds initially.
LEMMA Initially ==
  ASSUME TableAssumption, Init
  PROVE  IInv
<1>1. TypeOK
  <2>1. PICK n \in 0 .. MaxWords : spec \in [1 .. n -> Word]
    BY DEF Init
  <2>2. n \in Nat
    BY <2>1 DEF TableAssumption
  <2>3. spec \in Seq(Word)
    BY <2>1, <2>2
  <2>4. Len(spec) \in Nat
    BY <2>3
  <2> QED
    BY <2>3, <2>4 DEF TypeOK, Init
<1>2. \A k : k \notin 1 .. ofs
  BY DEF Init
<1>3. ParseInv
  BY <1>2 DEF Init, ParseInv, Unknown
<1>4. PrintInv /\ RunInv
  BY DEF Init, PrintInv, RunInv
<1> QED
  BY <1>1, <1>3, <1>4 DEF IInv

\* One word more.
LEMMA ParsesAWord ==
  ASSUME TableAssumption, IInv, ParseWord, [Next]_vars
  PROVE  IInv'
<1> DEFINE w == spec[ofs + 1]
<1>1. /\ pc = "parse" /\ ofs' = ofs + 1 /\ benchmarks' = benchmarks \cup Named(w)
      /\ pc' = IF w.kind = "unknown" THEN "terminated" ELSE "parse"
      /\ spec' = spec /\ listed' = listed /\ described' = described /\ todo' = todo /\ written' = written
      /\ ofs < Len(spec)
  BY OptionsKept DEF ParseWord, printed
<1>2. ofs \in Nat /\ Len(spec) \in Nat /\ ofs + 1 \in 0 .. Len(spec) /\ w \in Word
  BY <1>1 DEF IInv, TypeOK
<1>3. \A k : k \in 1 .. ofs' <=> k \in 1 .. ofs \/ k = ofs + 1
  BY <1>1, <1>2
<1>4. Named(w) \in SUBSET Benchmark
  BY <1>2, NamedType
<1> HIDE DEF w
<1>5. TypeOK'
  BY <1>1, <1>2, <1>4, OptionsKept DEF IInv, TypeOK
<1>6. Unknown' <=> w.kind = "unknown"
  <2>1. ~Unknown
    BY <1>1 DEF IInv, ParseInv
  <2> QED
    BY <1>1, <1>3, <2>1 DEF Unknown, w
<1>7. benchmarks' = {b \in Benchmark : \E k \in 1 .. ofs' : b \in Named(spec'[k])}
  <2>1. benchmarks = {b \in Benchmark : \E k \in 1 .. ofs : b \in Named(spec[k])}
    BY DEF IInv, ParseInv
  <2> QED
    BY <1>1, <1>3, <1>4, <2>1 DEF w
<1>8. ParseInv'
  BY <1>1, <1>6, <1>7 DEF ParseInv
<1>9. PrintInv' /\ RunInv'
  <2>1. listed = <<>> /\ described = <<>> /\ written = <<>>
    BY <1>1 DEF IInv, PrintInv, RunInv
  <2> QED
    BY <1>1, <1>6, <2>1 DEF PrintInv, RunInv
<1> QED
  BY <1>5, <1>8, <1>9 DEF IInv

\* What main() does before its loop.
LEMMA Prepares ==
  ASSUME TableAssumption, IInv, EndParse \/ PrintList \/ PrintDescriptions \/ Setup, [Next]_vars
  PROVE  IInv'
<1>1. /\ ofs' = ofs /\ benchmarks' = benchmarks /\ written' = written /\ spec' = spec
      /\ list_mode' = list_mode /\ describe_mode' = describe_mode
  BY OptionsKept DEF EndParse, PrintList, PrintDescriptions, Setup, parsing
<1>2. Lines(benchmarks, list_mode) \in Seq(Word) /\ Lines(benchmarks, describe_mode) \in Seq(Word)
  BY LinesType DEF IInv, TypeOK
<1>3. TypeOK'
  BY <1>1, <1>2, OptionsKept DEF IInv, TypeOK, EndParse, PrintList, PrintDescriptions, Setup, printed, Goes
<1>4. Unknown' = Unknown
  BY <1>1 DEF Unknown
<1>5. ParseInv'
  BY <1>1, <1>4 DEF IInv, ParseInv, EndParse, PrintList, PrintDescriptions, Setup, Goes
<1>6. written = <<>>
  BY DEF IInv, RunInv, EndParse, PrintList, PrintDescriptions, Setup, Goes
<1>7. IsFiniteSet(benchmarks) /\ benchmarks \in SUBSET Nat /\ Cardinality(benchmarks) \in Nat
  BY FiniteTables DEF IInv, TypeOK
<1>8. Beginning'
  BY <1>1, <1>6, <1>7 DEF Beginning
<1>9. CASE EndParse
  <2>1. PrintInv'
    BY <1>9 DEF IInv, PrintInv, EndParse, Goes, printed
  <2>2. RunInv'
    BY <1>1, <1>6, <1>9 DEF RunInv, EndParse, Goes
  <2> QED
    BY <1>3, <1>5, <2>1, <2>2 DEF IInv
<1>10. CASE PrintList
  <2>1. /\ pc = "list" /\ listed' = Lines(benchmarks, list_mode) /\ described' = described
        /\ pc' = IF StopsAfterList THEN "returned" ELSE "describe"
    BY <1>10 DEF PrintList, Goes
  <2>2. described = <<>>
    BY <2>1 DEF IInv, PrintInv
  <2>3. StopsAfterList => described = Lines(benchmarks, describe_mode)
    BY <2>2 DEF StopsAfterList, Described, Lines
  <2>4. PrintInv'
    BY <1>1, <2>1, <2>2, <2>3 DEF PrintInv
  <2>5. RunInv'
    BY <1>1, <1>6, <2>1, OptionsKept DEF RunInv, Stops
  <2> QED
    BY <1>3, <1>5, <2>4, <2>5 DEF IInv
<1>11. CASE PrintDescriptions
  <2>1. /\ pc = "describe" /\ described' = Lines(benchmarks, describe_mode) /\ listed' = listed
        /\ pc' = IF StopsAfterDescriptions THEN "returned" ELSE "setup"
    BY <1>11 DEF PrintDescriptions, Goes
  <2>2. PrintInv'
    BY <1>1, <2>1 DEF IInv, PrintInv
  <2>3. ~StopsAfterList
    BY <2>1 DEF IInv, RunInv
  <2>4. RunInv'
    BY <1>1, <1>6, <2>1, <2>3, OptionsKept DEF RunInv, Stops
  <2> QED
    BY <1>3, <1>5, <2>2, <2>4 DEF IInv
<1>12. CASE Setup
  <2>1. /\ pc = "setup" /\ pc' \in {"run", "terminated"} /\ todo' = benchmarks
        /\ listed' = listed /\ described' = described
    BY <1>12 DEF Setup, Goes, printed
  <2>2. PrintInv'
    BY <1>1, <2>1 DEF IInv, PrintInv
  <2>3. ~Unknown /\ ofs = Len(spec) /\ ~Stops
    BY <2>1 DEF IInv, ParseInv, RunInv
  <2>4. todo' = {InOrder(benchmarks')[i] : i \in Len(written') + 1 .. Cardinality(benchmarks')}
    <3> DEFINE m == Cardinality(benchmarks)
               f == InOrder(benchmarks)
    <3>1. f \in [1 .. m -> benchmarks] /\ \A x \in benchmarks : \E i \in 1 .. m : f[i] = x
      BY <1>7, InOrderLists
    <3> HIDE DEF f, m
    <3>2. benchmarks = {f[i] : i \in 1 .. m}
      BY <3>1
    <3>3. Len(written') + 1 = 1
      BY <1>1, <1>6
    <3> QED
      BY <1>1, <2>1, <3>2, <3>3 DEF f, m
  <2>5. ~Unknown' /\ ofs' = Len(spec') /\ ~Stops'
    BY <1>1, <1>4, <2>3, OptionsKept
  <2>6. RunInv'
    BY <1>8, <2>1, <2>4, <2>5 DEF RunInv
  <2> QED
    BY <1>3, <1>5, <2>2, <2>6 DEF IInv
<1> QED
  BY <1>9, <1>10, <1>11, <1>12

\* One benchmark more, or an exception.
LEMMA RunsABenchmark ==
  ASSUME TableAssumption, IInv, RunBenchmark, [Next]_vars
  PROVE  IInv'
<1> DEFINE n == Len(written)
           m == Cardinality(benchmarks)
           f == InOrder(benchmarks)
<1>1. /\ pc = "run" /\ todo # {} /\ todo' = todo \ {Least(todo)}
      /\ ofs' = ofs /\ benchmarks' = benchmarks /\ spec' = spec /\ listed' = listed /\ described' = described
      /\ \/ pc' = "run" /\ written' = Append(written, Least(todo))
         \/ pc' = "terminated" /\ written' = written
  BY OptionsKept DEF RunBenchmark, Goes, parsing, printed
<1>2. written \in Seq(Benchmark) /\ todo \in SUBSET Benchmark /\ n \in Nat
  BY DEF IInv, TypeOK
<1>3. IsFiniteSet(benchmarks) /\ benchmarks \in SUBSET Nat /\ m \in Nat
  BY FiniteTables DEF IInv, TypeOK
<1>4. /\ n <= m /\ \A i \in 1 .. n : written[i] = f[i]
      /\ todo = {f[i] : i \in n + 1 .. m}
  BY <1>1 DEF IInv, RunInv, Beginning
<1>5. /\ n + 1 \in 1 .. m /\ Least(todo) = f[n + 1] /\ Least(todo) \in todo
      /\ todo \ {Least(todo)} = {f[i] : i \in n + 2 .. m}
  <2>1. \A x : x \in todo <=> \E i \in n + 1 .. Cardinality(benchmarks) : x = InOrder(benchmarks)[i]
    BY <1>4
  <2> HIDE DEF n
  <2>2. /\ n + 1 \in 1 .. Cardinality(benchmarks)
        /\ Least(todo) = InOrder(benchmarks)[n + 1] /\ Least(todo) \in todo
        /\ \A x : x \in todo \ {Least(todo)}
                    <=> \E i \in n + 2 .. Cardinality(benchmarks) : x = InOrder(benchmarks)[i]
    BY <1>1, <1>2, <1>3, <2>1, NextInOrder
  <2> QED
    BY <2>2
<1>6. ~Unknown' /\ ofs' = Len(spec') /\ ~Stops'
  <2>1. ~Unknown /\ ofs = Len(spec) /\ ~Stops
    BY <1>1 DEF IInv, ParseInv, RunInv
  <2> QED
    BY <1>1, <2>1, OptionsKept DEF Unknown
<1>7. TypeOK'
  <2>1. written' \in Seq(Benchmark) /\ todo' \in SUBSET Benchmark
    BY <1>1, <1>2, <1>5
  <2> QED
    BY <1>1, <2>1, OptionsKept DEF IInv, TypeOK
<1>8. ParseInv'
  BY <1>1, <1>6 DEF IInv, ParseInv
<1>9. PrintInv'
  BY <1>1, OptionsKept DEF IInv, PrintInv
<1>10. RunInv'
  <2>1. CASE pc' = "run" /\ written' = Append(written, Least(todo))
    <3> DEFINE W == Append(written, Least(todo))
    <3>1. Len(W) = n + 1 /\ W[n + 1] = Least(todo) /\ \A i \in 1 .. n : W[i] = written[i]
      BY <1>2
    <3> HIDE DEF f, m, n, W
    <3>2. \A i \in 1 .. n + 1 : W[i] = f[i]
      <4>1. \A i \in 1 .. n + 1 : i \in 1 .. n \/ i = n + 1
        BY <1>2
      <4> QED
        BY <1>4, <1>5, <3>1, <4>1
    <3>3. Beginning'
      <4>1. Len(W) <= m /\ \A i \in 1 .. Len(W) : W[i] = f[i]
        BY <1>2, <1>3, <1>5, <3>1, <3>2
      <4> QED
        BY <1>1, <2>1, <4>1 DEF Beginning, W, f, m
    <3>4. todo' = {InOrder(benchmarks')[i] : i \in Len(written') + 1 .. Cardinality(benchmarks')}
      <4>1. Len(W) + 1 = n + 2
        BY <1>2, <3>1
      <4>2. todo' = {f[i] : i \in Len(W) + 1 .. m}
        BY <1>1, <1>5, <4>1
      <4> QED
        BY <1>1, <2>1, <4>2 DEF W, f, m
    <3> QED
      BY <1>6, <2>1, <3>3, <3>4 DEF RunInv
  <2>2. CASE pc' = "terminated" /\ written' = written
    <3>1. Beginning'
      BY <1>1, <1>4, <2>2 DEF Beginning
    <3> QED
      BY <1>6, <2>2, <3>1 DEF RunInv
  <2> QED
    BY <1>1, <2>1, <2>2
<1> QED
  BY <1>7, <1>8, <1>9, <1>10 DEF IInv

\* The loop is over.
LEMMA Returns ==
  ASSUME TableAssumption, IInv, Return, [Next]_vars
  PROVE  IInv'
<1> DEFINE n == Len(written)
           m == Cardinality(benchmarks)
           f == InOrder(benchmarks)
<1>1. /\ pc = "run" /\ todo = {} /\ pc' = "returned" /\ todo' = todo /\ written' = written
      /\ ofs' = ofs /\ benchmarks' = benchmarks /\ spec' = spec /\ listed' = listed /\ described' = described
  BY OptionsKept DEF Return, Goes, parsing, printed
<1>2. TypeOK'
  BY <1>1, OptionsKept DEF IInv, TypeOK
<1>3. ParseInv'
  BY <1>1 DEF IInv, ParseInv, Unknown
<1>4. PrintInv'
  BY <1>1, OptionsKept DEF IInv, PrintInv
<1>5. ~Stops'
  <2>1. ~Stops
    BY <1>1 DEF IInv, RunInv
  <2> QED
    BY <2>1, OptionsKept
<1>6. written = f
  <2>1. written \in Seq(Benchmark) /\ n \in Nat
    BY DEF IInv, TypeOK
  <2>2. IsFiniteSet(benchmarks) /\ benchmarks \in SUBSET Nat /\ m \in Nat
    BY FiniteTables DEF IInv, TypeOK
  <2>3. f \in [1 .. m -> benchmarks]
    BY <2>2, InOrderLists
  <2>4. n <= m /\ (\A i \in 1 .. n : written[i] = f[i]) /\ todo = {f[i] : i \in n + 1 .. m}
    BY <1>1 DEF IInv, RunInv, Beginning
  <2> HIDE DEF f, m
  <2>5. n = m
    <3>1. \A i \in n + 1 .. m : f[i] \in todo
      BY <2>4
    <3>2. n + 1 \notin n + 1 .. m
      BY <1>1, <3>1
    <3> QED
      BY <2>1, <2>2, <2>4, <3>2
  <2>6. written = [i \in 1 .. n |-> written[i]] /\ f = [i \in 1 .. m |-> f[i]]
    BY <2>1, <2>3
  <2> QED
    BY <2>4, <2>5, <2>6
<1>7. RunInv'
  BY <1>1, <1>5, <1>6 DEF RunInv
<1> QED
  BY <1>2, <1>3, <1>4, <1>7 DEF IInv

\* Every step preserves IInv.
LEMMA Inductive ==
  ASSUME TableAssumption, IInv, [Next]_vars
  PROVE  IInv'
<1>1. CASE ParseWord
  BY <1>1, ParsesAWord
<1>2. CASE EndParse \/ PrintList \/ PrintDescriptions \/ Setup
  BY <1>2, Prepares
<1>3. CASE RunBenchmark
  BY <1>3, RunsABenchmark
<1>4. CASE Return
  BY <1>4, Returns
<1>5. CASE UNCHANGED vars
  <2>1. /\ spec' = spec /\ list_mode' = list_mode /\ describe_mode' = describe_mode /\ run' = run /\ format' = format
        /\ pc' = pc /\ ofs' = ofs /\ benchmarks' = benchmarks /\ listed' = listed /\ described' = described
        /\ todo' = todo /\ written' = written
    BY <1>5 DEF vars
  <2>2. /\ Unknown' <=> Unknown
        /\ Beginning' <=> Beginning
        /\ Stops' <=> Stops
        /\ StopsAfterList' <=> StopsAfterList
    BY <2>1 DEF Unknown, Beginning, Stops, StopsAfterList, StopsAfterDescriptions, Listed, Described
  <2>3. TypeOK' /\ ParseInv' /\ PrintInv'
    BY <2>1, <2>2 DEF IInv, TypeOK, ParseInv, PrintInv
  <2>4. RunInv'
    BY <2>1, <2>2 DEF IInv, RunInv
  <2> QED
    BY <2>3, <2>4 DEF IInv
<1> QED
  BY <1>1, <1>2, <1>3, <1>4, <1>5 DEF Next

\* In every state that the program can be in.
LEMMA Invariant ==
  ASSUME TableAssumption
  PROVE  Spec => []IInv
<1>1. Init => IInv
  BY Initially
<1>2. IInv /\ [Next]_vars => IInv'
  BY Inductive
<1> QED
  BY <1>1, <1>2, PTL DEF Spec

\* The first elements of a sequence are a prefix of it.
LEMMA PrefixOf ==
  ASSUME NEW W, NEW s \in Seq(W), NEW u \in Seq(W), Len(s) <= Len(u), \A i \in 1 .. Len(s) : s[i] = u[i]
  PROVE  IsPrefix(s, u)
<1> DEFINE n == Len(s)
           v == SubSeq(u, 1, n)
<1>1. n \in Nat /\ n <= Len(u) /\ \A i \in 1 .. n : u[i] \in W
  OBVIOUS
<1>2. SubSeq(s, 1, n) = s
  BY SubSeqFull
<1>3. v \in Seq(W) /\ Len(v) = n /\ \A i \in 1 .. n : v[i] = u[i]
  <2>1. v \in Seq(W) /\ Len(v) = (IF 1 <= n THEN n - 1 + 1 ELSE 0) /\ \A i \in 1 .. n - 1 + 1 : v[i] = u[1 + i - 1]
    BY <1>1, SubSeqProperties
  <2> HIDE DEF v, n
  <2>2. n - 1 + 1 = n /\ Len(v) = n /\ \A i \in 1 .. n : 1 + i - 1 = i
    BY <1>1, <2>1
  <2> QED
    BY <2>1, <2>2
<1>4. v = s
  <2> HIDE DEF v
  <2> QED
    BY <1>3, SeqEqual
<1> QED
  BY <1>1, <1>2, <1>4 DEF IsPrefix

\* What the list and the descriptions show is the selection.
LEMMA ListsThem ==
  ASSUME TableAssumption, IInv
  PROVE  ListsSelection
<1>1. TypeOK /\ ParseInv /\ PrintInv /\ RunInv
  BY DEF IInv
<1>2. ASSUME \E k \in DOMAIN spec : spec[k].kind = "unknown"
      PROVE  pc \in {"parse", "terminated"} /\ listed = <<>> /\ described = <<>>
  <2>1. CASE pc = "parse"
    BY <1>1, <2>1 DEF PrintInv
  <2>2. CASE pc = "terminated"
    <3>1. ~Unknown => ofs # Len(spec)
      BY <1>1, <1>2, AllParsed
    <3> QED
      BY <1>1, <2>2, <3>1 DEF RunInv
  <2>3. CASE pc \in {"list", "describe", "setup", "run", "returned"}
    <3>1. ofs = Len(spec) /\ ~Unknown
      BY <1>1, <2>3 DEF ParseInv
    <3> QED
      BY <1>1, <1>2, <3>1, AllParsed
  <2> QED
    BY <1>1, <2>1, <2>2, <2>3 DEF TypeOK
<1>3. ASSUME pc \in {"describe", "setup", "run", "returned"} PROVE benchmarks = Selected
  <2>1. ofs = Len(spec)
    BY <1>1, <1>3 DEF ParseInv
  <2> QED
    BY <1>1, <2>1, AllParsed
<1>4. ASSUME pc \in {"describe", "setup", "run", "returned"}, Listed PROVE Lists(listed, list_mode)
  <2>1. listed = Lines(Selected, list_mode) /\ list_mode \in ListMode
    BY <1>1, <1>3, <1>4 DEF PrintInv, TypeOK, Listed
  <2> QED
    BY <2>1, LinesListed
<1>5. ASSUME pc \in {"setup", "run", "returned"}, Described PROVE Lists(described, describe_mode)
  <2>1. described = Lines(Selected, describe_mode) /\ describe_mode \in ListMode
    BY <1>1, <1>3, <1>5 DEF PrintInv, TypeOK, Described
  <2> QED
    BY <2>1, LinesListed
<1> QED
  BY <1>2, <1>4, <1>5 DEF ListsSelection

\* What has been written is a prefix of what the selection asks for, and at the end it is what the options ask for.
LEMMA RunsThem ==
  ASSUME TableAssumption, IInv
  PROVE  RunsAsAsked
<1>1. TypeOK /\ ParseInv /\ PrintInv /\ RunInv
  BY DEF IInv
<1> DEFINE m == Cardinality(Selected)
           f == InOrder(Selected)
<1>2. Selected \in SUBSET Benchmark
  BY DEF Selected
<1>3. m \in Nat /\ f \in [1 .. m -> Selected]
  BY <1>2, FiniteTables, InOrderLists
<1> HIDE DEF f, m
<1>4. f \in Seq(Benchmark) /\ Len(f) = m
  <2>1. f \in [1 .. m -> Benchmark]
    BY <1>2, <1>3
  <2> QED
    BY <1>3, <2>1
<1>5. written \in Seq(Benchmark) /\ Len(written) \in Nat
  BY <1>1 DEF TypeOK
<1>6. Stops <=> ~run /\ (Listed \/ Described)
  BY DEF Stops, StopsAfterList, StopsAfterDescriptions
<1>7. ASSUME ofs = Len(spec) PROVE benchmarks = Selected
  BY <1>1, <1>7, AllParsed
<1>8. ASSUME pc = "returned" PROVE written = IF run \/ ~(Listed \/ Described) THEN f ELSE <<>>
  <2>1. benchmarks = Selected
    BY <1>1, <1>7, <1>8 DEF ParseInv
  <2>2. written = IF Stops THEN <<>> ELSE f
    BY <1>1, <1>8, <2>1 DEF RunInv, f
  <2> QED
    BY <1>1, <1>6, <2>2 DEF TypeOK
<1>9. IsPrefix(written, f)
  <2>1. written = <<>> \/ (Len(written) <= m /\ \A i \in 1 .. Len(written) : written[i] = f[i])
    <3>1. CASE pc \in {"parse", "list", "describe", "setup"}
      BY <1>1, <3>1 DEF RunInv
    <3>2. CASE pc = "run"
      BY <1>1, <1>7, <3>2 DEF RunInv, ParseInv, Beginning, f, m
    <3>3. CASE pc = "returned"
      BY <1>3, <1>4, <1>8, <3>3
    <3>4. CASE pc = "terminated"
      BY <1>1, <1>7, <3>4 DEF RunInv, Beginning, f, m
    <3> QED
      BY <1>1, <3>1, <3>2, <3>3, <3>4 DEF TypeOK
  <2>2. CASE written = <<>>
    <3>1. <<>> \in Seq(Benchmark) /\ Len(<<>>) = 0
      OBVIOUS
    <3>2. Len(<<>>) <= Len(f) /\ \A i \in 1 .. Len(<<>>) : <<>>[i] = f[i]
      BY <1>3, <1>4, <3>1
    <3> QED
      BY <1>4, <2>2, <3>1, <3>2, PrefixOf
  <2>3. CASE Len(written) <= m /\ \A i \in 1 .. Len(written) : written[i] = f[i]
    BY <1>4, <1>5, <2>3, PrefixOf
  <2> QED
    BY <2>1, <2>2, <2>3
<1> QED
  BY <1>8, <1>9 DEF RunsAsAsked, f

-----------------------------------------------------------------------------

(***************************************************************************)
(* The variables have their types: the lines of the three modes are        *)
(* sequences of words for whatever is selected from whatever tables.       *)
(***************************************************************************)
THEOREM TypeCorrect ==
  ASSUME TableAssumption
  PROVE  Spec => []TypeOK
<1>1. IInv => TypeOK
  BY DEF IInv
<1> QED
  BY <1>1, Invariant, PTL

(***************************************************************************)
(* ParseSpecification(), PrintList() and PrintDescriptions(): for every    *)
(* table that gives no benchmark two categories, and every specification,  *)
(* the list by name has each selected benchmark once; the two others have  *)
(* each that the table knows, or its category, once, the joint one each    *)
(* under its category; nothing that is not selected is on a line; and an   *)
(* unknown word ends the program before.                                   *)
(***************************************************************************)
THEOREM ListsWhatIsSelected ==
  ASSUME TableAssumption
  PROVE  Spec => []ListsSelection
<1>1. IInv => ListsSelection
  BY ListsThem
<1> QED
  BY <1>1, Invariant, PTL

(***************************************************************************)
(* main(): for every such table, specification and set of options, it      *)
(* returns with the results of all that are selected, in their order, or,  *)
(* when --list or --describe is given without --run, with none; and an     *)
(* exception leaves the first of them.                                     *)
(***************************************************************************)
THEOREM RunsWhatIsAsked ==
  ASSUME TableAssumption
  PROVE  Spec => []RunsAsAsked
<1>1. IInv => RunsAsAsked
  BY RunsThem
<1> QED
  BY <1>1, Invariant, PTL
=============================================================================
