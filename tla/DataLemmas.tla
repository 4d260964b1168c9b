----------------------------- MODULE DataLemmas -----------------------------
(***************************************************************************)
(* Lemmas on the data that the proofs about the components share: the      *)
(* greatest and the least of a finite set of numbers, induction, sums, what *)
(* a sequence is after Append, Tail and \o, and the sequence that has the   *)
(* elements of a finite set in the order of a strict total order.          *)
(***************************************************************************)
EXTENDS Integers, Sequences, FiniteSets, FiniteSetTheorems, SequenceTheorems,
        WellFoundedInduction, Functions, TLAPS

\* A nonempty finite set of naturals has a greatest element: the set of what
\* lies above an element cannot shrink forever.
LEMMA GreatestExists ==
  ASSUME NEW S \in SUBSET Nat, S # {}, IsFiniteSet(S)
  PROVE  \E m \in S : \A s \in S : s <= m
<1> DEFINE Above(m) == {s \in S : s > m}
           T == {Above(m) : m \in S}
<1>2. \A m \in S : IsFiniteSet(Above(m))
  BY FS_Subset
<1>3. T \subseteq FiniteSubsetsOf(S) /\ T # {}
  BY <1>2 DEF FiniteSubsetsOf
<1>4. \E x \in T : \A y \in T : ~ (<<y, x>> \in StrictSubsetOrdering(S))
  <2> HIDE DEF T
  <2> QED
    BY <1>3, FS_StrictSubsetOrderingWellFounded, WFMin
<1>5. PICK m \in S : \A y \in T : ~ (<<y, Above(m)>> \in StrictSubsetOrdering(S))
  BY <1>4
<1>6. ASSUME NEW s \in S, s > m
      PROVE  FALSE
  <2>1. <<Above(s), Above(m)>> \in (SUBSET S) \X (SUBSET S)
    OBVIOUS
  <2>2. Above(s) \subseteq Above(m)
    <3> SUFFICES ASSUME NEW x \in S, x > s
                 PROVE  x > m
      OBVIOUS
    <3> x \in Nat /\ s \in Nat /\ m \in Nat
      OBVIOUS
    <3> QED
      BY <1>6
  <2>3. s \in Above(m) /\ s \notin Above(s)
    BY <1>6
  <2>4. Above(s) # Above(m)
    BY <2>3
  <2>5. <<Above(s), Above(m)>> \in StrictSubsetOrdering(S)
    BY <2>1, <2>2, <2>4 DEF StrictSubsetOrdering
  <2> QED
    BY <1>5, <2>5
<1> QED
  BY <1>6

\* So has a least: the greatest of the distances from a bound.
LEMMA LeastExists ==
  ASSUME NEW S \in SUBSET Nat, S # {}, IsFiniteSet(S)
  PROVE  \E m \in S : \A s \in S : m <= s
<1>1. PICK top \in S : \A s \in S : s <= top
  BY GreatestExists
<1> DEFINE T == {d \in 0..top : top - d \in S}
<1>2. T \in SUBSET Nat /\ IsFiniteSet(T) /\ T # {}
  <2>1. 0 \in T
    BY <1>1
  <2>2. IsFiniteSet(0..top) /\ T \in SUBSET (0..top)
    BY <1>1, FS_Interval
  <2>3. IsFiniteSet(T)
    BY <2>2, FS_Subset
  <2>4. T \in SUBSET Nat
    OBVIOUS
  <2> QED
    BY <2>1, <2>3, <2>4
<1>3. PICK d \in T : \A x \in T : x <= d
  BY <1>2, GreatestExists
<1>4. ASSUME NEW s \in S
      PROVE  top - d <= s
  <2>1. top - s \in T
    BY <1>1
  <2> QED
    BY <1>3, <2>1, <1>1
<1> QED
  BY <1>3, <1>4

\* What is left of a queue when its first element has been taken.
LEMMA TailOf ==
  ASSUME NEW S, NEW w \in Seq(S), w # <<>>
  PROVE  /\ Tail(w) \in Seq(S) /\ Len(Tail(w)) = Len(w) - 1 /\ Len(w) \in Nat \ {0}
         /\ Head(w) = w[1] /\ Head(w) \in S
         /\ \A i \in DOMAIN Tail(w) : i + 1 \in DOMAIN w /\ Tail(w)[i] = w[i + 1]
<1>1. Len(w) \in Nat \ {0} /\ DOMAIN w = 1..Len(w) /\ \A i \in 1..Len(w) : w[i] \in S
  BY EmptySeq, LenProperties
<1>2. Tail(w) \in Seq(S) /\ Len(Tail(w)) = Len(w) - 1 /\ Head(w) = w[1]
  BY <1>1, HeadTailProperties
<1>3. \A i \in 1..Len(Tail(w)) : Tail(w)[i] = w[i + 1]
  BY <1>1, <1>2, HeadTailProperties
<1>4. DOMAIN Tail(w) = 1..Len(Tail(w))
  BY <1>2, LenProperties
<1> QED
  BY <1>1, <1>2, <1>3, <1>4

\* What a sequence is when an element has been added to it.
LEMMA AppendedIs ==
  ASSUME NEW S, NEW w \in Seq(S), NEW e \in S
  PROVE  /\ Append(w, e) \in Seq(S) /\ Len(w) \in Nat
         /\ DOMAIN w = 1 .. Len(w) /\ DOMAIN Append(w, e) = 1 .. Len(w) + 1
         /\ \A i \in DOMAIN w : Append(w, e)[i] = w[i]
         /\ Append(w, e)[Len(w) + 1] = e
         /\ \A i \in DOMAIN Append(w, e) : (i \in DOMAIN w /\ Append(w, e)[i] = w[i])
                                          \/ (i = Len(w) + 1 /\ Append(w, e)[i] = e)
<1>1. /\ Append(w, e) \in Seq(S) /\ Len(Append(w, e)) = Len(w) + 1
      /\ \A i \in 1 .. Len(w) : Append(w, e)[i] = w[i]
      /\ Append(w, e)[Len(w) + 1] = e
  BY AppendProperties
<1>2. /\ Len(w) \in Nat /\ DOMAIN w = 1 .. Len(w)
      /\ DOMAIN Append(w, e) = 1 .. Len(w) + 1
  BY <1>1, LenProperties
<1> QED
  BY <1>1, <1>2

\* What a sequence is when an element has been put in front of it.
LEMMA PrependedIs ==
  ASSUME NEW S, NEW w \in Seq(S), NEW e \in S
  PROVE  /\ <<e>> \o w \in Seq(S) /\ Len(w) \in Nat /\ Len(<<e>> \o w) = Len(w) + 1
         /\ (<<e>> \o w)[1] = e
         /\ \A i \in 1..Len(w) : (<<e>> \o w)[i + 1] = w[i]
<1>1. <<e>> \in Seq(S) /\ Len(<<e>>) = 1 /\ <<e>>[1] = e
  OBVIOUS
<1>2. PICK one \in Seq(S) : one = <<e>> /\ Len(one) = 1 /\ one[1] = e
  BY <1>1
<1>3. one \o w \in Seq(S) /\ Len(w) \in Nat /\ Len(one \o w) = Len(w) + 1
  BY <1>2
<1>4. (one \o w)[1] = e
  BY <1>2
<1>5. \A i \in 1..Len(w) : (one \o w)[i + 1] = w[i]
  BY <1>2
<1> QED
  BY <1>2, <1>3, <1>4, <1>5

-----------------------------------------------------------------------------
(* Induction over the naturals, and over the subsets of a finite set: for  *)
(* a set of those that have the property.                                  *)

LEMMA Inductive ==
  ASSUME NEW n \in Nat, NEW S, 0 \in S,
         \A k \in 0..(n - 1) : k \in S => k + 1 \in S
  PROVE  \A k \in 0..n : k \in S
<1> SUFFICES ASSUME NEW bad \in 0..n, bad \notin S
             PROVE  FALSE
  OBVIOUS
<1> DEFINE Bad == {k \in 0..n : k \notin S}
<1>1. Bad \in SUBSET Nat /\ Bad # {} /\ IsFiniteSet(Bad)
  <2>1. IsFiniteSet(0..n) /\ Bad \in SUBSET (0..n)
    BY FS_Interval
  <2>2. IsFiniteSet(Bad)
    BY <2>1, FS_Subset
  <2> QED
    BY <2>1, <2>2
<1>2. PICK least \in Bad : \A k \in Bad : least <= k
  BY <1>1, LeastExists
<1>3. least # 0
  BY <1>2
<1>4. least - 1 \in 0..(n - 1) /\ least - 1 \notin Bad /\ (least - 1) + 1 = least
  BY <1>2, <1>3
<1>5. least - 1 \in S
  BY <1>4
<1> QED
  BY <1>2, <1>4, <1>5

LEMMA SubsetInduction ==
  ASSUME NEW S, IsFiniteSet(S), NEW Good, {} \in Good,
         \A s \in SUBSET S : s # {} /\ (\A x \in s : s \ {x} \in Good) => s \in Good
  PROVE  \A s \in SUBSET S : s \in Good
<1> DEFINE N == {n \in Nat : \A s \in SUBSET S : Cardinality(s) = n => s \in Good}
<1>1. Cardinality(S) \in Nat
  BY FS_CardinalityType
<1>2. \A s \in SUBSET S : /\ IsFiniteSet(s) /\ Cardinality(s) \in 0..Cardinality(S)
                          /\ Cardinality(s) = 0 <=> s = {}
  <2> TAKE s \in SUBSET S
  <2>1. IsFiniteSet(s) /\ Cardinality(s) <= Cardinality(S)
    BY FS_Subset
  <2>2. Cardinality(s) \in Nat
    BY <2>1, FS_CardinalityType
  <2> QED
    BY <1>1, <2>1, <2>2, FS_EmptySet
<1>3. 0 \in N
  BY <1>2
<1>4. ASSUME NEW k \in 0..(Cardinality(S) - 1), k \in N
      PROVE  k + 1 \in N
  <2>1. k \in Nat /\ k + 1 \in Nat
    BY <1>1
  <2> SUFFICES ASSUME NEW s \in SUBSET S, Cardinality(s) = k + 1
               PROVE  s \in Good
    BY <2>1
  <2>2. s # {}
    BY <1>2, <2>1
  <2>3. ASSUME NEW x \in s
        PROVE  s \ {x} \in Good
    <3>1. Cardinality(s \ {x}) = Cardinality(s) - 1
      BY <1>2, FS_RemoveElement
    <3>2. s \ {x} \in SUBSET S /\ Cardinality(s \ {x}) = k
      BY <2>1, <3>1
    <3> QED
      BY <1>4, <3>2
  <2> QED
    BY <2>2, <2>3
<1>5. \A k \in 0..Cardinality(S) : k \in N
  <2> HIDE DEF N
  <2> QED
    BY <1>1, <1>3, <1>4, Inductive
<1> QED
  BY <1>2, <1>5

-----------------------------------------------------------------------------
(* Sums over finite domains.  SumFunction takes its arguments in an order   *)
(* that is chosen; the sum does not depend on it.                          *)

SumStep(f, s, g) ==
  IF s = {} THEN 0
  ELSE LET x == CHOOSE y \in s : TRUE
       IN  f[x] + g[s \ {x}]

Sums(f, S, g) == g = [s \in SUBSET S |-> SumStep(f, s, g)]

LEMMA SumsExist ==
  ASSUME NEW S, IsFiniteSet(S), NEW f
  PROVE  \E g : Sums(f, S, g)
<1> DEFINE Level(n) == {s \in SUBSET S : Cardinality(s) <= n}
           N == {n \in Nat : \E g : g = [s \in Level(n) |-> SumStep(f, s, g)]}
<1>1. Cardinality(S) \in Nat
  BY FS_CardinalityType
<1>2. \A s \in SUBSET S : /\ IsFiniteSet(s) /\ Cardinality(s) \in 0..Cardinality(S)
                          /\ Cardinality(s) = 0 <=> s = {}
  <2> TAKE s \in SUBSET S
  <2>1. IsFiniteSet(s) /\ Cardinality(s) <= Cardinality(S)
    BY FS_Subset
  <2>2. Cardinality(s) \in Nat
    BY <2>1, FS_CardinalityType
  <2> QED
    BY <1>1, <2>1, <2>2, FS_EmptySet
<1>3. \A s \in SUBSET S : \A x \in s : s \ {x} \in SUBSET S
                                       /\ Cardinality(s \ {x}) = Cardinality(s) - 1
  <2> TAKE s \in SUBSET S
  <2> TAKE x \in s
  <2> QED
    BY <1>2, FS_RemoveElement
<1>4. 0 \in N
  <2> DEFINE g == [s \in Level(0) |-> 0]
  <2>1. \A s \in Level(0) : s = {}
    BY <1>2
  <2>2. [s \in Level(0) |-> SumStep(f, s, g)] = g
    BY <2>1 DEF SumStep
  <2> QED
    BY <2>2
<1>5. ASSUME NEW k \in 0..(Cardinality(S) - 1), k \in N
      PROVE  k + 1 \in N
  <2>1. PICK g : g = [s \in Level(k) |-> SumStep(f, s, g)]
    BY <1>5
  <2> DEFINE h == [s \in Level(k + 1) |-> SumStep(f, s, g)]
  <2>2. k \in Nat /\ k + 1 \in Nat
    BY <1>1
  <2>3. \A s \in Level(k + 1) : \A x \in s : s \ {x} \in Level(k) /\ s \ {x} \in Level(k + 1)
    <3> SUFFICES ASSUME NEW s \in SUBSET S, Cardinality(s) <= k + 1, NEW x \in s
                 PROVE  s \ {x} \in Level(k) /\ s \ {x} \in Level(k + 1)
      OBVIOUS
    <3>1. Cardinality(s) \in Nat
      BY <1>1, <1>2
    <3>2. s \ {x} \in SUBSET S /\ Cardinality(s \ {x}) = Cardinality(s) - 1
      BY <1>3
    <3> QED
      BY <2>2, <3>1, <3>2
  <2>4. \A s \in Level(k) : h[s] = g[s]
    <3>1. \A s \in Level(k) : s \in Level(k + 1)
      BY <1>1, <1>2, <2>2
    <3>2. \A s \in Level(k) : g[s] = SumStep(f, s, g)
      <4> HIDE DEF Level
      <4> QED
        BY <2>1
    <3> HIDE DEF Level
    <3> QED
      BY <3>1, <3>2
  <2>5. \A s \in Level(k + 1) : SumStep(f, s, h) = SumStep(f, s, g)
    <3> SUFFICES ASSUME NEW s \in Level(k + 1), s # {}
                 PROVE  SumStep(f, s, h) = SumStep(f, s, g)
      BY DEF SumStep
    <3> DEFINE x == CHOOSE y \in s : TRUE
    <3>1. x \in s
      OBVIOUS
    <3>2. h[s \ {x}] = g[s \ {x}]
      <4> HIDE DEF x, h, Level
      <4> QED
        BY <2>3, <2>4, <3>1
    <3> HIDE DEF h
    <3> QED
      BY <3>2 DEF SumStep
  <2>6. h = [s \in Level(k + 1) |-> SumStep(f, s, h)]
    <3>1. h = [s \in Level(k + 1) |-> SumStep(f, s, g)]
      OBVIOUS
    <3> HIDE DEF h, Level
    <3> QED
      BY <2>5, <3>1
  <2> QED
    BY <2>2, <2>6
<1>6. Cardinality(S) \in N
  <2>1. \A k \in 0..Cardinality(S) : k \in N
    <3> HIDE DEF N
    <3> QED
      BY <1>1, <1>4, <1>5, Inductive
  <2>2. Cardinality(S) \in 0..Cardinality(S)
    BY <1>1
  <2> HIDE DEF N
  <2> QED
    BY <2>1, <2>2
<1>7. Level(Cardinality(S)) = SUBSET S
  BY <1>1, <1>2
<1>8. \E g : g = [s \in Level(Cardinality(S)) |-> SumStep(f, s, g)]
  BY <1>6
<1> QED
  BY <1>7, <1>8 DEF Sums

\* It does not matter which element is taken first.
LEMMA SumsTake ==
  ASSUME NEW S, IsFiniteSet(S), NEW f, \A x \in S : f[x] \in Nat, NEW g, Sums(f, S, g)
  PROVE  /\ g[{}] = 0
         /\ \A s \in SUBSET S : g[s] \in Nat /\ \A x \in s : g[s] = f[x] + g[s \ {x}]
<1> DEFINE Typed == {s \in SUBSET S : g[s] \in Nat}
           Good == {s \in SUBSET S : \A x \in s : g[s] = f[x] + g[s \ {x}]}
<1>1. \A s \in SUBSET S : g[s] = SumStep(f, s, g)
  BY DEF Sums
<1>2. g[{}] = 0
  BY <1>1 DEF SumStep
<1>3. ASSUME NEW s \in SUBSET S, s # {}
      PROVE  \E y \in s : f[y] \in Nat /\ g[s] = f[y] + g[s \ {y}]
  <2> DEFINE y == CHOOSE z \in s : TRUE
  <2>1. y \in s
    BY <1>3
  <2>2. g[s] = f[y] + g[s \ {y}]
    BY <1>1, <1>3 DEF SumStep
  <2> HIDE DEF y
  <2> QED
    BY <2>1, <2>2
<1>4. \A s \in SUBSET S : s \in Typed
  <2>1. {} \in Typed
    BY <1>2
  <2>2. ASSUME NEW s \in SUBSET S, s # {}, \A x \in s : s \ {x} \in Typed
        PROVE  s \in Typed
    <3>1. PICK y \in s : f[y] \in Nat /\ g[s] = f[y] + g[s \ {y}]
      BY <1>3, <2>2
    <3>2. g[s \ {y}] \in Nat
      BY <2>2
    <3> QED
      BY <3>1, <3>2
  <2> HIDE DEF Typed
  <2> QED
    BY <2>1, <2>2, SubsetInduction
<1>5. \A s \in SUBSET S : s \in Good
  <2>1. {} \in Good
    OBVIOUS
  <2>2. ASSUME NEW s \in SUBSET S, s # {}, \A x \in s : s \ {x} \in Good
        PROVE  s \in Good
    <3>1. PICK y \in s : f[y] \in Nat /\ g[s] = f[y] + g[s \ {y}]
      BY <1>3, <2>2
    <3> SUFFICES ASSUME NEW x \in s, x # y
                 PROVE  g[s] = f[x] + g[s \ {x}]
      BY <3>1
    <3>2. y \in s \ {x} /\ x \in s \ {y}
      BY <3>1
    <3>3. g[s \ {y}] = f[x] + g[(s \ {y}) \ {x}] /\ g[s \ {x}] = f[y] + g[(s \ {x}) \ {y}]
      BY <2>2, <3>2
    <3>4. (s \ {y}) \ {x} = (s \ {x}) \ {y}
      OBVIOUS
    <3>5. (s \ {x}) \ {y} \in SUBSET S
      OBVIOUS
    <3>6. g[(s \ {x}) \ {y}] \in Nat /\ f[x] \in Nat
      BY <1>4, <3>5
    <3> DEFINE c == g[(s \ {x}) \ {y}]
    <3>7. g[s \ {y}] = f[x] + c /\ g[s \ {x}] = f[y] + c
      BY <3>3, <3>4
    <3>8. c \in Nat
      BY <3>6
    <3> HIDE DEF c
    <3> QED
      BY <3>1, <3>6, <3>7, <3>8
  <2> HIDE DEF Good
  <2> QED
    BY <2>1, <2>2, SubsetInduction
<1> QED
  BY <1>2, <1>4, <1>5

\* The sum depends on the values alone.
LEMMA SumsAgree ==
  ASSUME NEW S, IsFiniteSet(S), NEW T, IsFiniteSet(T), NEW f, NEW h, NEW g, NEW k,
         Sums(f, S, g), Sums(h, T, k),
         NEW U \in SUBSET S, U \in SUBSET T, \A x \in U : f[x] = h[x] /\ f[x] \in Nat
  PROVE  g[U] = k[U]
<1> DEFINE Good == {s \in SUBSET U : g[s] = k[s]}
<1>1. IsFiniteSet(U)
  BY FS_Subset
<1>2. \A s \in SUBSET U : g[s] = SumStep(f, s, g) /\ k[s] = SumStep(h, s, k)
  BY DEF Sums
<1>3. {} \in Good
  BY <1>2 DEF SumStep
<1>4. ASSUME NEW s \in SUBSET U, s # {}, \A x \in s : s \ {x} \in Good
      PROVE  s \in Good
  <2> DEFINE y == CHOOSE z \in s : TRUE
  <2>1. y \in s
    BY <1>4
  <2>2. g[s] = f[y] + g[s \ {y}] /\ k[s] = h[y] + k[s \ {y}]
    BY <1>2, <1>4 DEF SumStep
  <2> HIDE DEF y
  <2>3. g[s \ {y}] = k[s \ {y}] /\ f[y] = h[y]
    BY <1>4, <2>1
  <2> QED
    BY <2>2, <2>3
<1>5. \A s \in SUBSET U : s \in Good
  <2> HIDE DEF Good
  <2> QED
    BY <1>1, <1>3, <1>4, SubsetInduction
<1> QED
  BY <1>5

LEMMA SumsLess ==
  ASSUME NEW S, IsFiniteSet(S), NEW f, \A x \in S : f[x] \in Nat, NEW g, Sums(f, S, g),
         NEW x \in S
  PROVE  g[S] = f[x] + g[S \ {x}]
<1>1. \A s \in SUBSET S : g[s] \in Nat /\ \A y \in s : g[s] = f[y] + g[s \ {y}]
  BY SumsTake
<1>2. S \in SUBSET S
  OBVIOUS
<1> QED
  BY <1>1, <1>2

SumIs(f, n) == \E g : Sums(f, DOMAIN f, g) /\ n = g[DOMAIN f]

\* The sum of the empty function; taking one argument away.
LEMMA SumFacts ==
  ASSUME NEW f, IsFiniteSet(DOMAIN f), \A x \in DOMAIN f : f[x] \in Nat
  PROVE  /\ \E n : SumIs(f, n)
         /\ \A n : SumIs(f, n) => n \in Nat
         /\ \A m, n : SumIs(f, m) /\ SumIs(f, n) => m = n
         /\ DOMAIN f = {} => \A n : SumIs(f, n) => n = 0
<1>1. \E n : SumIs(f, n)
  BY SumsExist DEF SumIs
<1>2. \A n : SumIs(f, n) => n \in Nat
  BY SumsTake DEF SumIs
<1>3. \A m, n : SumIs(f, m) /\ SumIs(f, n) => m = n
  BY SumsAgree DEF SumIs
<1>4. DOMAIN f = {} => \A n : SumIs(f, n) => n = 0
  BY SumsTake DEF SumIs
<1> QED
  BY <1>1, <1>2, <1>3, <1>4

LEMMA SumWithout ==
  ASSUME NEW f, IsFiniteSet(DOMAIN f), \A x \in DOMAIN f : f[x] \in Nat,
         NEW x \in DOMAIN f, NEW h, DOMAIN h = DOMAIN f \ {x},
         \A y \in DOMAIN h : h[y] = f[y], NEW m, SumIs(f, m), NEW n, SumIs(h, n)
  PROVE  m = f[x] + n
<1>1. PICK g : Sums(f, DOMAIN f, g) /\ m = g[DOMAIN f]
  BY DEF SumIs
<1>2. PICK k : Sums(h, DOMAIN h, k) /\ n = k[DOMAIN h]
  BY DEF SumIs
<1>3. g[DOMAIN f] = f[x] + g[DOMAIN f \ {x}]
  <2> DEFINE D == DOMAIN f
  <2>1. IsFiniteSet(D) /\ Sums(f, D, g) /\ x \in D
    BY <1>1
  <2>2. \A y \in D : f[y] \in Nat
    OBVIOUS
  <2> HIDE DEF D
  <2>3. g[D] = f[x] + g[D \ {x}]
    BY ONLY <2>1, <2>2, SumsLess
  <2> QED
    BY <2>3 DEF D
<1>4. IsFiniteSet(DOMAIN h)
  BY FS_Subset
<1>5. DOMAIN h \in SUBSET DOMAIN f /\ DOMAIN h \in SUBSET DOMAIN h
  OBVIOUS
<1>6. \A y \in DOMAIN h : f[y] = h[y] /\ f[y] \in Nat
  OBVIOUS
<1>7. g[DOMAIN h] = k[DOMAIN h]
  BY <1>1, <1>2, <1>4, <1>5, <1>6, SumsAgree
<1> QED
  BY <1>1, <1>2, <1>3, <1>7

\* One value changed, one argument added.
LEMMA SumChanged ==
  ASSUME NEW f, IsFiniteSet(DOMAIN f), \A x \in DOMAIN f : f[x] \in Nat,
         NEW x \in DOMAIN f, NEW h, DOMAIN h = DOMAIN f, \A y \in DOMAIN h : h[y] \in Nat,
         \A y \in DOMAIN f \ {x} : h[y] = f[y], NEW m, SumIs(f, m), NEW n, SumIs(h, n)
  PROVE  m \in Nat /\ n \in Nat /\ n - h[x] = m - f[x]
<1> DEFINE r == [y \in DOMAIN f \ {x} |-> f[y]]
<1>1. IsFiniteSet(DOMAIN r) /\ DOMAIN r = DOMAIN f \ {x} /\ \A y \in DOMAIN r : r[y] = f[y] /\ r[y] = h[y] /\ r[y] \in Nat
  BY FS_Subset
<1> HIDE DEF r
<1>2. PICK k : SumIs(r, k)
  BY <1>1, SumFacts
<1>3. k \in Nat /\ m \in Nat /\ n \in Nat
  BY <1>1, <1>2, SumFacts
<1>4. m = f[x] + k
  BY <1>1, <1>2, SumWithout
<1>5. n = h[x] + k
  <2>1. /\ IsFiniteSet(DOMAIN h) /\ (\A y \in DOMAIN h : h[y] \in Nat) /\ x \in DOMAIN h
        /\ DOMAIN r = DOMAIN h \ {x} /\ (\A y \in DOMAIN r : r[y] = h[y]) /\ SumIs(h, n)
        /\ SumIs(r, k)
    BY <1>1, <1>2
  <2> QED
    BY ONLY <2>1, SumWithout
<1>6. f[x] \in Nat /\ h[x] \in Nat
  OBVIOUS
<1> QED
  BY <1>3, <1>4, <1>5, <1>6

\* A sequence as far as k, and what is left of it without its last element.
Leading(f, k) == [i \in 1..k |-> f[i]]

\* The sequence of the first k numbers, cut into the first k - 1 and the last.
Cut(f, k) ==
  /\ IsFiniteSet(DOMAIN Leading(f, k))
  /\ \A x \in DOMAIN Leading(f, k) : Leading(f, k)[x] \in Nat
  /\ k \in DOMAIN Leading(f, k) /\ Leading(f, k)[k] = f[k] /\ f[k] \in Nat
  /\ DOMAIN Leading(f, k - 1) = DOMAIN Leading(f, k) \ {k}
  /\ \A x \in DOMAIN Leading(f, k - 1) : Leading(f, k - 1)[x] = Leading(f, k)[x]

LEMMA LeadingIs ==
  ASSUME NEW n \in Nat, NEW f \in [1..n -> Nat], NEW k \in 1..n
  PROVE  Cut(f, k)
<1> DEFINE F == Leading(f, k)
           G == Leading(f, k - 1)
<1>1. k \in Nat /\ k - 1 \in Nat /\ k \in 1..k /\ 1..(k - 1) = (1..k) \ {k}
  OBVIOUS
<1>2. IsFiniteSet(1..k)
  BY <1>1, FS_Interval
<1>3. DOMAIN F = 1..k /\ \A x \in 1..k : F[x] = f[x] /\ f[x] \in Nat
  BY DEF Leading
<1>4. DOMAIN G = 1..(k - 1) /\ \A x \in 1..(k - 1) : G[x] = f[x]
  BY DEF Leading
<1> HIDE DEF F, G
<1>5. IsFiniteSet(DOMAIN F) /\ \A x \in DOMAIN F : F[x] \in Nat
  BY <1>2, <1>3
<1>6. k \in DOMAIN F /\ F[k] = f[k] /\ f[k] \in Nat
  BY <1>1, <1>3
<1>7. DOMAIN G = DOMAIN F \ {k}
  BY <1>1, <1>3, <1>4
<1>8. \A x \in DOMAIN G : G[x] = F[x]
  BY <1>3, <1>4, <1>7
<1> QED
  BY <1>5, <1>6, <1>7, <1>8 DEF Cut, F, G

\* The sum of a sequence is its first element and the sum of the others.
LEMMA SumFirst ==
  ASSUME NEW n \in Nat, NEW f \in [1..(n + 1) -> Nat], NEW h \in [1..n -> Nat],
         \A i \in 1..n : h[i] = f[i + 1], NEW a, SumIs(f, a), NEW b, SumIs(h, b)
  PROVE  a = f[1] + b
<1> DEFINE Good == {k \in 0..n : \A c, d : SumIs(Leading(f, k + 1), c) /\ SumIs(Leading(h, k), d)
                                           => c = f[1] + d}
<1>0. f[1] \in Nat /\ n + 1 \in Nat
  OBVIOUS
<1>1. 0 \in Good
  <2> SUFFICES ASSUME NEW c, NEW d, SumIs(Leading(f, 1), c), SumIs(Leading(h, 0), d)
               PROVE  c = f[1] + d
    OBVIOUS
  <2>1. PICK one : one = 1 /\ one \in 1..(n + 1) /\ one - 1 = 0
    OBVIOUS
  <2> HIDE DEF Good
  <2>2. Cut(f, one)
    BY <1>0, <2>1, LeadingIs
  <2>3. PICK f1 : f1 = Leading(f, one) /\ SumIs(f1, c)
    BY <2>1
  <2>4. PICK h0 : h0 = Leading(h, 0) /\ DOMAIN h0 = {} /\ DOMAIN Leading(f, 0) = {} /\ SumIs(h0, d)
    BY DEF Leading
  <2>5. /\ IsFiniteSet(DOMAIN f1) /\ (\A x \in DOMAIN f1 : f1[x] \in Nat) /\ one \in DOMAIN f1
        /\ DOMAIN h0 = DOMAIN f1 \ {one} /\ (\A x \in DOMAIN h0 : h0[x] = f1[x])
        /\ SumIs(f1, c) /\ SumIs(h0, d)
    BY <2>1, <2>2, <2>3, <2>4 DEF Cut
  <2>6. c = f1[one] + d
    BY ONLY <2>5, SumWithout
  <2> QED
    BY <2>1, <2>2, <2>3, <2>6 DEF Cut
<1>2. ASSUME NEW k \in 0..(n - 1), k \in Good
      PROVE  k + 1 \in Good
  <2>1. PICK l \in Nat, m \in Nat : /\ l = k + 1 /\ m = l + 1 /\ l \in 0..n
                                    /\ l \in 1..n /\ m \in 1..(n + 1)
                                    /\ l - 1 = k /\ m - 1 = l
    OBVIOUS
  <2> SUFFICES ASSUME NEW c, NEW d, SumIs(Leading(f, m), c), SumIs(Leading(h, l), d)
               PROVE  c = f[1] + d
    BY <2>1
  <2> HIDE DEF Good
  <2>20. Cut(f, m) /\ Cut(h, l)
    BY <1>0, <2>1, LeadingIs
  <2>2. PICK f1, f0 :
          /\ f1 = Leading(f, m) /\ f0 = Leading(f, l)
          /\ IsFiniteSet(DOMAIN f1) /\ (\A x \in DOMAIN f1 : f1[x] \in Nat) /\ m \in DOMAIN f1
          /\ DOMAIN f0 = DOMAIN f1 \ {m} /\ (\A x \in DOMAIN f0 : f0[x] = f1[x])
          /\ f1[m] = f[m]
    BY <2>1, <2>20 DEF Cut
  <2>3. PICK h1, h0 :
          /\ h1 = Leading(h, l) /\ h0 = Leading(h, k)
          /\ IsFiniteSet(DOMAIN h1) /\ (\A x \in DOMAIN h1 : h1[x] \in Nat) /\ l \in DOMAIN h1
          /\ DOMAIN h0 = DOMAIN h1 \ {l} /\ (\A x \in DOMAIN h0 : h0[x] = h1[x])
          /\ h1[l] = h[l]
    BY <2>1, <2>20 DEF Cut
  <2>4. f1[m] = h1[l]
    BY <2>1, <2>2, <2>3
  <2>5. /\ IsFiniteSet(DOMAIN f0) /\ (\A x \in DOMAIN f0 : f0[x] \in Nat)
        /\ IsFiniteSet(DOMAIN h0) /\ (\A x \in DOMAIN h0 : h0[x] \in Nat)
    <3>1. DOMAIN f0 \in SUBSET DOMAIN f1 /\ DOMAIN h0 \in SUBSET DOMAIN h1
      BY <2>2, <2>3
    <3>2. IsFiniteSet(DOMAIN f0) /\ IsFiniteSet(DOMAIN h0)
      BY <2>2, <2>3, <3>1, FS_Subset
    <3> QED
      BY <2>2, <2>3, <3>2
  <2>6. PICK c0 : SumIs(f0, c0)
    BY <2>5, SumFacts
  <2>7. PICK d0 : SumIs(h0, d0) /\ d0 \in Nat
    BY <2>5, SumFacts
  <2>8. c0 = f[1] + d0
    BY <1>2, <2>1, <2>2, <2>3, <2>6, <2>7 DEF Good
  <2>9. c = f1[m] + c0
    <3>1. /\ IsFiniteSet(DOMAIN f1) /\ (\A x \in DOMAIN f1 : f1[x] \in Nat) /\ m \in DOMAIN f1
          /\ DOMAIN f0 = DOMAIN f1 \ {m} /\ (\A x \in DOMAIN f0 : f0[x] = f1[x])
          /\ SumIs(f1, c) /\ SumIs(f0, c0)
      BY <2>2, <2>6
    <3> QED
      BY ONLY <3>1, SumWithout
  <2>10. d = h1[l] + d0
    <3>1. /\ IsFiniteSet(DOMAIN h1) /\ (\A x \in DOMAIN h1 : h1[x] \in Nat) /\ l \in DOMAIN h1
          /\ DOMAIN h0 = DOMAIN h1 \ {l} /\ (\A x \in DOMAIN h0 : h0[x] = h1[x])
          /\ SumIs(h1, d) /\ SumIs(h0, d0)
      BY <2>3, <2>7
    <3> QED
      BY ONLY <3>1, SumWithout
  <2>11. h1[l] \in Nat
    BY <2>3
  <2> QED
    BY <1>0, <2>4, <2>7, <2>8, <2>9, <2>10, <2>11
<1>3. n \in Good
  <2>1. \A k \in 0..n : k \in Good
    <3> HIDE DEF Good
    <3> QED
      BY <1>1, <1>2, Inductive
  <2>2. n \in 0..n
    OBVIOUS
  <2> HIDE DEF Good
  <2> QED
    BY <2>1, <2>2
<1>4. Leading(f, n + 1) = f /\ Leading(h, n) = h
  BY DEF Leading
<1> QED
  BY <1>3, <1>4

\* The sum of a sequence when an element has joined or left it.
LEMMA SumOfSequence ==
  ASSUME NEW w \in Seq(Nat), NEW a, SumIs(w, a)
  PROVE  a \in Nat /\ IsFiniteSet(DOMAIN w) /\ \A x \in DOMAIN w : w[x] \in Nat
<1>1. Len(w) \in Nat /\ DOMAIN w = 1..Len(w) /\ \A x \in 1..Len(w) : w[x] \in Nat
  OBVIOUS
<1>2. IsFiniteSet(DOMAIN w)
  BY <1>1, FS_Interval
<1>3. \A x \in DOMAIN w : w[x] \in Nat
  BY <1>1
<1> QED
  BY <1>2, <1>3, SumFacts

LEMMA SumAppended ==
  ASSUME NEW w \in Seq(Nat), NEW v \in Seq(Nat), Len(v) = Len(w) + 1,
         \A i \in 1..Len(w) : w[i] = v[i], NEW a, SumIs(w, a)
  PROVE  SumIs(v, a + v[Len(v)])
<1>1. PICK last : last = Len(v)
  OBVIOUS
<1>2. /\ last \in DOMAIN v /\ DOMAIN w = DOMAIN v \ {last} /\ v[last] \in Nat
      /\ \A x \in DOMAIN w : w[x] = v[x]
  <2>1. DOMAIN w = 1..Len(w) /\ DOMAIN v = 1..Len(v) /\ Len(w) \in Nat
    OBVIOUS
  <2>2. 1..Len(w) = (1..Len(v)) \ {Len(v)} /\ Len(v) \in 1..Len(v)
    BY <2>1
  <2> QED
    BY <1>1, <2>1, <2>2
<1>3. IsFiniteSet(DOMAIN v) /\ \A x \in DOMAIN v : v[x] \in Nat
  <2>1. Len(v) \in Nat /\ DOMAIN v = 1..Len(v) /\ \A x \in 1..Len(v) : v[x] \in Nat
    OBVIOUS
  <2>2. IsFiniteSet(DOMAIN v)
    BY <2>1, FS_Interval
  <2> QED
    BY <2>1, <2>2
<1>4. PICK b : SumIs(v, b)
  BY <1>3, SumFacts
<1>5. SumIs(w, a)
  OBVIOUS
<1>6. b = v[last] + a
  BY ONLY <1>2, <1>3, <1>4, <1>5, SumWithout
<1>7. a \in Nat
  BY SumOfSequence
<1>8. b = a + v[Len(v)]
  BY <1>1, <1>2, <1>6, <1>7
<1> QED
  BY <1>4, <1>8

LEMMA SumOfShifted ==
  ASSUME NEW v \in Seq(Nat), NEW w \in Seq(Nat), Len(v) = Len(w) + 1,
         \A i \in 1..Len(w) : w[i] = v[i + 1], NEW a, SumIs(w, a), NEW b, SumIs(v, b)
  PROVE  a \in Nat /\ b \in Nat /\ v[1] \in Nat /\ b = v[1] + a
<1>1. PICK n \in Nat : n = Len(w)
  OBVIOUS
<1>2. v \in [1..(n + 1) -> Nat] /\ w \in [1..n -> Nat] /\ v[1] \in Nat
  BY <1>1
<1>3. \A i \in 1..n : w[i] = v[i + 1]
  BY <1>1
<1>4. SumIs(w, a) /\ SumIs(v, b)
  OBVIOUS
<1>5. b = v[1] + a
  BY <1>2, <1>3, <1>4, SumFirst
<1> QED
  BY <1>2, <1>5, SumOfSequence

LEMMA SequenceHasSum ==
  ASSUME NEW v \in Seq(Nat)
  PROVE  \E b : SumIs(v, b)
<1>1. Len(v) \in Nat /\ DOMAIN v = 1..Len(v) /\ \A x \in 1..Len(v) : v[x] \in Nat
  OBVIOUS
<1>2. IsFiniteSet(DOMAIN v)
  BY <1>1, FS_Interval
<1>3. \A x \in DOMAIN v : v[x] \in Nat
  BY <1>1
<1> QED
  BY <1>2, <1>3, SumFacts

LEMMA SumPrepended ==
  ASSUME NEW v \in Seq(Nat), NEW w \in Seq(Nat), Len(v) = Len(w) + 1,
         \A i \in 1..Len(w) : w[i] = v[i + 1], NEW a, SumIs(w, a)
  PROVE  SumIs(v, a + v[1])
<1>1. PICK b : SumIs(v, b)
  BY SequenceHasSum
<1>2. a \in Nat /\ b \in Nat /\ v[1] \in Nat /\ b = v[1] + a
  BY <1>1, SumOfShifted
<1> QED
  BY <1>1, <1>2

LEMMA SumTail ==
  ASSUME NEW v \in Seq(Nat), NEW w \in Seq(Nat), Len(v) = Len(w) + 1,
         \A i \in 1..Len(w) : w[i] = v[i + 1], NEW b, SumIs(v, b)
  PROVE  SumIs(w, b - v[1]) /\ v[1] <= b
<1>1. PICK a : SumIs(w, a)
  BY SequenceHasSum
<1>2. a \in Nat /\ b \in Nat /\ v[1] \in Nat /\ b = v[1] + a
  BY <1>1, SumOfShifted
<1>3. a = b - v[1] /\ v[1] <= b
  BY <1>2
<1> QED
  BY <1>1, <1>3

LEMMA SumFunctionIs ==
  ASSUME NEW f, IsFiniteSet(DOMAIN f)
  PROVE  SumIs(f, SumFunction(f))
<1> DEFINE D == DOMAIN f
           F(g) == g = [s \in SUBSET D |-> IF s = {} THEN 0
                          ELSE f[CHOOSE x \in s : TRUE] + g[s \ {CHOOSE x \in s : TRUE}]]
<1>1. SumFunction(f) = (CHOOSE g : F(g))[D]
  BY DEF SumFunction, SumFunctionOnSet, FoldFunctionOnSet, MapThenFoldSet
<1>2. \A g : F(g) <=> Sums(f, D, g)
  BY DEF Sums, SumStep
<1>3. \E g : F(g)
  <2>1. IsFiniteSet(D)
    OBVIOUS
  <2> HIDE DEF D, F
  <2>2. \E g : Sums(f, D, g)
    BY ONLY <2>1, SumsExist
  <2> QED
    BY <1>2, <2>2
<1>4. F(CHOOSE g : F(g))
  BY <1>3
<1> QED
  BY <1>1, <1>2, <1>4 DEF SumIs

-----------------------------------------------------------------------------
(* Strict total orders of finite sets, as sets of pairs. *)

Orders(R, S) ==
  /\ \A x \in S : <<x, x>> \notin R
  /\ \A x, y \in S : x # y => <<x, y>> \in R \/ <<y, x>> \in R
  /\ \A x, y, z \in S : <<x, y>> \in R /\ <<y, z>> \in R => <<x, z>> \in R

Rank(R, S, x) == Cardinality({y \in S : <<y, x>> \in R})

\* The ranks of the elements are 0, 1, ... up to the number of elements.
LEMMA Ranks ==
  ASSUME NEW S, IsFiniteSet(S), NEW R, Orders(R, S)
  PROVE  /\ Cardinality(S) \in Nat
         /\ \A x \in S : Rank(R, S, x) \in 0 .. Cardinality(S) - 1
         /\ \A x, y \in S : Rank(R, S, x) < Rank(R, S, y) <=> <<x, y>> \in R
         /\ \A n \in 1 .. Cardinality(S) : \E x \in S : Rank(R, S, x) = n - 1
<1> DEFINE Lower(x) == {y \in S : <<y, x>> \in R}
<1>1. Cardinality(S) \in Nat
  BY FS_CardinalityType
<1>2. \A x \in S : IsFiniteSet(Lower(x)) /\ Cardinality(Lower(x)) \in Nat
  <2> TAKE x \in S
  <2>1. Lower(x) \in SUBSET S
    OBVIOUS
  <2>2. IsFiniteSet(Lower(x))
    BY <2>1, FS_Subset
  <2> QED
    BY <2>2, FS_CardinalityType
<1>3. ASSUME NEW x \in S
      PROVE  Cardinality(Lower(x)) \in 0 .. Cardinality(S) - 1
  <2>1. Lower(x) \in SUBSET S /\ x \notin Lower(x)
    BY DEF Orders
  <2>2. Cardinality(Lower(x)) <= Cardinality(S) /\ Cardinality(Lower(x)) # Cardinality(S)
    BY <2>1, FS_Subset
  <2> HIDE DEF Lower
  <2> QED
    BY <2>2, <1>1, <1>2
<1>4. ASSUME NEW x \in S, NEW y \in S, <<x, y>> \in R
      PROVE  Cardinality(Lower(x)) < Cardinality(Lower(y))
  <2>1. Lower(x) \in SUBSET Lower(y)
    BY <1>4 DEF Orders
  <2>2. x \in Lower(y) /\ x \notin Lower(x)
    BY <1>4 DEF Orders
  <2>3. Cardinality(Lower(x)) <= Cardinality(Lower(y))
        /\ Cardinality(Lower(x)) # Cardinality(Lower(y))
    <3>1. Lower(x) # Lower(y)
      BY <2>2
    <3> HIDE DEF Lower
    <3> QED
      BY <2>1, <3>1, <1>2, FS_Subset
  <2> HIDE DEF Lower
  <2> QED
    BY <2>3, <1>2
<1>5. \A x, y \in S : Cardinality(Lower(x)) < Cardinality(Lower(y)) <=> <<x, y>> \in R
  <2> SUFFICES ASSUME NEW x \in S, NEW y \in S,
                      Cardinality(Lower(x)) < Cardinality(Lower(y)), <<x, y>> \notin R
               PROVE  FALSE
    BY <1>4
  <2>1. x = y \/ <<y, x>> \in R
    BY DEF Orders
  <2>2. CASE x = y
    BY <2>2, <1>2
  <2>3. CASE <<y, x>> \in R
    <3>1. Cardinality(Lower(y)) < Cardinality(Lower(x))
      BY <2>3, <1>4
    <3> HIDE DEF Lower
    <3> QED
      BY <3>1, <1>2
  <2> QED
    BY <2>1, <2>2, <2>3
<1>6. ASSUME NEW n \in 1 .. Cardinality(S)
      PROVE  \E x \in S : Cardinality(Lower(x)) = n - 1
  <2> DEFINE T == 0 .. Cardinality(S) - 1
             f == [x \in S |-> Cardinality(Lower(x))]
  <2>1. f \in [S -> T]
    BY <1>3
  <2>2. ASSUME NEW x \in S, NEW y \in S, x # y
        PROVE  f[x] # f[y]
    <3>1. <<x, y>> \in R \/ <<y, x>> \in R
      BY <2>2 DEF Orders
    <3>2. Cardinality(Lower(x)) < Cardinality(Lower(y))
          \/ Cardinality(Lower(y)) < Cardinality(Lower(x))
      BY <3>1, <1>4
    <3>3. Cardinality(Lower(x)) # Cardinality(Lower(y))
      <4> HIDE DEF Lower
      <4> QED
        BY <3>2, <1>2
    <3> QED
      BY <3>3
  <2>3. f \in Injection(S, T)
    BY <2>1, <2>2 DEF Injection, IsInjective
  <2>4. IsFiniteSet(T) /\ Cardinality(T) = Cardinality(S)
    <3>1. 0 \in Int /\ Cardinality(S) - 1 \in Int
      BY <1>1
    <3>2. IsFiniteSet(T)
          /\ Cardinality(T) = IF 0 > Cardinality(S) - 1 THEN 0 ELSE (Cardinality(S) - 1) - 0 + 1
      BY <3>1, FS_Interval
    <3> HIDE DEF T
    <3> QED
      BY <3>2, <1>1
  <2>5. f \in Surjection(S, T)
    <3> HIDE DEF f, T
    <3> QED
      BY <2>3, <2>4, FS_Injection
  <2>6. n - 1 \in T
    BY <1>1
  <2>7. \E x \in S : f[x] = n - 1
    <3> HIDE DEF f, T
    <3> QED
      BY <2>5, <2>6 DEF Surjection
  <2> QED
    BY <2>7
<1> QED
  BY <1>1, <1>3, <1>5, <1>6 DEF Rank

\* A sequence that has each element of S once, in this order.
Enumerates(q, R, S) ==
  /\ q \in Seq(S) /\ Len(q) \in Nat /\ DOMAIN q = 1 .. Len(q)
  /\ \A m \in DOMAIN q : q[m] \in S
  /\ \A m, n \in DOMAIN q : m < n <=> <<q[m], q[n]>> \in R
  /\ \A x \in S : \E m \in DOMAIN q : q[m] = x

\* What has the element of rank n - 1 at n enumerates the set.
LEMMA ByRank ==
  ASSUME NEW S, IsFiniteSet(S), NEW R, Orders(R, S), 
         NEW q \in [1 .. Cardinality(S) -> S],
         \A n \in 1 .. Cardinality(S) : Rank(R, S, q[n]) = n - 1
  PROVE  Enumerates(q, R, S)
<1>1. /\ Cardinality(S) \in Nat
      /\ \A x \in S : Rank(R, S, x) \in 0 .. Cardinality(S) - 1
      /\ \A x, y \in S : Rank(R, S, x) < Rank(R, S, y) <=> <<x, y>> \in R
  BY Ranks
<1>2. q \in Seq(S) /\ Len(q) = Cardinality(S) /\ DOMAIN q = 1 .. Cardinality(S)
  <2> PICK c \in Nat : c = Cardinality(S)
    BY <1>1
  <2>2. q \in [1 .. c -> S]
    OBVIOUS
  <2>3. q \in Seq(S)
    BY <2>2
  <2>4. DOMAIN q = 1 .. c
    BY <2>2
  <2>5. Len(q) = c
    BY <2>3, <2>4, LenProperties
  <2> QED
    BY <2>3, <2>4, <2>5
<1>3. \A m, n \in DOMAIN q : m < n <=> <<q[m], q[n]>> \in R
  <2> TAKE m, n \in DOMAIN q
  <2>1. m \in Int /\ n \in Int /\ Rank(R, S, q[m]) = m - 1 /\ Rank(R, S, q[n]) = n - 1
    BY <1>1, <1>2
  <2>2. m < n <=> Rank(R, S, q[m]) < Rank(R, S, q[n])
    BY <2>1
  <2> QED
    BY <2>2, <1>1, <1>2
<1>4. \A x \in S : \E m \in DOMAIN q : q[m] = x
  <2> TAKE x \in S
  <2>1. PICK r \in 0 .. Cardinality(S) - 1 : r = Rank(R, S, x)
    BY <1>1
  <2>2. r + 1 \in DOMAIN q /\ Rank(R, S, q[r + 1]) = r
    BY <1>1, <1>2
  <2>3. q[r + 1] \in S
    BY <2>2, <1>2
  <2>4. q[r + 1] = x
    <3>1. ~ (<<q[r + 1], x>> \in R) /\ ~ (<<x, q[r + 1]>> \in R)
      BY <2>1, <2>2, <2>3, <1>1
    <3> QED
      BY <3>1, <2>3 DEF Orders
  <2> QED
    BY <2>2, <2>4
<1> QED
  BY <1>1, <1>2, <1>3, <1>4 DEF Enumerates

\* A nonempty finite set has a first element.
LEMMA FirstOf ==
  ASSUME NEW S, IsFiniteSet(S), S # {}, NEW R, Orders(R, S)
  PROVE  \E x \in S : \A y \in S : y = x \/ <<x, y>> \in R
<1>1. Cardinality(S) \in Nat /\ Cardinality(S) # 0
  BY FS_CardinalityType, FS_EmptySet
<1>2. PICK x \in S : Rank(R, S, x) = 1 - 1
  <2>1. 1 \in 1 .. Cardinality(S)
    BY <1>1
  <2> QED
    BY <2>1, Ranks
<1>3. ASSUME NEW y \in S, y # x, <<x, y>> \notin R
      PROVE  FALSE
  <2>1. <<y, x>> \in R
    BY <1>3 DEF Orders
  <2>2. Rank(R, S, y) < Rank(R, S, x) /\ Rank(R, S, y) \in 0 .. Cardinality(S) - 1
    BY <2>1, Ranks
  <2> QED
    BY <2>2, <1>2
<1> QED
  BY <1>3

\* A set is enumerated in one way only.
LEMMA EnumeratedOnce ==
  ASSUME NEW S, NEW R, Orders(R, S), NEW p, NEW q, Enumerates(p, R, S), Enumerates(q, R, S)
  PROVE  p = q
<1>1. PICK a \in Nat, b \in Nat :
        /\ a = Len(p) /\ DOMAIN p = 1 .. a /\ p \in Seq(S)
        /\ b = Len(q) /\ DOMAIN q = 1 .. b /\ q \in Seq(S)
  BY Zenon DEF Enumerates
<1>2. /\ \A m \in DOMAIN p : p[m] \in S
      /\ \A m, n \in DOMAIN p : m < n <=> <<p[m], p[n]>> \in R
      /\ \A x \in S : \E m \in DOMAIN p : p[m] = x
  BY DEF Enumerates
<1>3. /\ \A m \in DOMAIN q : q[m] \in S
      /\ \A m, n \in DOMAIN q : m < n <=> <<q[m], q[n]>> \in R
      /\ \A x \in S : \E m \in DOMAIN q : q[m] = x
  BY DEF Enumerates
<1>4. /\ \A x \in S : <<x, x>> \notin R
      /\ \A x, y, z \in S : <<x, y>> \in R /\ <<y, z>> \in R => <<x, z>> \in R
  BY DEF Orders
<1> DEFINE Differ == {m \in (1 .. a) \cap (1 .. b) : p[m] # q[m]}
<1>5. \A m \in 1 .. a : m \in 1 .. b => p[m] = q[m]
  <2> SUFFICES ASSUME Differ # {}
               PROVE  FALSE
    OBVIOUS
  <2>1. Differ \in SUBSET Nat /\ IsFiniteSet(Differ)
    <3>1. IsFiniteSet(1 .. a) /\ Differ \subseteq 1 .. a
      BY <1>1, FS_Interval
    <3> QED
      BY <3>1, FS_Subset
  <2>2. PICK m \in Differ : \A x \in Differ : m <= x
    <3> HIDE DEF Differ
    <3> QED
      BY <2>1, LeastExists
  <2>3. m \in 1 .. a /\ m \in 1 .. b /\ p[m] # q[m]
    OBVIOUS
  <2>4. PICK k \in DOMAIN q : q[k] = p[m]
    BY <1>1, <1>2, <1>3, <2>3
  <2>5. PICK l \in DOMAIN p : p[l] = q[m]
    BY <1>1, <1>2, <1>3, <2>3
  <2>6. k > m
    <3>1. k # m
      BY <2>3, <2>4
    <3>2. ASSUME k < m PROVE FALSE
      <4>1. k \in 1 .. a /\ k \in 1 .. b /\ k \notin Differ
        BY <1>1, <2>2, <2>3, <3>2
      <4>2. p[k] = q[k]
        BY <4>1
      <4>3. <<p[k], p[m]>> \in R /\ p[m] \in S
        BY <1>1, <1>2, <2>3, <3>2, <4>1
      <4> QED
        BY <1>4, <2>4, <4>2, <4>3
    <3>3. k \in Nat /\ m \in Nat
      BY <1>1, <2>3
    <3> QED
      BY ONLY <3>1, <3>2, <3>3
  <2>7. l > m
    <3>1. l # m
      BY <2>3, <2>5
    <3>2. ASSUME l < m PROVE FALSE
      <4>1. l \in 1 .. a /\ l \in 1 .. b /\ l \notin Differ
        BY <1>1, <2>2, <2>3, <3>2
      <4>2. p[l] = q[l]
        BY <4>1
      <4>3. <<q[l], q[m]>> \in R /\ q[m] \in S
        BY <1>1, <1>3, <2>3, <3>2, <4>1
      <4> QED
        BY <1>4, <2>5, <4>2, <4>3
    <3>3. l \in Nat /\ m \in Nat
      BY <1>1, <2>3
    <3> QED
      BY ONLY <3>1, <3>2, <3>3
  <2>8. m < k /\ m < l
    BY <1>1, <2>3, <2>6, <2>7
  <2>9. <<q[m], q[k]>> \in R /\ <<p[m], p[l]>> \in R
    BY <1>1, <1>2, <1>3, <2>3, <2>8
  <2>10. <<q[m], p[m]>> \in R /\ <<p[m], q[m]>> \in R /\ p[m] \in S /\ q[m] \in S
    BY <1>1, <1>2, <1>3, <2>3, <2>4, <2>5, <2>9
  <2> QED
    BY <1>4, <2>10
<1>6. ~(a < b)
  <2> SUFFICES ASSUME a < b PROVE FALSE
    OBVIOUS
  <2>1. b \in DOMAIN q /\ q[b] \in S
    BY <1>1, <1>3
  <2>2. PICK l \in DOMAIN p : p[l] = q[b]
    BY <1>2, <2>1
  <2>3. l \in 1 .. a /\ l \in 1 .. b /\ l < b
    BY <1>1
  <2>4. <<q[l], q[b]>> \in R
    BY <1>1, <1>3, <2>1, <2>3
  <2> QED
    BY <1>4, <1>5, <2>1, <2>2, <2>3, <2>4
<1>7. ~(b < a)
  <2> SUFFICES ASSUME b < a PROVE FALSE
    OBVIOUS
  <2>1. a \in DOMAIN p /\ p[a] \in S
    BY <1>1, <1>2
  <2>2. PICK l \in DOMAIN q : q[l] = p[a]
    BY <1>3, <2>1
  <2>3. l \in 1 .. a /\ l \in 1 .. b /\ l < a
    BY <1>1
  <2>4. <<p[l], p[a]>> \in R
    BY <1>1, <1>2, <2>1, <2>3
  <2> QED
    BY <1>4, <1>5, <2>1, <2>2, <2>3, <2>4
<1>8. a = b
  BY ONLY a \in Nat, b \in Nat, <1>6, <1>7
<1>9. p = [m \in 1 .. a |-> p[m]] /\ q = [m \in 1 .. a |-> q[m]]
  BY <1>1, <1>8
<1> QED
  BY <1>5, <1>8, <1>9, Zenon

Downwards(S) == {p \in S \X S : p[1] > p[2]}
Upwards(S) == {p \in S \X S : p[1] < p[2]}

LEMMA NumbersOrder ==
  ASSUME NEW S \in SUBSET Int
  PROVE  Orders(Downwards(S), S) /\ Orders(Upwards(S), S)
BY DEF Orders, Downwards, Upwards

-----------------------------------------------------------------------------
(* Images of finite sets, and sequences one behind the other. *)

\* What a function takes on a finite set is finite.
LEMMA ImageIsFinite ==
  ASSUME NEW S, IsFiniteSet(S), NEW f, NEW T, T = {f[x] : x \in S}
  PROVE  IsFiniteSet(T)
<1> DEFINE g == [x \in S |-> f[x]]
<1>1. g \in Surjection(S, T)
  BY DEF Surjection
<1> QED
  BY <1>1, FS_Surjection

LEMMA Concatenated ==
  ASSUME NEW S, NEW p \in Seq(S), NEW q \in Seq(S)
  PROVE  /\ p \o q \in Seq(S) /\ Len(p) \in Nat /\ Len(q) \in Nat
         /\ DOMAIN (p \o q) = 1 .. Len(p) + Len(q)
         /\ DOMAIN p = 1 .. Len(p) /\ DOMAIN q = 1 .. Len(q)
         /\ \A n \in DOMAIN p : (p \o q)[n] = p[n]
         /\ \A n \in DOMAIN q : (p \o q)[Len(p) + n] = q[n]
         /\ \A n \in DOMAIN (p \o q) :
              \/ n \in DOMAIN p /\ (p \o q)[n] = p[n]
              \/ n > Len(p) /\ n - Len(p) \in DOMAIN q /\ (p \o q)[n] = q[n - Len(p)]
<1>1. /\ p \o q \in Seq(S) /\ Len(p \o q) = Len(p) + Len(q)
      /\ \A i \in 1 .. Len(p) + Len(q) : (p \o q)[i] = IF i <= Len(p) THEN p[i] ELSE q[i - Len(p)]
  BY ConcatProperties
<1>2. /\ Len(p) \in Nat /\ Len(q) \in Nat
      /\ DOMAIN p = 1 .. Len(p) /\ DOMAIN q = 1 .. Len(q)
  BY LenProperties
<1>3. DOMAIN (p \o q) = 1 .. Len(p) + Len(q)
  BY <1>1, <1>2, LenProperties, Zenon
<1> PICK a \in Nat, b \in Nat : a = Len(p) /\ b = Len(q)
  BY <1>2, Zenon
<1>4. ASSUME NEW n \in DOMAIN p
      PROVE  (p \o q)[n] = p[n]
  BY <1>1, <1>2
<1>5. ASSUME NEW n \in DOMAIN q
      PROVE  (p \o q)[Len(p) + n] = q[n]
  BY <1>2, <1>1
<1>6. ASSUME NEW n \in DOMAIN (p \o q)
      PROVE  \/ n \in DOMAIN p /\ (p \o q)[n] = p[n]
             \/ n > Len(p) /\ n - Len(p) \in DOMAIN q /\ (p \o q)[n] = q[n - Len(p)]
  <2>1. n \in 1 .. a + b
    BY <1>3
  <2>2. CASE n <= a
    BY <2>1, <2>2, <1>1, <1>2
  <2>3. CASE n > a
    BY <2>1, <2>3, <1>1, <1>2
  <2> QED
    BY <2>1, <2>2, <2>3
<1> QED
  BY <1>1, <1>2, <1>3, <1>4, <1>5, <1>6

\* A has some of what is in B, in the same order.
Within(A, B) ==
  /\ \A m \in DOMAIN A : \E k \in DOMAIN B : A[m] = B[k]
  /\ \A m, n \in DOMAIN A : m < n => \E k, l \in DOMAIN B : k < l /\ A[m] = B[k] /\ A[n] = B[l]

LEMMA WithinConcat ==
  ASSUME NEW S, NEW L \in Seq(S), NEW A \in Seq(S), NEW B \in Seq(S), Within(A, B)
  PROVE  Within(L \o A, L \o B) /\ L \o A \in Seq(S)
<1> PICK len \in Nat : len = Len(L)
  BY LenProperties
<1>1. /\ L \o A \in Seq(S) /\ DOMAIN (L \o A) \subseteq Nat /\ DOMAIN L = 1 .. len
      /\ \A n \in DOMAIN (L \o A) :
           \/ n \in DOMAIN L /\ (L \o A)[n] = L[n]
           \/ n > len /\ n - len \in DOMAIN A /\ (L \o A)[n] = A[n - len]
  <2> QED
    BY Concatenated, LenProperties
<1>2. /\ DOMAIN L \subseteq DOMAIN (L \o B) /\ DOMAIN B \subseteq Nat
      /\ \A n \in DOMAIN L : (L \o B)[n] = L[n]
      /\ \A n \in DOMAIN B : len + n \in DOMAIN (L \o B) /\ (L \o B)[len + n] = B[n]
      /\ \A n \in DOMAIN B : n > 0
  BY Concatenated
<1>3. ASSUME NEW m \in DOMAIN (L \o A)
      PROVE  \E k \in DOMAIN (L \o B) : (L \o A)[m] = (L \o B)[k]
  <2>1. CASE m \in DOMAIN L /\ (L \o A)[m] = L[m]
    BY <2>1, <1>2
  <2>2. CASE m - len \in DOMAIN A /\ (L \o A)[m] = A[m - len]
    <3>1. PICK k \in DOMAIN B : A[m - len] = B[k]
      BY <2>2 DEF Within
    <3> QED
      BY <2>2, <3>1, <1>2
  <2> QED
    BY <1>1, <2>1, <2>2
<1>4. ASSUME NEW m \in DOMAIN (L \o A), NEW n \in DOMAIN (L \o A), m < n
      PROVE  \E k, l \in DOMAIN (L \o B) :
               k < l /\ (L \o A)[m] = (L \o B)[k] /\ (L \o A)[n] = (L \o B)[l]
  <2>1. m \in Nat /\ n \in Nat
    BY <1>1
  <2>2. CASE m \in DOMAIN L /\ n \in DOMAIN L /\ (L \o A)[m] = L[m] /\ (L \o A)[n] = L[n]
    BY <2>2, <1>2, <1>4
  <2>3. CASE m \in DOMAIN L /\ (L \o A)[m] = L[m] /\ n - len \in DOMAIN A /\ (L \o A)[n] = A[n - len]
    <3>1. PICK l \in DOMAIN B : A[n - len] = B[l]
      BY <2>3 DEF Within
    <3>2. l \in Nat /\ l > 0 /\ m < len + l
      BY <1>1, <1>2, <2>1, <2>3
    <3> QED
      BY <2>3, <3>1, <3>2, <1>2
  <2>4. CASE /\ m > len /\ m - len \in DOMAIN A /\ (L \o A)[m] = A[m - len]
             /\ n > len /\ n - len \in DOMAIN A /\ (L \o A)[n] = A[n - len]
    <3>1. m - len < n - len
      BY <2>1, <1>4
    <3>2. PICK k \in DOMAIN B, l \in DOMAIN B : k < l /\ A[m - len] = B[k] /\ A[n - len] = B[l]
      BY <2>4, <3>1 DEF Within
    <3>3. k \in Nat /\ l \in Nat /\ len + k < len + l
      BY <3>2, <1>2
    <3> QED
      BY <2>4, <3>2, <3>3, <1>2
  <2>5. CASE m > len /\ n \in DOMAIN L
    BY <2>5, <2>1, <1>1, <1>4
  <2> QED
    BY <1>1, <2>2, <2>3, <2>4, <2>5
<1> QED
  BY <1>1, <1>3, <1>4 DEF Within

\* The first k of the sequences, one after the other.
Flattened(seqs, k, g) ==
  g = [i \in 1 .. k |-> IF i = 1 THEN seqs[i] ELSE g[i - 1] \o seqs[i]]

LEMMA FlattenedIs ==
  ASSUME NEW seqs, NEW k \in Nat, NEW g, Flattened(seqs, k, g)
  PROVE  \A i \in 1 .. k : g[i] = IF i = 1 THEN seqs[i] ELSE g[i - 1] \o seqs[i]
<1>1. PICK h : h = g
  OBVIOUS
<1>2. g = [i \in 1 .. k |-> IF i = 1 THEN seqs[i] ELSE h[i - 1] \o seqs[i]]
  BY <1>1 DEF Flattened
<1> QED
  BY <1>1, <1>2

LEMMA FlattenedExists ==
  ASSUME NEW seqs, NEW n \in Nat
  PROVE  \E g : Flattened(seqs, n, g)
<1> DEFINE Good == {k \in 0 .. n : \E g : Flattened(seqs, k, g)}
<1>1. 0 \in Good
  <2>1. PICK g : g = [i \in 1 .. 0 |-> <<>>]
    OBVIOUS
  <2>2. g = [i \in 1 .. 0 |-> IF i = 1 THEN seqs[i] ELSE g[i - 1] \o seqs[i]]
    BY <2>1
  <2>3. Flattened(seqs, 0, g)
    BY ONLY <2>2 DEF Flattened
  <2> QED
    BY <2>3
<1>2. ASSUME NEW k \in 0 .. (n - 1), k \in Good
      PROVE  k + 1 \in Good
  <2>1. PICK g : Flattened(seqs, k, g)
    BY <1>2
  <2>2. \A i \in 1 .. k : g[i] = IF i = 1 THEN seqs[i] ELSE g[i - 1] \o seqs[i]
    BY <2>1, FlattenedIs
  <2>3. PICK h : h = [i \in 1 .. (k + 1) |-> IF i = 1 THEN seqs[i] ELSE g[i - 1] \o seqs[i]]
    OBVIOUS
  <2>4. \A i \in 1 .. k : h[i] = g[i]
    <3> TAKE i \in 1 .. k
    <3>1. i \in 1 .. (k + 1)
      OBVIOUS
    <3> QED
      BY <2>2, <2>3, <3>1
  <2>5. \A i \in 1 .. (k + 1) : i # 1 => h[i - 1] = g[i - 1]
    <3> TAKE i \in 1 .. (k + 1)
    <3>1. i # 1 => i - 1 \in 1 .. k
      OBVIOUS
    <3> QED
      BY <2>4, <3>1
  <2>6. h = [i \in 1 .. (k + 1) |-> IF i = 1 THEN seqs[i] ELSE h[i - 1] \o seqs[i]]
    BY <2>3, <2>5
  <2>7. Flattened(seqs, k + 1, h)
    BY ONLY <2>6 DEF Flattened
  <2>8. k + 1 \in 0 .. n
    OBVIOUS
  <2> QED
    BY <2>7, <2>8
<1>3. \A k \in 0 .. n : k \in Good
  <2> HIDE DEF Good
  <2> QED
    BY <1>1, <1>2, Inductive
<1> QED
  BY <1>3
=============================================================================
