----------------------------- MODULE ChainsProof -----------------------------
(***************************************************************************)
(* Theorems about the cursors and the buckets of the listings, for every   *)
(* store of sessions and every rule the assumption on the scripts allows,  *)
(* all limits, budgets and windows, whatever is persisted or removed       *)
(* between two requests.                                                   *)
(*                                                                         *)
(* The argument: chains are listed in a strict total order of positions.   *)
(* Later sessions are outside the pinned snapshot, and what is removed can *)
(* only move a position towards the front, so that what was listed stays   *)
(* above the cursor.  When retention removes the lowest ids first, a chain *)
(* that is being searched and still has its lowest session has lost none:  *)
(* it is where it was, and the cursor behind it lies further down.         *)
(*                                                                         *)
(* The buckets need no such order.  The rule's matcher finds the first     *)
(* explanation of any sequence of transactions; the chains found through   *)
(* the last start are the ones the window's gaps divide the sessions into; *)
(* and every transaction of a chain has one place among its events, the    *)
(* same wherever they are read from.                                       *)
(***************************************************************************)
EXTENDS Chains, DataLemmas, FunctionTheorems

-----------------------------------------------------------------------------
(* The least and the greatest id. *)

\* The least and the greatest of a finite set of integers.
LEMMA MinIs ==
  ASSUME NEW S \in SUBSET Int, IsFiniteSet(S), S # {}
  PROVE  Min(S) \in S /\ \A x \in S : Min(S) <= x
<1> DEFINE R == {p \in S \X S : p[1] < p[2]}
<1>1. Orders(R, S)
  BY DEF Orders
<1>2. PICK m \in S : \A y \in S : y = m \/ <<m, y>> \in R
  <2> HIDE DEF R
  <2> QED BY <1>1, FirstOf
<1>3. ASSUME NEW y \in S
      PROVE  m <= y
  <2>1. <<m, y>> \in R => <<m, y>>[1] < <<m, y>>[2]
    OBVIOUS
  <2> HIDE DEF R
  <2> QED BY <1>2, <2>1
<1> QED BY <1>3 DEF Min

LEMMA MaxIs ==
  ASSUME NEW S \in SUBSET Int, IsFiniteSet(S), S # {}
  PROVE  Max(S) \in S /\ \A x \in S : x <= Max(S)
<1> DEFINE R == {p \in S \X S : p[1] > p[2]}
<1>1. Orders(R, S)
  BY DEF Orders
<1>2. PICK m \in S : \A y \in S : y = m \/ <<m, y>> \in R
  <2> HIDE DEF R
  <2> QED BY <1>1, FirstOf
<1>3. ASSUME NEW y \in S
      PROVE  m >= y
  <2>1. <<m, y>> \in R => <<m, y>>[1] > <<m, y>>[2]
    OBVIOUS
  <2> HIDE DEF R
  <2> QED BY <1>2, <2>1
<1> QED BY <1>3 DEF Max

-----------------------------------------------------------------------------
(* The chains of a set of sessions s, as a client sees them in a snapshot.  *)
(* These are the operators of Chains with the sessions as a parameter.      *)

SessionsAre(s) ==
  /\ Len(s) \in Nat /\ DOMAIN s = 1 .. Len(s)
  /\ \A i \in DOMAIN s : s[i].start \in Int

BeforeIn(s, i, j) ==
  \/ s[i].start < s[j].start
  \/ s[i].start = s[j].start /\ i < j

SameIn(s, i, j) == i = j \/ (s[i].key = s[j].key /\ s[i].key # None)

OpensIn(s, M, i) ==
  \A j \in M : SameIn(s, j, i) /\ BeforeIn(s, j, i) => s[i].start - s[j].start > Window

OpeningsIn(s, M, i) == {k \in M : SameIn(s, k, i) /\ OpensIn(s, M, k) /\ ~BeforeIn(s, i, k)}

StartIn(s, M, i) == Max({s[j].start : j \in OpeningsIn(s, M, i)})

ChainIn(s, M, i) == {j \in M : SameIn(s, j, i) /\ StartIn(s, M, j) = StartIn(s, M, i)}

Pairs(s, M) == {p \in M \X M : BeforeIn(s, p[1], p[2])}

LEMMA BeforeOrders ==
  ASSUME NEW s, SessionsAre(s)
  PROVE  /\ \A i \in DOMAIN s : ~BeforeIn(s, i, i)
         /\ \A i, j \in DOMAIN s : i = j \/ BeforeIn(s, i, j) \/ BeforeIn(s, j, i)
         /\ \A i, j \in DOMAIN s : BeforeIn(s, i, j) => ~BeforeIn(s, j, i)
         /\ \A i, j, k \in DOMAIN s : BeforeIn(s, i, j) /\ BeforeIn(s, j, k) => BeforeIn(s, i, k)
         /\ \A i, j \in DOMAIN s : ~BeforeIn(s, j, i) => s[i].start <= s[j].start
BY DEF SessionsAre, BeforeIn

LEMMA PairsOrder ==
  ASSUME NEW s, SessionsAre(s), NEW M \in SUBSET DOMAIN s
  PROVE  IsFiniteSet(M) /\ Orders(Pairs(s, M), M)
<1>1. IsFiniteSet(DOMAIN s)
  BY FS_Interval DEF SessionsAre
<1>2. IsFiniteSet(M)
  BY <1>1, FS_Subset
<1>3. Orders(Pairs(s, M), M)
  BY BeforeOrders DEF Orders, Pairs
<1> QED BY <1>2, <1>3

\* A nonempty set of sessions has an earliest one.
LEMMA EarliestOf ==
  ASSUME NEW s, SessionsAre(s), NEW M \in SUBSET DOMAIN s, M # {}
  PROVE  \E i \in M : \A j \in M : j = i \/ BeforeIn(s, i, j)
<1>1. \E i \in M : \A j \in M : j = i \/ <<i, j>> \in Pairs(s, M)
  BY PairsOrder, FirstOf
<1> QED BY <1>1 DEF Pairs

\* chain_start is the start of a boundary up to the session.
LEMMA Opening ==
  ASSUME NEW s, SessionsAre(s), NEW M \in SUBSET DOMAIN s, NEW i \in M
  PROVE  \E b \in OpeningsIn(s, M, i) :
            /\ StartIn(s, M, i) = s[b].start
            /\ \A c \in OpeningsIn(s, M, i) : s[c].start <= s[b].start
<1> DEFINE K == {k \in M : SameIn(s, k, i)}
           B == OpeningsIn(s, M, i)
           f == [j \in B |-> s[j].start]
           T == {f[j] : j \in B}
<1>1. PICK k \in K : \A j \in K : j = k \/ BeforeIn(s, k, j)
  <2>1. i \in K /\ K \in SUBSET DOMAIN s
    BY DEF SameIn
  <2> HIDE DEF K
  <2> QED BY <2>1, EarliestOf
<1>2. k \in B
  BY <1>1, BeforeOrders DEF SameIn, OpeningsIn, OpensIn
<1>3. B \in SUBSET DOMAIN s
  BY DEF OpeningsIn
<1>4. IsFiniteSet(B)
  BY <1>3, PairsOrder
<1>5. T \in SUBSET Int /\ T # {}
  BY <1>2, <1>3 DEF SessionsAre
<1>6. IsFiniteSet(T)
  <2> HIDE DEF B, f
  <2> QED BY <1>4, ImageIsFinite
<1>7. Max(T) \in T /\ \A x \in T : x <= Max(T)
  <2> HIDE DEF T
  <2> QED BY <1>5, <1>6, MaxIs
<1>8. T = {s[j].start : j \in B}
  OBVIOUS
<1>9. StartIn(s, M, i) = Max(T)
  BY <1>8 DEF StartIn
<1> QED BY <1>7, <1>8, <1>9

LEMMA SameIsEquivalence ==
  ASSUME NEW s
  PROVE  /\ \A i : SameIn(s, i, i)
         /\ \A i, j : SameIn(s, i, j) => SameIn(s, j, i)
         /\ \A i, j, k : SameIn(s, i, j) /\ SameIn(s, j, k) => SameIn(s, i, k)
BY DEF SameIn

Splits(s, M, i, j, b) ==
  b \in M /\ SameIn(s, b, i) /\ OpensIn(s, M, b) /\ BeforeIn(s, i, b) /\ ~BeforeIn(s, j, b)

\* Two sessions of a key are in one chain if no boundary lies between them.
LEMMA NotSplit ==
  ASSUME NEW s, SessionsAre(s), NEW M \in SUBSET DOMAIN s, NEW i \in M, NEW j \in M,
         SameIn(s, i, j), BeforeIn(s, i, j)
  PROVE  StartIn(s, M, i) = StartIn(s, M, j) <=> \A b \in M : ~Splits(s, M, i, j, b)
<1>1. PICK bi \in OpeningsIn(s, M, i) :
         /\ StartIn(s, M, i) = s[bi].start
         /\ \A c \in OpeningsIn(s, M, i) : s[c].start <= s[bi].start
  BY Opening
<1>2. PICK bj \in OpeningsIn(s, M, j) :
         /\ StartIn(s, M, j) = s[bj].start
         /\ \A c \in OpeningsIn(s, M, j) : s[c].start <= s[bj].start
  BY Opening
<1>3. bi \in DOMAIN s /\ bj \in DOMAIN s /\ i \in DOMAIN s /\ j \in DOMAIN s
  BY DEF OpeningsIn
<1>4. bi \in OpeningsIn(s, M, j)
  BY SameIsEquivalence, <1>3, BeforeOrders DEF OpeningsIn
<1>5. s[bi].start \in Int /\ s[bj].start \in Int /\ s[i].start \in Int /\ s[bi].start <= s[bj].start
  BY <1>2, <1>3, <1>4 DEF SessionsAre
<1>6. ASSUME \A b \in M : ~Splits(s, M, i, j, b)
      PROVE  s[bi].start = s[bj].start
  BY SameIsEquivalence, <1>6, <1>1, <1>5 DEF OpeningsIn, Splits
<1>7. ASSUME s[bi].start = s[bj].start, NEW b \in M, Splits(s, M, i, j, b)
      PROVE  FALSE
  <2>1. b \in DOMAIN s /\ SameIn(s, b, j) /\ SameIn(s, bi, b) /\ ~BeforeIn(s, i, bi)
    BY <1>7, SameIsEquivalence DEF Splits, OpeningsIn
  <2>2. b \in OpeningsIn(s, M, j)
    BY <1>7, <2>1 DEF Splits, OpeningsIn
  <2>3. BeforeIn(s, i, b)
    BY <1>7 DEF Splits
  <2>4. BeforeIn(s, bi, b)
    BY <2>1, <2>3, <1>3, BeforeOrders
  <2>5. s[b].start \in Int /\ s[b].start <= s[bj].start
    BY <2>1, <2>2, <1>2 DEF SessionsAre
  <2>6. s[b].start - s[bi].start > Window
    BY <2>1, <2>4, <1>7 DEF OpeningsIn, Splits, OpensIn
  <2> QED BY <2>5, <2>6, <1>5, <1>7, SizesAssumption
<1> QED BY <1>1, <1>2, <1>6, <1>7
\* The chains of a snapshot are a partition.
LEMMA ChainsPartition ==
  ASSUME NEW s, NEW M, NEW i \in M
  PROVE  /\ i \in ChainIn(s, M, i) /\ ChainIn(s, M, i) \subseteq M
         /\ \A j \in ChainIn(s, M, i) : ChainIn(s, M, j) = ChainIn(s, M, i)
<1>1. i \in ChainIn(s, M, i)
  BY DEF ChainIn, SameIn
<1>2. ASSUME NEW j \in ChainIn(s, M, i)
      PROVE  ChainIn(s, M, j) = ChainIn(s, M, i)
  BY SameIsEquivalence DEF ChainIn
<1> QED BY <1>1, <1>2 DEF ChainIn

\* Fewer sessions make smaller chains: what held two of them together, if it
\* is gone, leaves a gap in which the next session of the key is a boundary.
LEMMA NoSplitAdded ==
  ASSUME NEW s, SessionsAre(s), NEW M \in SUBSET DOMAIN s, NEW N \in SUBSET M,
         NEW i \in N, NEW j \in N, SameIn(s, i, j), BeforeIn(s, i, j),
         \A b \in N : ~Splits(s, N, i, j, b)
  PROVE  \A b \in M : ~Splits(s, M, i, j, b)
<1> SUFFICES ASSUME NEW b \in M, Splits(s, M, i, j, b)
             PROVE  FALSE
  OBVIOUS
<1> DEFINE T == {k \in N : SameIn(s, k, i) /\ ~BeforeIn(s, k, b) /\ ~BeforeIn(s, j, k)}
<1>1. /\ i \in DOMAIN s /\ j \in DOMAIN s /\ b \in DOMAIN s /\ N \in SUBSET DOMAIN s
      /\ SameIn(s, b, i) /\ BeforeIn(s, i, b) /\ ~BeforeIn(s, j, b) /\ OpensIn(s, M, b)
  BY DEF Splits
<1>2. j \in T
  BY <1>1, BeforeOrders, SameIsEquivalence
<1>3. PICK k \in T : \A l \in T : l = k \/ BeforeIn(s, k, l)
  <2>1. T \in SUBSET DOMAIN s /\ T # {}
    BY <1>1, <1>2
  <2> HIDE DEF T
  <2> QED BY <2>1, EarliestOf
<1>4. k \in N /\ k \in DOMAIN s /\ SameIn(s, k, i) /\ ~BeforeIn(s, k, b) /\ ~BeforeIn(s, j, k)
  BY <1>1, <1>3
<1>5. OpensIn(s, N, k)
  <2> SUFFICES ASSUME NEW p \in N, SameIn(s, p, k), BeforeIn(s, p, k)
               PROVE  s[k].start - s[p].start > Window
    BY DEF OpensIn
  <2>1. p \in DOMAIN s /\ p \in M /\ SameIn(s, p, i) /\ SameIn(s, p, b)
    BY <1>1, <1>4, SameIsEquivalence
  <2>2. p \notin T
    BY <1>3, <1>4, <2>1, BeforeOrders
  <2>3. ~BeforeIn(s, j, p)
    BY <1>1, <1>4, <2>1, BeforeOrders
  <2>4. BeforeIn(s, p, b)
    BY <2>1, <2>2, <2>3
  <2>5. s[b].start - s[p].start > Window
    BY <1>1, <2>1, <2>4 DEF OpensIn
  <2>6. s[b].start <= s[k].start
    BY <1>1, <1>4, BeforeOrders
  <2>7. s[b].start \in Int /\ s[p].start \in Int /\ s[k].start \in Int
    BY <1>1, <1>4, <2>1 DEF SessionsAre
  <2> QED BY <2>5, <2>6, <2>7, SizesAssumption
<1>6. BeforeIn(s, i, k)
  BY <1>1, <1>4, BeforeOrders
<1> QED BY <1>4, <1>5, <1>6 DEF Splits

LEMMA ChainsShrink ==
  ASSUME NEW s, SessionsAre(s), NEW M \in SUBSET DOMAIN s, NEW N \in SUBSET M, NEW i \in N
  PROVE  ChainIn(s, N, i) \subseteq ChainIn(s, M, i)
<1> SUFFICES ASSUME NEW j \in ChainIn(s, N, i)
             PROVE  j \in ChainIn(s, M, i)
  OBVIOUS
<1>1. /\ j \in N /\ i \in M /\ j \in M /\ i \in DOMAIN s /\ j \in DOMAIN s
      /\ N \in SUBSET DOMAIN s
      /\ SameIn(s, j, i) /\ SameIn(s, i, j) /\ StartIn(s, N, j) = StartIn(s, N, i)
  BY SameIsEquivalence DEF ChainIn
<1>2. CASE i = j
  BY <1>1, <1>2, ChainsPartition
<1>3. CASE BeforeIn(s, i, j)
  BY <1>1, <1>3, NotSplit, NoSplitAdded DEF ChainIn
<1>4. CASE BeforeIn(s, j, i)
  BY <1>1, <1>4, NotSplit, NoSplitAdded DEF ChainIn
<1> QED BY <1>1, <1>2, <1>3, <1>4, BeforeOrders

\* What lies between two sessions of a chain is in the chain.
LEMMA ChainIsConvex ==
  ASSUME NEW s, SessionsAre(s), NEW M \in SUBSET DOMAIN s, NEW i \in M, NEW j \in M, NEW k \in M,
         SameIn(s, i, j), SameIn(s, i, k), BeforeIn(s, i, k), ~BeforeIn(s, j, k),
         StartIn(s, M, i) = StartIn(s, M, j)
  PROVE  StartIn(s, M, k) = StartIn(s, M, i)
<1>1. i \in DOMAIN s /\ j \in DOMAIN s /\ k \in DOMAIN s /\ BeforeIn(s, i, j)
  BY BeforeOrders
<1>2. \A b \in M : ~Splits(s, M, i, j, b)
  BY <1>1, NotSplit
<1>3. \A b \in M : ~Splits(s, M, i, k, b)
  <2> SUFFICES ASSUME NEW b \in M, Splits(s, M, i, k, b)
               PROVE  FALSE
    OBVIOUS
  <2>1. ~BeforeIn(s, j, b)
    BY <1>1, BeforeOrders DEF Splits
  <2> QED BY <1>2, <2>1 DEF Splits
<1> QED BY <1>3, NotSplit

\* The session that keeps another from being a boundary is in its chain.
LEMMA NeighbourIn ==
  ASSUME NEW s, SessionsAre(s), NEW M \in SUBSET DOMAIN s, NEW i \in M, NEW k \in M,
         SameIn(s, i, k), BeforeIn(s, i, k), s[k].start - s[i].start <= Window
  PROVE  StartIn(s, M, k) = StartIn(s, M, i)
<1>1. i \in DOMAIN s /\ k \in DOMAIN s /\ s[k].start \in Int /\ s[i].start \in Int
  BY DEF SessionsAre
<1>2. \A b \in M : ~Splits(s, M, i, k, b)
  <2> SUFFICES ASSUME NEW b \in M, Splits(s, M, i, k, b)
               PROVE  FALSE
    OBVIOUS
  <2>1. /\ b \in DOMAIN s /\ s[b].start \in Int /\ SameIn(s, i, b)
        /\ OpensIn(s, M, b) /\ BeforeIn(s, i, b) /\ ~BeforeIn(s, k, b)
    BY SameIsEquivalence DEF Splits, SessionsAre
  <2>2. s[b].start <= s[k].start
    BY <1>1, <2>1, BeforeOrders
  <2>3. s[b].start - s[i].start > Window
    BY <2>1 DEF OpensIn
  <2> QED BY <1>1, <2>1, <2>2, <2>3, SizesAssumption
<1> QED BY <1>2, NotSplit

\* A chain that has lost no session is still a chain: its sessions have their
\* boundaries from each other.
LEMMA ChainKept ==
  ASSUME NEW s, SessionsAre(s), NEW M \in SUBSET DOMAIN s, NEW N \in SUBSET M, NEW i \in N,
         ChainIn(s, M, i) \subseteq N
  PROVE  ChainIn(s, N, i) = ChainIn(s, M, i)
<1> DEFINE C == ChainIn(s, M, i)
<1>1. /\ i \in M /\ C \subseteq M /\ i \in C /\ N \in SUBSET DOMAIN s
      /\ \A k \in C : SameIn(s, k, i) /\ StartIn(s, M, k) = StartIn(s, M, i)
      /\ \A k \in M : SameIn(s, k, i) /\ StartIn(s, M, k) = StartIn(s, M, i) => k \in C
  BY ChainsPartition DEF ChainIn
<1>2. ASSUME NEW k \in C, OpensIn(s, N, k)
      PROVE  OpensIn(s, M, k)
  <2> SUFFICES ASSUME NEW p \in M, SameIn(s, p, k), BeforeIn(s, p, k),
                      ~(s[k].start - s[p].start > Window)
               PROVE  FALSE
    BY DEF OpensIn
  <2>1. k \in M /\ s[k].start \in Int /\ s[p].start \in Int
    BY <1>1 DEF SessionsAre
  <2>2. s[k].start - s[p].start <= Window
    BY <2>1, SizesAssumption
  <2>3. StartIn(s, M, k) = StartIn(s, M, p)
    BY <2>1, <2>2, NeighbourIn
  <2>4. SameIn(s, p, i)
    BY <1>1, SameIsEquivalence
  <2>5. p \in N
    BY <1>1, <2>3, <2>4
  <2> QED BY <2>5, <1>2 DEF OpensIn
<1>3. ASSUME NEW j \in C, NEW k \in C, BeforeIn(s, j, k)
      PROVE  StartIn(s, N, j) = StartIn(s, N, k)
  <2>1. j \in N /\ k \in N /\ j \in M /\ k \in M /\ SameIn(s, j, k) /\ j \in DOMAIN s /\ k \in DOMAIN s
    BY <1>1, SameIsEquivalence
  <2>2. StartIn(s, M, j) = StartIn(s, M, k)
    BY <1>1
  <2>3. \A b \in M : ~Splits(s, M, j, k, b)
    BY <2>1, <2>2, <1>3, NotSplit
  <2>4. \A b \in N : ~Splits(s, N, j, k, b)
    <3> SUFFICES ASSUME NEW b \in N, Splits(s, N, j, k, b)
                 PROVE  FALSE
      OBVIOUS
    <3>1. b \in M /\ SameIn(s, j, b) /\ SameIn(s, b, i) /\ BeforeIn(s, j, b) /\ ~BeforeIn(s, k, b)
      BY <1>1, SameIsEquivalence DEF Splits
    <3>2. StartIn(s, M, b) = StartIn(s, M, j)
      BY <2>1, <2>2, <3>1, ChainIsConvex
    <3>3. b \in C
      BY <1>1, <3>1, <3>2
    <3>4. OpensIn(s, M, b)
      BY <1>2, <3>3 DEF Splits
    <3> QED BY <2>3, <3>1, <3>4 DEF Splits
  <2> QED BY <2>1, <2>4, <1>1, <1>3, NotSplit
<1>4. \A k \in C : StartIn(s, N, k) = StartIn(s, N, i)
  <2> TAKE k \in C
  <2>1. k = i \/ BeforeIn(s, k, i) \/ BeforeIn(s, i, k)
    BY <1>1, BeforeOrders
  <2> QED BY <2>1, <1>1, <1>3
<1>5. C \subseteq ChainIn(s, N, i)
  BY <1>1, <1>4 DEF ChainIn
<1> QED BY <1>5, ChainsShrink

-----------------------------------------------------------------------------
(* The position of a chain in the listing. *)

Place == [start : Int, id : Int]

StartsOf(s, C) == {s[i].start : i \in C}

PlaceIn(s, C) == [start |-> Min(StartsOf(s, C)), id |-> Min(C)]

LEMMA PrecedesOrders ==
  /\ \A p \in Place : ~Precedes(p, p)
  /\ \A p, q \in Place : p = q \/ Precedes(p, q) \/ Precedes(q, p)
  /\ \A p, q, r \in Place : Precedes(p, q) /\ Precedes(q, r) => Precedes(p, r)
  /\ \A p, q, r \in Place : ~Precedes(q, p) /\ Precedes(q, r) => Precedes(p, r)
  /\ \A p, q, r \in Place : Precedes(p, q) /\ ~Precedes(r, q) => Precedes(p, r)
  /\ \A p, q \in Place : Precedes(p, q) => ~Precedes(q, p)
BY DEF Precedes, Place

LEMMA PlaceIs ==
  ASSUME NEW s, SessionsAre(s), NEW C \in SUBSET DOMAIN s, C # {}
  PROVE  /\ PlaceIn(s, C) \in Place /\ Min(C) \in C
         /\ \A i \in C : Min(C) <= i /\ PlaceIn(s, C).start <= s[i].start
         /\ \E i \in C : PlaceIn(s, C).start = s[i].start
         /\ PlaceIn(s, C).id = Min(C)
<1> DEFINE f == [i \in C |-> s[i].start]
           T == {f[i] : i \in C}
<1>1. IsFiniteSet(C) /\ C \in SUBSET Int
  BY PairsOrder DEF SessionsAre
<1>2. T \in SUBSET Int /\ T # {}
  BY DEF SessionsAre
<1>3. IsFiniteSet(T)
  <2> HIDE DEF f
  <2> QED BY <1>1, ImageIsFinite
<1>4. Min(T) \in T /\ \A x \in T : Min(T) <= x
  <2> HIDE DEF T
  <2> QED BY <1>2, <1>3, MinIs
<1>5. T = StartsOf(s, C)
  BY DEF StartsOf
<1>6. Min(C) \in C /\ \A i \in C : Min(C) <= i
  BY <1>1, MinIs
<1>7. PlaceIn(s, C).start = Min(T) /\ PlaceIn(s, C).id = Min(C)
  BY <1>5 DEF PlaceIn
<1>8. Min(T) \in Int /\ Min(C) \in Int
  BY <1>1, <1>2, <1>4, <1>6
<1>9. PlaceIn(s, C) \in Place
  BY <1>5, <1>8 DEF PlaceIn, Place
<1> QED BY <1>4, <1>5, <1>6, <1>7, <1>9

\* What is left of a chain does not lie below it.
LEMMA PlaceRises ==
  ASSUME NEW s, SessionsAre(s), NEW C \in SUBSET DOMAIN s, NEW D \in SUBSET C, D # {}
  PROVE  ~Precedes(PlaceIn(s, D), PlaceIn(s, C))
<1>1. C # {} /\ D \in SUBSET DOMAIN s
  OBVIOUS
<1>2. PlaceIn(s, C) \in Place /\ PlaceIn(s, D) \in Place
  BY <1>1, PlaceIs
<1>3. PlaceIn(s, C).start <= PlaceIn(s, D).start
  <2>1. PICK i \in D : PlaceIn(s, D).start = s[i].start
    BY <1>1, PlaceIs
  <2> QED BY <2>1, <1>1, PlaceIs
<1>4. PlaceIn(s, C).id <= PlaceIn(s, D).id
  BY <1>1, PlaceIs
<1> QED BY <1>2, <1>3, <1>4 DEF Precedes, Place
-----------------------------------------------------------------------------
(* What a listing has contained.                                           *)

VisibleIn(s, V, n) == {i \in V : i <= n /\ s[i].shown}

SummaryIn(s, C, n) ==
  [id |-> Min(C), key |-> s[Min(C)].key, members |-> C, snapshot |-> n,
   start |-> Min(StartsOf(s, C)), last |-> Max(StartsOf(s, C))]

PlaceOrNone == Place \cup {None}

\* Still to come, in a listing that has got as far as before.
Lower(place, before) == before = None \/ Precedes(place, before)

Disjoint(L) == \A m, n \in DOMAIN L : m < n => L[m] \cap L[n] = {}

\* What was listed is in no chain that is still to come.
ListsOnce(s, M, before, L) ==
  /\ L \in Seq(SUBSET DOMAIN s)
  /\ Disjoint(L)
  /\ \A m \in DOMAIN L : \A i \in L[m] \cap M : ~Lower(PlaceIn(s, ChainIn(s, M, i)), before)

\* Fewer sessions: the chains of what was listed only move up.
LEMMA ListsShrink ==
  ASSUME NEW s, SessionsAre(s), NEW M \in SUBSET DOMAIN s, NEW N \in SUBSET M,
         NEW before \in PlaceOrNone, NEW L, ListsOnce(s, M, before, L)
  PROVE  ListsOnce(s, N, before, L)
<1> SUFFICES ASSUME NEW m \in DOMAIN L, NEW i \in L[m] \cap N
             PROVE  ~Lower(PlaceIn(s, ChainIn(s, N, i)), before)
  BY DEF ListsOnce
<1>1. /\ N \in SUBSET DOMAIN s /\ i \in M
      /\ before # None /\ before \in Place
      /\ ~Precedes(PlaceIn(s, ChainIn(s, M, i)), before)
  BY DEF ListsOnce, Lower, PlaceOrNone
<1> DEFINE C == ChainIn(s, M, i)
           D == ChainIn(s, N, i)
<1>2. C \in SUBSET DOMAIN s /\ C # {} /\ D \in SUBSET C /\ D # {} /\ D \in SUBSET DOMAIN s
  BY <1>1, ChainsPartition, ChainsShrink
<1>3. PlaceIn(s, C) \in Place /\ PlaceIn(s, D) \in Place /\ ~Precedes(PlaceIn(s, D), PlaceIn(s, C))
  <2> HIDE DEF C, D
  <2> QED BY <1>2, PlaceIs, PlaceRises
<1>4. ~Precedes(PlaceIn(s, C), before)
  BY <1>1
<1>5. ~Precedes(PlaceIn(s, D), before)
  <2> HIDE DEF C, D
  <2> QED BY <1>1, <1>3, <1>4, PrecedesOrders
<1> QED BY <1>1, <1>5 DEF Lower

\* Further down the list.
LEMMA ListsLower ==
  ASSUME NEW s, SessionsAre(s), NEW M \in SUBSET DOMAIN s,
         NEW before \in PlaceOrNone, NEW next \in Place, Lower(next, before) \/ next = before,
         NEW L, ListsOnce(s, M, before, L)
  PROVE  ListsOnce(s, M, next, L)
<1> SUFFICES ASSUME NEW m \in DOMAIN L, NEW i \in L[m] \cap M
             PROVE  ~Lower(PlaceIn(s, ChainIn(s, M, i)), next)
  BY DEF ListsOnce
<1>1. ~Lower(PlaceIn(s, ChainIn(s, M, i)), before)
  BY DEF ListsOnce
<1>2. ChainIn(s, M, i) \in SUBSET DOMAIN s /\ ChainIn(s, M, i) # {}
  BY ChainsPartition
<1>3. PlaceIn(s, ChainIn(s, M, i)) \in Place
  BY <1>2, PlaceIs
<1>4. next # None /\ before \in Place
  BY <1>1, NoneAssumption DEF Lower, PlaceOrNone, Place
<1> QED BY <1>1, <1>3, <1>4, PrecedesOrders DEF Lower

\* Chains that were still to come are added.
LEMMA ListsExtend ==
  ASSUME NEW s, SessionsAre(s), NEW M \in SUBSET DOMAIN s,
         NEW before \in PlaceOrNone, NEW next \in Place, Lower(next, before),
         NEW L, ListsOnce(s, M, before, L),
         NEW A \in Seq(SUBSET DOMAIN s), Disjoint(A),
         \A m \in DOMAIN A : \E i \in M :
           /\ A[m] = ChainIn(s, M, i)
           /\ Lower(PlaceIn(s, A[m]), before) /\ ~Precedes(PlaceIn(s, A[m]), next)
  PROVE  ListsOnce(s, M, next, L \o A)
<1> DEFINE S == SUBSET DOMAIN s
           q == L \o A
<1>1. L \in Seq(S) /\ ListsOnce(s, M, next, L)
  BY ListsLower DEF ListsOnce
<1>2. /\ q \in Seq(S) /\ Len(L) \in Nat /\ DOMAIN L = 1 .. Len(L)
      /\ DOMAIN q \subseteq Nat
      /\ \A n \in DOMAIN q :
           \/ n \in DOMAIN L /\ q[n] = L[n]
           \/ n > Len(L) /\ n - Len(L) \in DOMAIN A /\ q[n] = A[n - Len(L)]
  <2> HIDE DEF S
  <2>1. A \in Seq(S)
    BY DEF S
  <2> QED BY <1>1, <2>1, Concatenated
<1>3. next # None
  BY NoneAssumption DEF Place
<1>4. ASSUME NEW m \in DOMAIN A, NEW i \in A[m] \cap M
      PROVE  /\ ~Lower(PlaceIn(s, ChainIn(s, M, i)), next)
             /\ Lower(PlaceIn(s, ChainIn(s, M, i)), before)
  <2>1. PICK j \in M : /\ A[m] = ChainIn(s, M, j)
                       /\ Lower(PlaceIn(s, A[m]), before) /\ ~Precedes(PlaceIn(s, A[m]), next)
    OBVIOUS
  <2>2. ChainIn(s, M, i) = A[m]
    BY <2>1, ChainsPartition
  <2> QED BY <2>1, <2>2, <1>3 DEF Lower
<1>5. \A m \in DOMAIN A : A[m] \subseteq M
  BY ChainsPartition
<1>6. ASSUME NEW m \in DOMAIN L, NEW n \in DOMAIN A
      PROVE  L[m] \cap A[n] = {}
  BY <1>4, <1>5 DEF ListsOnce
<1>7. Disjoint(q)
  <2> SUFFICES ASSUME NEW m \in DOMAIN q, NEW n \in DOMAIN q, m < n
               PROVE  q[m] \cap q[n] = {}
    BY DEF Disjoint
  <2> HIDE DEF q
  <2>1. m \in Nat /\ n \in Nat
    BY <1>2
  <2>2. CASE m \in DOMAIN L /\ n \in DOMAIN L /\ q[m] = L[m] /\ q[n] = L[n]
    BY <2>2, <1>1 DEF ListsOnce, Disjoint
  <2>3. CASE m \in DOMAIN L /\ q[m] = L[m] /\ n - Len(L) \in DOMAIN A /\ q[n] = A[n - Len(L)]
    BY <2>3, <1>6
  <2>4. CASE /\ m > Len(L) /\ m - Len(L) \in DOMAIN A /\ q[m] = A[m - Len(L)]
             /\ n > Len(L) /\ n - Len(L) \in DOMAIN A /\ q[n] = A[n - Len(L)]
    BY <1>2, <2>1, <2>4 DEF Disjoint
  <2>5. CASE m > Len(L) /\ n \in DOMAIN L
    BY <2>5, <2>1, <1>2
  <2> QED BY <1>2, <2>2, <2>3, <2>4, <2>5
<1>8. ASSUME NEW m \in DOMAIN q, NEW i \in q[m] \cap M
      PROVE  ~Lower(PlaceIn(s, ChainIn(s, M, i)), next)
  <2>1. CASE m \in DOMAIN L /\ q[m] = L[m]
    BY <2>1, <1>1 DEF ListsOnce
  <2>2. CASE m - Len(L) \in DOMAIN A /\ q[m] = A[m - Len(L)]
    BY <2>2, <1>4
  <2> QED BY <1>2, <2>1, <2>2
<1> QED BY <1>2, <1>7, <1>8 DEF ListsOnce

\* Leaving some of them out.
LEMMA ListsFewer ==
  ASSUME NEW s, NEW M, NEW before, NEW L \in Seq(SUBSET DOMAIN s),
         NEW A \in Seq(SUBSET DOMAIN s), NEW B \in Seq(SUBSET DOMAIN s), Within(A, B),
         ListsOnce(s, M, before, L \o B)
  PROVE  ListsOnce(s, M, before, L \o A)
<1>1. Within(L \o A, L \o B) /\ L \o A \in Seq(SUBSET DOMAIN s)
  BY WithinConcat
<1>5. Disjoint(L \o A)
  <2> SUFFICES ASSUME NEW m \in DOMAIN (L \o A), NEW n \in DOMAIN (L \o A), m < n
               PROVE  (L \o A)[m] \cap (L \o A)[n] = {}
    BY DEF Disjoint
  <2>1. PICK k \in DOMAIN (L \o B), l \in DOMAIN (L \o B) :
           k < l /\ (L \o A)[m] = (L \o B)[k] /\ (L \o A)[n] = (L \o B)[l]
    BY <1>1 DEF Within
  <2>2. (L \o B)[k] \cap (L \o B)[l] = {}
    BY <2>1 DEF ListsOnce, Disjoint
  <2> QED BY <2>1, <2>2
<1>6. ASSUME NEW m \in DOMAIN (L \o A), NEW i \in (L \o A)[m] \cap M
      PROVE  ~Lower(PlaceIn(s, ChainIn(s, M, i)), before)
  <2>1. PICK k \in DOMAIN (L \o B) : (L \o A)[m] = (L \o B)[k]
    BY <1>1 DEF Within
  <2> QED BY <2>1 DEF ListsOnce
<1> QED BY <1>1, <1>5, <1>6 DEF ListsOnce
-----------------------------------------------------------------------------
(* The operators of Chains. *)

LEMMA ScriptIs ==
  ASSUME script \in Scripts
  PROVE  /\ SessionsAre(Sessions)
         /\ script.early \in Int /\ 0 <= script.early /\ script.early <= Len(Sessions)
         /\ script.asks.of \in {"chains", "members", "sessions"}
         /\ Searching \in BOOLEAN /\ script.oldestFirst \in BOOLEAN /\ script.asks.pinned \in BOOLEAN
BY ScriptsAssumption DEF SessionsAre, Sessions, Searching

PlaceOf(s, i) == [start |-> s[i].start, id |-> i]

LEMMA Links ==
  /\ \A i, j : Earlier(i, j) <=> BeforeIn(Sessions, i, j)
  /\ \A V, n : Visible(V, n) = VisibleIn(Sessions, V, n)
  /\ \A M, i : ChainOf(M, i) = ChainIn(Sessions, M, i)
  /\ \A C, n : Summary(C, n) = SummaryIn(Sessions, C, n)
  /\ \A i : PositionOf(i) = PlaceOf(Sessions, i)
<1>1. \A i, j : Earlier(i, j) <=> BeforeIn(Sessions, i, j)
  BY DEF Earlier, BeforeIn
<1>2. \A i, j : SameKey(i, j) <=> SameIn(Sessions, i, j)
  BY DEF SameKey, SameIn
<1>3. \A M, i : Opens(M, i) <=> OpensIn(Sessions, M, i)
  BY <1>1, <1>2 DEF Opens, OpensIn
<1>4. \A M, i : {k \in M : SameKey(k, i) /\ Opens(M, k) /\ ~Earlier(i, k)}
                = OpeningsIn(Sessions, M, i)
  BY <1>1, <1>2, <1>3 DEF OpeningsIn
<1>5. \A M, i : ChainStart(M, i) = StartIn(Sessions, M, i)
  BY <1>4 DEF ChainStart, StartIn
<1>6. \A M, i : ChainOf(M, i) = ChainIn(Sessions, M, i)
  BY <1>2, <1>5 DEF ChainOf, ChainIn
<1>7. \A C, n : Summary(C, n) = SummaryIn(Sessions, C, n)
  BY DEF Summary, SummaryIn, StartsOf
<1>8. \A V, n : Visible(V, n) = VisibleIn(Sessions, V, n)
  BY DEF Visible, VisibleIn
<1>9. \A i : PositionOf(i) = PlaceOf(Sessions, i)
  BY DEF PositionOf, PlaceOf
<1> QED BY <1>1, <1>6, <1>7, <1>8, <1>9

SummariesOf(s) ==
  [id : Int, key : {s[i].key : i \in DOMAIN s}, members : SUBSET DOMAIN s, snapshot : Int,
   start : Int, last : Int]

\* c is the summary of a chain of M.
IsSummary(s, M, n, c) == \E i \in M : c = SummaryIn(s, ChainIn(s, M, i), n)

LEMMA LastStart ==
  ASSUME NEW s, SessionsAre(s), NEW C \in SUBSET DOMAIN s, C # {}
  PROVE  /\ \E j \in C : Max(StartsOf(s, C)) = s[j].start
         /\ \A j \in C : s[j].start <= Max(StartsOf(s, C))
<1> DEFINE f == [j \in C |-> s[j].start]
           T == {f[j] : j \in C}
<1>1. T \in SUBSET Int /\ T # {}
  BY DEF SessionsAre
<1>2. IsFiniteSet(C)
  BY PairsOrder
<1>3. IsFiniteSet(T)
  <2> HIDE DEF f
  <2> QED BY <1>2, ImageIsFinite
<1>4. Max(T) \in T /\ \A x \in T : x <= Max(T)
  <2> HIDE DEF T
  <2> QED BY <1>1, <1>3, MaxIs
<1>5. T = StartsOf(s, C)
  BY DEF StartsOf
<1> QED BY <1>4, <1>5

LEMMA SummaryIs ==
  ASSUME NEW s, SessionsAre(s), NEW M \in SUBSET DOMAIN s, NEW n,
         NEW c, IsSummary(s, M, n, c)
  PROVE  /\ n \in Int => c \in SummariesOf(s)
         /\ c.id \in M
         /\ c.members # {} /\ c.members \subseteq M /\ c.snapshot = n
         /\ Position(c) \in Place
<1>1. PICK i \in M : c = SummaryIn(s, ChainIn(s, M, i), n)
  BY DEF IsSummary
<1> DEFINE C == ChainIn(s, M, i)
<1>2. C # {} /\ C \subseteq M /\ C \in SUBSET DOMAIN s
  BY ChainsPartition
<1>3. /\ Min(C) \in C /\ PlaceIn(s, C) \in Place
      /\ PlaceIn(s, C) = [start |-> Min(StartsOf(s, C)), id |-> Min(C)]
  <2>1. Min(C) \in C /\ PlaceIn(s, C) \in Place
    <3> HIDE DEF C
    <3> QED BY <1>2, PlaceIs
  <2> QED BY <2>1 DEF PlaceIn
<1> DEFINE low == Min(StartsOf(s, C))
           high == Max(StartsOf(s, C))
<1>7. high \in Int
  <2> HIDE DEF C
  <2>1. PICK j \in C : high = s[j].start
    BY <1>2, LastStart
  <2> QED BY <1>2, <2>1 DEF SessionsAre
<1>8. low \in Int /\ Min(C) \in Int /\ s[Min(C)].key \in {s[j].key : j \in DOMAIN s}
  BY <1>2, <1>3 DEF Place
<1>9. c = [id |-> Min(C), key |-> s[Min(C)].key, members |-> C, snapshot |-> n,
           start |-> low, last |-> high]
  BY <1>1 DEF SummaryIn
<1> HIDE DEF low, high
<1>10. /\ c.id = Min(C) /\ c.key = s[Min(C)].key /\ c.members = C /\ c.snapshot = n
       /\ c.start = low /\ c.last = high
  BY <1>9
<1>11. n \in Int => c \in SummariesOf(s)
  BY <1>2, <1>7, <1>8, <1>9 DEF SummariesOf
<1>12. Position(c) = PlaceIn(s, C)
  BY <1>3, <1>10 DEF Position, low
<1> HIDE DEF C
<1> QED BY <1>2, <1>3, <1>10, <1>11, <1>12

\* It is listed under the place of its members.
LEMMA SummaryPlace ==
  ASSUME NEW s, NEW M, NEW n, NEW c, IsSummary(s, M, n, c)
  PROVE  PlaceIn(s, c.members) = Position(c) /\ Min(c.members) = c.id
<1>1. PICK i \in M : c = SummaryIn(s, ChainIn(s, M, i), n)
  BY DEF IsSummary
<1> DEFINE C == ChainIn(s, M, i)
<1>2. /\ c.id = Min(C) /\ c.members = C
      /\ c.start = Min(StartsOf(s, C))
  BY <1>1 DEF SummaryIn
<1> HIDE DEF C
<1> QED BY <1>2 DEF PlaceIn, Position

LEMMA SummaryChain ==
  ASSUME NEW s, SessionsAre(s), NEW M \in SUBSET DOMAIN s, NEW n, NEW c, IsSummary(s, M, n, c)
  PROVE  ChainIn(s, M, c.id) = c.members
<1>1. PICK i \in M : c = SummaryIn(s, ChainIn(s, M, i), n)
  BY DEF IsSummary
<1> DEFINE C == ChainIn(s, M, i)
<1>2. c.id = Min(C) /\ c.members = C
  BY <1>1 DEF SummaryIn
<1>3. Min(C) \in C
  <2>1. C \in SUBSET DOMAIN s /\ C # {}
    BY ChainsPartition
  <2> HIDE DEF C
  <2> QED BY <2>1, PlaceIs
<1> QED BY <1>2, <1>3, ChainsPartition

\* What meets the filter in the chains below a position.
MeetingBelow(s, M, before) ==
  {i \in M : s[i].meets /\ Lower(PlaceIn(s, ChainIn(s, M, i)), before)}
Meets(s, C) == \E i \in C : s[i].meets
Holds(q, C) == \E m \in DOMAIN q : q[m].members = C

\* The chains of a page, newest first and below a position.
LEMMA SummariesSorted ==
  ASSUME script \in Scripts, NEW V \in SUBSET DOMAIN Sessions, NEW n \in Int,
         NEW before \in PlaceOrNone, NEW M, M = VisibleIn(Sessions, V, n),
         NEW q, q = Summaries(V, n, before)
  PROVE  /\ q \in Seq(SummariesOf(Sessions))
         /\ \A m \in DOMAIN q : IsSummary(Sessions, M, n, q[m]) /\ Lower(Position(q[m]), before)
         /\ \A k, l \in DOMAIN q : k < l => Precedes(Position(q[l]), Position(q[k]))
         /\ \A i \in MeetingBelow(Sessions, M, before) : Holds(q, ChainIn(Sessions, M, i))
         /\ \A m \in DOMAIN q : Meets(Sessions, q[m].members)
<1> DEFINE s == Sessions
           J == {j \in M : s[j].meets}
           f == [i \in J |-> SummaryIn(s, ChainIn(s, M, i), n)]
           All == {f[i] : i \in J}
           S == {c \in All : before = None \/ Precedes(c, before)}
           R == {p \in S \X S : Precedes(p[2], p[1])}
<1> HIDE DEF s
<1>1. SessionsAre(s) /\ M \in SUBSET DOMAIN s
  BY ScriptIs DEF VisibleIn, s
<1>2. IsFiniteSet(S)
  <2>1. J \in SUBSET DOMAIN s
    BY <1>1
  <2>2. IsFiniteSet(J)
    BY <1>1, <2>1, PairsOrder
  <2>3. IsFiniteSet(All)
    <3> HIDE DEF J, f
    <3> QED BY <2>2, ImageIsFinite
  <2>4. S \in SUBSET All
    OBVIOUS
  <2> HIDE DEF All, S
  <2> QED BY <2>3, <2>4, FS_Subset
<1>3. \A c \in S : IsSummary(s, M, n, c)
  BY DEF IsSummary
<1>4. \A c \in S : /\ c \in SummariesOf(s) /\ Position(c) \in Place /\ Lower(Position(c), before)
                   /\ c.id \in M
  <2> TAKE c \in S
  <2>1. c \in SummariesOf(s) /\ Position(c) \in Place /\ c.id \in M
    <3>1. IsSummary(s, M, n, c)
      BY <1>3
    <3>2. \A d : IsSummary(s, M, n, d) =>
                  d \in SummariesOf(s) /\ Position(d) \in Place /\ d.id \in M
      BY <1>1, SummaryIs
    <3> HIDE DEF S, All, f, J, R
    <3> QED BY <3>1, <3>2
  <2>2. before = None \/ Precedes(c, before)
    OBVIOUS
  <2>3. Lower(Position(c), before)
    BY <2>2 DEF Lower, Position, Precedes
  <2> QED BY <2>1, <2>3
<1>5. \A c, d \in S : c.id = d.id => c = d
  <2> TAKE c, d \in S
  <2> HAVE c.id = d.id
  <2>1. c.members = ChainIn(s, M, c.id) /\ d.members = ChainIn(s, M, d.id)
    <3>1. IsSummary(s, M, n, c) /\ IsSummary(s, M, n, d)
      BY <1>3
    <3>2. \A e : IsSummary(s, M, n, e) => ChainIn(s, M, e.id) = e.members
      BY <1>1, SummaryChain
    <3> HIDE DEF S, All, f, J, R
    <3> QED BY <3>1, <3>2
  <2>2. PICK i \in J, j \in J : /\ c = SummaryIn(s, ChainIn(s, M, i), n)
                                /\ d = SummaryIn(s, ChainIn(s, M, j), n)
    OBVIOUS
  <2>3. c.members = ChainIn(s, M, i) /\ d.members = ChainIn(s, M, j)
    BY <2>2 DEF SummaryIn
  <2> QED BY <2>1, <2>2, <2>3
<1>6. \A c, d \in S : Precedes(d, c) <=> Precedes(Position(d), Position(c))
  BY DEF Precedes, Position
<1>7. \A c, d \in S : Position(c) = Position(d) => c = d
  BY <1>5 DEF Position
<1>8. Orders(R, S)
  <2>1. \A c \in S : <<c, c>> \notin R
    <3> TAKE c \in S
    <3>1. ~Precedes(c, c)
      BY <1>4, <1>6, PrecedesOrders
    <3> QED BY <3>1
  <2>2. \A c, d \in S : c # d => <<c, d>> \in R \/ <<d, c>> \in R
    <3> TAKE c, d \in S
    <3> HAVE c # d
    <3>1. Precedes(c, d) \/ Precedes(d, c)
      BY <1>4, <1>6, <1>7, PrecedesOrders
    <3> QED BY <3>1
  <2>3. \A c, d, e \in S : <<c, d>> \in R /\ <<d, e>> \in R => <<c, e>> \in R
    <3> TAKE c, d, e \in S
    <3> HAVE <<c, d>> \in R /\ <<d, e>> \in R
    <3>1. Precedes(d, c) /\ Precedes(e, d)
      OBVIOUS
    <3>2. Precedes(e, c)
      BY <3>1, <1>4, <1>6, PrecedesOrders, ZenonT(60)
    <3> QED BY <3>2
  <2> HIDE DEF R, S
  <2> QED BY <2>1, <2>2, <2>3 DEF Orders
<1>9. q = [k \in 1 .. Cardinality(S) |->
             CHOOSE x \in S : Cardinality({y \in S : Precedes(x, y)}) = k - 1]
  <2> DEFINE K == {j \in Visible(V, n) : Sessions[j].meets}
             T == {c \in {Summary(ChainOf(Visible(V, n), i), n) : i \in K} :
                     before = None \/ Precedes(c, before)}
  <2>1. M = Visible(V, n)
    BY Links
  <2>2. K = J
    BY <2>1 DEF s
  <2>3. \A i : Summary(ChainOf(Visible(V, n), i), n) = SummaryIn(s, ChainIn(s, M, i), n)
    BY <2>1, Links DEF s
  <2>4. {Summary(ChainOf(Visible(V, n), i), n) : i \in K} = All
    <3> HIDE DEF K, J
    <3> QED BY <2>2, <2>3
  <2>5. T = S
    <3> HIDE DEF K, All
    <3> QED BY <2>4
  <2>6. q = [k \in 1 .. Cardinality(T) |->
               CHOOSE x \in T : Cardinality({y \in T : Precedes(x, y)}) = k - 1]
    BY DEF Summaries, Sorted
  <2> HIDE DEF S, T
  <2> QED BY <2>5, <2>6
<1>10. \A x \in S : {y \in S : Precedes(x, y)} = {y \in S : <<y, x>> \in R}
  OBVIOUS
<1>11. Enumerates(q, R, S)
  <2> HIDE DEF S, R
  <2>2. ASSUME NEW k \in 1 .. Cardinality(S)
        PROVE  q[k] \in S /\ Rank(R, S, q[k]) = k - 1
    <3>1. \E x \in S : Rank(R, S, x) = k - 1
      BY <1>2, <1>8, Ranks
    <3>2. \E x \in S : Cardinality({y \in S : Precedes(x, y)}) = k - 1
      BY <3>1, <1>10 DEF Rank
    <3>3. q[k] = CHOOSE x \in S : Cardinality({y \in S : Precedes(x, y)}) = k - 1
      BY <1>9
    <3>4. q[k] \in S /\ Cardinality({y \in S : Precedes(q[k], y)}) = k - 1
      BY <3>2, <3>3
    <3> QED BY <3>4, <1>10 DEF Rank
  <2>3. q \in [1 .. Cardinality(S) -> S]
    BY <2>2, <1>9
  <2> QED BY <2>2, <2>3, <1>2, <1>8, ByRank
<1>12. q \in Seq(SummariesOf(s))
  <2>1. q \in Seq(S) /\ S \subseteq SummariesOf(s)
    BY <1>4, <1>11 DEF Enumerates
  <2> HIDE DEF S
  <2> QED BY <2>1, SeqMonotonic
<1>13. \A m \in DOMAIN q : IsSummary(s, M, n, q[m]) /\ Lower(Position(q[m]), before)
  BY <1>3, <1>4, <1>11 DEF Enumerates
<1>14. \A k, l \in DOMAIN q : k < l => Precedes(Position(q[l]), Position(q[k]))
  <2> TAKE k, l \in DOMAIN q
  <2> HAVE k < l
  <2>1. <<q[k], q[l]>> \in R /\ q[k] \in S /\ q[l] \in S
    BY <1>11 DEF Enumerates
  <2>2. Precedes(q[l], q[k])
    BY <2>1
  <2> HIDE DEF S, R
  <2> QED BY <2>1, <2>2, <1>6
<1>15. ASSUME NEW i \in M, s[i].meets, Lower(PlaceIn(s, ChainIn(s, M, i)), before)
       PROVE  \E m \in DOMAIN q : q[m].members = ChainIn(s, M, i)
  <2>1. i \in J /\ f[i] \in All /\ f[i] = SummaryIn(s, ChainIn(s, M, i), n)
    BY <1>15
  <2>2. f[i].members = ChainIn(s, M, i)
    BY <2>1 DEF SummaryIn
  <2>3. IsSummary(s, M, n, f[i])
    BY <2>1 DEF IsSummary
  <2>4. Position(f[i]) = PlaceIn(s, ChainIn(s, M, i))
    <3>1. \A d : IsSummary(s, M, n, d) => Position(d) = PlaceIn(s, d.members)
      BY SummaryPlace
    <3> HIDE DEF f, S, All, J, R
    <3> QED BY <2>2, <2>3, <3>1
  <2>5. before = None \/ Precedes(f[i], before)
    BY <2>4, <1>15 DEF Lower, Position, Precedes
  <2>6. f[i] \in S
    BY <2>1, <2>5
  <2> HIDE DEF f, S
  <2> QED BY <2>2, <2>6, <1>11 DEF Enumerates
<1>16. ASSUME NEW m \in DOMAIN q
       PROVE  \E i \in q[m].members : s[i].meets
  <2>1. q[m] \in S
    BY <1>11 DEF Enumerates
  <2>2. PICK i \in J : q[m] = SummaryIn(s, ChainIn(s, M, i), n)
    BY <2>1
  <2>3. i \in q[m].members
    BY <2>2, ChainsPartition DEF SummaryIn
  <2> QED BY <2>3
<1> QED BY <1>12, <1>13, <1>14, <1>15, <1>16 DEF s, MeetingBelow, Meets, Holds
\* Sessions in the order of their capture.
LEMMA InOrderIs ==
  ASSUME script \in Scripts, NEW M \in SUBSET DOMAIN Sessions
  PROVE  Enumerates(InOrder(M), Pairs(Sessions, M), M)
<1> DEFINE R == Pairs(Sessions, M)
           q == InOrder(M)
<1>1. IsFiniteSet(M) /\ Orders(R, M)
  BY ScriptIs, PairsOrder
<1>2. q = [k \in 1 .. Cardinality(M) |->
             CHOOSE x \in M : Cardinality({y \in M : Earlier(y, x)}) = k - 1]
  BY DEF InOrder, Sorted
<1>3. \A x \in M : {y \in M : Earlier(y, x)} = {y \in M : <<y, x>> \in R}
  <2> TAKE x \in M
  <2>1. \A y \in M : Earlier(y, x) <=> <<y, x>> \in R
    BY Links DEF Pairs
  <2> HIDE DEF R
  <2> QED BY <2>1
<1> HIDE DEF R, q
<1>5. ASSUME NEW k \in 1 .. Cardinality(M)
      PROVE  q[k] \in M /\ Rank(R, M, q[k]) = k - 1
  <2>1. \E x \in M : Rank(R, M, x) = k - 1
    BY <1>1, Ranks
  <2>2. \E x \in M : Cardinality({y \in M : Earlier(y, x)}) = k - 1
    BY <2>1, <1>3 DEF Rank
  <2>3. q[k] = CHOOSE x \in M : Cardinality({y \in M : Earlier(y, x)}) = k - 1
    BY <1>2
  <2>4. q[k] \in M /\ Cardinality({y \in M : Earlier(y, q[k])}) = k - 1
    BY <2>2, <2>3
  <2> QED BY <2>4, <1>3 DEF Rank
<1>4. q \in [1 .. Cardinality(M) -> M]
  BY <1>2, <1>5
<1>6. Enumerates(q, R, M)
  BY <1>1, <1>4, <1>5, ByRank
<1> QED BY <1>6 DEF q, R

\* Rows, the newest first.
RowsBelow(below) ==
  {i \in Visible(Retained, persisted) : Sessions[i].meets /\ (below = None \/ i < below.id)}

LEMMA RowsIs ==
  ASSUME script \in Scripts, Retained \in SUBSET DOMAIN Sessions, NEW below,
         NEW S, S = RowsBelow(below)
  PROVE  Enumerates(Rows(below), Downwards(S), S)
<1> DEFINE R == Downwards(S)
           q == Rows(below)
<1>1. S \in SUBSET DOMAIN Sessions
  BY DEF RowsBelow, Visible
<1>2. S \in SUBSET Int
  BY <1>1, ScriptIs DEF SessionsAre
<1>3. IsFiniteSet(S) /\ Orders(R, S)
  BY <1>1, <1>2, ScriptIs, PairsOrder, NumbersOrder
<1>4. q = [k \in 1 .. Cardinality(S) |->
             CHOOSE x \in S : Cardinality({y \in S : y > x}) = k - 1]
  BY DEF Rows, Sorted, RowsBelow
<1>5. \A x \in S : {y \in S : y > x} = {y \in S : <<y, x>> \in R}
  <2> TAKE x \in S
  <2>1. \A y \in S : y > x <=> <<y, x>> \in R
    BY DEF Downwards
  <2> HIDE DEF R
  <2> QED BY <2>1
<1> HIDE DEF R, q
<1>7. ASSUME NEW k \in 1 .. Cardinality(S)
      PROVE  q[k] \in S /\ Rank(R, S, q[k]) = k - 1
  <2>1. \E x \in S : Rank(R, S, x) = k - 1
    BY <1>3, Ranks
  <2>2. \E x \in S : Cardinality({y \in S : y > x}) = k - 1
    BY <2>1, <1>5 DEF Rank
  <2>3. q[k] = CHOOSE x \in S : Cardinality({y \in S : y > x}) = k - 1
    BY <1>4
  <2>4. q[k] \in S /\ Cardinality({y \in S : y > q[k]}) = k - 1
    BY <2>2, <2>3
  <2> QED BY <2>4, <1>5 DEF Rank
<1>6. q \in [1 .. Cardinality(S) -> S]
  BY <1>4, <1>7
<1>8. Enumerates(q, R, S)
  BY <1>3, <1>6, <1>7, ByRank
<1> QED BY <1>8 DEF q, R

LEMMA PrefixIs ==
  ASSUME NEW T, NEW q \in Seq(T), NEW n \in Nat
  PROVE  /\ Prefix(q, n) \in Seq(T) /\ Len(Prefix(q, n)) \in Nat
         /\ DOMAIN Prefix(q, n) = 1 .. Len(Prefix(q, n))
         /\ Len(Prefix(q, n)) <= n
         /\ n <= Len(q) => Len(Prefix(q, n)) = n
         /\ Len(q) <= n => Prefix(q, n) = q
         /\ \A k \in DOMAIN Prefix(q, n) : k \in DOMAIN q /\ Prefix(q, n)[k] = q[k]
<1> PICK len \in Nat : len = Len(q)
  BY LenProperties
<1>1. DOMAIN q = 1 .. len /\ \A k \in 1 .. len : q[k] \in T
  BY LenProperties
<1> DEFINE m == IF n < len THEN n ELSE len
<1>2. m \in Nat /\ m <= len /\ m <= n
  OBVIOUS
<1>3. Prefix(q, n) = SubSeq(q, 1, m)
  BY DEF Prefix
<1>4. /\ SubSeq(q, 1, m) \in Seq(T)
      /\ Len(SubSeq(q, 1, m)) = m
      /\ \A k \in 1 .. m : SubSeq(q, 1, m)[k] = q[k]
  <2>1. \A k \in 1 .. m : q[k] \in T
    BY <1>1, <1>2
  <2>2. /\ SubSeq(q, 1, m) \in Seq(T)
        /\ Len(SubSeq(q, 1, m)) = IF 1 <= m THEN m - 1 + 1 ELSE 0
        /\ \A k \in 1 .. m - 1 + 1 : SubSeq(q, 1, m)[k] = q[1 + k - 1]
    <3> HIDE DEF m
    <3> QED BY <1>2, <2>1, SubSeqProperties
  <2> HIDE DEF m
  <2>3. m - 1 + 1 = m /\ \A k \in 1 .. m : 1 + k - 1 = k
    BY <1>2
  <2>4. (IF 1 <= m THEN m - 1 + 1 ELSE 0) = m
    BY <1>2
  <2> QED BY <2>2, <2>3, <2>4
<1>5. DOMAIN SubSeq(q, 1, m) = 1 .. m
  <2> HIDE DEF m
  <2> QED BY <1>4, LenProperties
<1>6. len <= n => SubSeq(q, 1, m) = q
  BY SubSeqFull
<1>7. n <= len => m = n
  OBVIOUS
<1> HIDE DEF m
<1> QED BY <1>1, <1>2, <1>3, <1>4, <1>5, <1>6, <1>7

\* The elements at some places, in their order.
LEMMA PickedIs ==
  ASSUME NEW T, NEW q \in Seq(T), NEW places \in SUBSET DOMAIN q
  PROVE  /\ Picked(q, places) \in Seq(T) /\ DOMAIN Picked(q, places) \subseteq Nat
         /\ Within(Picked(q, places), q)
         /\ \A k \in places : \E n \in DOMAIN Picked(q, places) : Picked(q, places)[n] = q[k]
         /\ \A n \in DOMAIN Picked(q, places) : \E k \in places : Picked(q, places)[n] = q[k]
<1> DEFINE R == Upwards(places)
           order == [k \in 1 .. Cardinality(places) |->
             CHOOSE x \in places : Cardinality({y \in places : y < x}) = k - 1]
<1>1. DOMAIN q = 1 .. Len(q) /\ Len(q) \in Nat
  BY LenProperties
<1>2. IsFiniteSet(places) /\ Orders(R, places)
  <2>1. IsFiniteSet(DOMAIN q)
    BY <1>1, FS_Interval
  <2>2. places \in SUBSET Int
    BY <1>1
  <2> QED BY <2>1, <2>2, FS_Subset, NumbersOrder
<1>3. \A x \in places : {y \in places : y < x} = {y \in places : <<y, x>> \in R}
  <2> TAKE x \in places
  <2>1. \A y \in places : y < x <=> <<y, x>> \in R
    BY DEF Upwards
  <2> HIDE DEF R
  <2> QED BY <2>1
<1>4. Picked(q, places) = [n \in DOMAIN order |-> q[order[n]]]
  BY DEF Picked, Sorted
<1>6. ASSUME NEW k \in 1 .. Cardinality(places)
      PROVE  order[k] \in places /\ Rank(R, places, order[k]) = k - 1
  <2>3. order[k] = CHOOSE x \in places : Cardinality({y \in places : y < x}) = k - 1
    OBVIOUS
  <2> HIDE DEF R, order
  <2>1. \E x \in places : Rank(R, places, x) = k - 1
    BY <1>2, Ranks
  <2>2. \E x \in places : Cardinality({y \in places : y < x}) = k - 1
    BY <2>1, <1>3 DEF Rank
  <2>4. order[k] \in places /\ Cardinality({y \in places : y < order[k]}) = k - 1
    BY <2>2, <2>3
  <2> QED BY <2>4, <1>3 DEF Rank
<1>5. order \in [1 .. Cardinality(places) -> places]
  BY <1>6
<1>7. Enumerates(order, R, places)
  <2> HIDE DEF R, order
  <2> QED BY <1>2, <1>5, <1>6, ByRank
<1> HIDE DEF order
<1>8. /\ Len(order) \in Nat /\ DOMAIN order = 1 .. Len(order)
      /\ \A n \in DOMAIN order : order[n] \in places
      /\ \A x \in places : \E n \in DOMAIN order : order[n] = x
  BY <1>7 DEF Enumerates
<1>9. \A m, n \in DOMAIN order : m < n => order[m] < order[n]
  <2> TAKE m, n \in DOMAIN order
  <2> HAVE m < n
  <2>1. <<order[m], order[n]>> \in R
    BY <1>7 DEF Enumerates
  <2> QED BY <2>1 DEF Upwards
<1>10. \A k \in DOMAIN q : q[k] \in T
  BY <1>1, ElementOfSeq
<1>11. Picked(q, places) \in Seq(T)
  <2> PICK len \in Nat : len = Len(order)
    BY <1>8
  <2>1. Picked(q, places) \in [1 .. len -> T]
    BY <1>4, <1>8, <1>10
  <2> QED BY <2>1, SMTT(30)
<1>12. /\ DOMAIN Picked(q, places) = DOMAIN order
       /\ \A n \in DOMAIN order : Picked(q, places)[n] = q[order[n]]
  BY <1>4
<1>13. Within(Picked(q, places), q)
  <2>1. ASSUME NEW m \in DOMAIN order, NEW n \in DOMAIN order, m < n
        PROVE  \E k, l \in DOMAIN q :
                 k < l /\ Picked(q, places)[m] = q[k] /\ Picked(q, places)[n] = q[l]
    BY <2>1, <1>8, <1>9, <1>12
  <2>2. ASSUME NEW m \in DOMAIN order
        PROVE  \E k \in DOMAIN q : Picked(q, places)[m] = q[k]
    BY <1>8, <1>12
  <2> QED BY <2>1, <2>2, <1>12 DEF Within
<1> QED BY <1>8, <1>11, <1>12, <1>13
-----------------------------------------------------------------------------
(* The cursor of a listing of chains, and the search for a page of it.      *)

Cursors(s, top) ==
  [at : {"list"}, snapshot : 0 .. top, before : PlaceOrNone,
   search : [chain : DOMAIN s, after : PlaceOrNone] \cup {None}]

\* The chain whose search is to go on is named by its lowest id, and is still
\* to come if it is there at all.
PendingKnown(s, V, c) ==
  c.search # None =>
    LET i == c.search.chain
        C == ChainIn(s, VisibleIn(s, V, c.snapshot), i)
    IN  /\ i <= c.snapshot /\ s[i].shown
        /\ i \in V => (\A j \in C : i <= j) /\ Lower(PlaceIn(s, C), c.before)

\* Of the sessions up to n, W has no new ones, and lacks the lowest of V only.
Outlives(V, W, n) ==
  /\ \A i \in W : i <= n => i \in V
  /\ \A i \in W, j \in V : i <= j /\ j <= n => j \in W

ListingIs(s, V, top, c, L) ==
  /\ L \in Seq(SUBSET DOMAIN s) /\ Disjoint(L)
  /\ c = First => L = <<>>
  /\ c \notin {First, Done} =>
       /\ c \in Cursors(s, top) /\ PendingKnown(s, V, c)
       /\ ListsOnce(s, VisibleIn(s, V, c.snapshot), c.before, L)

\* How far a cursor has got since the one that was sent.
Lowered(c, sent) == c.before # None /\ Lower(c.before, sent.before)

Fresh(sent, seen) == sent.search = None \/ sent.search.chain \notin seen

Further(sent, seen, chain, last) ==
  /\ last # None
  /\ \/ Fresh(sent, seen)
     \/ /\ sent.search.chain = chain
        /\ sent.search.after = None \/ Precedes(sent.search.after, last)

Advanced(c, sent, seen) ==
  \/ Lowered(c, sent)
  \/ /\ c.before = sent.before /\ c.search # None
     /\ Further(sent, seen, c.search.chain, c.search.after)

LookupGoes(c, sent, seen, scanned) ==
  \/ Advanced(c, sent, seen) /\ (c.search = None \/ c.search.chain \in seen)
  \/ /\ scanned = 0 /\ c.before = sent.before
     /\ c = sent \/ (c.search = None /\ Fresh(sent, seen))

ScanGoes(c, sent, seen, scanned, chain, last) ==
  \/ Lowered(c, sent)
  \/ /\ c.before = sent.before
     /\ \/ Further(sent, seen, chain, last)
        \/ /\ scanned = 0
           /\ Fresh(sent, seen) \/ (sent.search.chain = chain /\ last = sent.search.after)

\* The candidates that are left lie behind the last one, in order.
RestIs(s, rest, last) ==
  /\ \A m \in DOMAIN rest : last = None \/ Precedes(last, PlaceOf(s, rest[m]))
  /\ \A m, n \in DOMAIN rest : m < n => Precedes(PlaceOf(s, rest[m]), PlaceOf(s, rest[n]))

MembersOf(found) == [n \in DOMAIN found |-> found[n].members]

Searches(s, top, q) ==
  [at : {"lookup", "scan"}, seen : SUBSET (1 .. top), rule : {q.rule},
   sent : Cursors(s, top), cursor : Cursors(s, top), found : Seq(SummariesOf(s)),
   scanned : Nat, chain : {q.chain}, rest : Seq(DOMAIN s), last : PlaceOrNone,
   more : BOOLEAN]

ScanIs(s, q) ==
  /\ q.scanned + Len(q.rest) <= MaxCandidates
  /\ q.rest = <<>> => ~q.more
  /\ RestIs(s, q.rest, q.last)
  /\ IsSummary(s, VisibleIn(s, q.seen, q.cursor.snapshot), q.cursor.snapshot, q.chain)
  /\ Lower(Position(q.chain), q.cursor.before)
  /\ ScanGoes(q.cursor, q.sent, q.seen, q.scanned, q.chain.id, q.last)

SearchIs(s, V, top, q, L) ==
  /\ q \in Searches(s, top, q)
  /\ L \in Seq(SUBSET DOMAIN s)
  /\ Outlives(q.seen, V, q.cursor.snapshot)
  /\ q.sent.snapshot = q.cursor.snapshot
  /\ PendingKnown(s, q.seen, q.cursor)
  /\ ListsOnce(s, VisibleIn(s, q.seen, q.cursor.snapshot), q.cursor.before,
               L \o MembersOf(q.found))
  /\ q.at = "lookup" =>
       q.scanned < MaxCandidates /\ LookupGoes(q.cursor, q.sent, q.seen, q.scanned)
  /\ q.at = "scan" => ScanIs(s, q)

LEMMA VisibleOutlived ==
  ASSUME NEW s, NEW V, NEW W, NEW n, Outlives(V, W, n)
  PROVE  VisibleIn(s, W, n) \subseteq VisibleIn(s, V, n)
BY DEF Outlives, VisibleIn

\* A pending chain that has kept its lowest id has kept all its members: it
\* is where it was.
LEMMA PendingOutlived ==
  ASSUME NEW s, SessionsAre(s), NEW V \in SUBSET DOMAIN s, NEW W \in SUBSET DOMAIN s,
         NEW top \in Nat, NEW c \in Cursors(s, top), PendingKnown(s, V, c),
         Outlives(V, W, c.snapshot)
  PROVE  PendingKnown(s, W, c)
<1> SUFFICES ASSUME c.search # None, c.search.chain \in W
             PROVE  LET i == c.search.chain
                        D == ChainIn(s, VisibleIn(s, W, c.snapshot), i)
                    IN  (\A j \in D : i <= j) /\ Lower(PlaceIn(s, D), c.before)
  BY DEF PendingKnown
<1> DEFINE i == c.search.chain
           n == c.snapshot
           M == VisibleIn(s, V, n)
           N == VisibleIn(s, W, n)
           C == ChainIn(s, M, i)
           D == ChainIn(s, N, i)
<1>1. i <= n /\ s[i].shown /\ i \in V
  BY DEF PendingKnown, Outlives
<1>2. (\A j \in C : i <= j) /\ Lower(PlaceIn(s, C), c.before)
  BY <1>1 DEF PendingKnown
<1>3. M \in SUBSET DOMAIN s /\ N \in SUBSET M /\ i \in N
  BY <1>1, VisibleOutlived DEF VisibleIn
<1>4. C \subseteq N
  <2> SUFFICES ASSUME NEW j \in C
               PROVE  j \in N
    OBVIOUS
  <2>1. j \in M /\ i <= j
    BY <1>2 DEF ChainIn
  <2>2. j \in V /\ j <= n /\ s[j].shown
    BY <2>1 DEF VisibleIn
  <2>3. j \in W
    BY <2>1, <2>2 DEF Outlives
  <2> QED BY <2>2, <2>3 DEF VisibleIn
<1>5. D = C
  <2> HIDE DEF M, N
  <2> QED BY <1>3, <1>4, ChainKept
<1> QED BY <1>2, <1>5

LEMMA CursorsGrow ==
  ASSUME NEW s, NEW top \in Nat, NEW more \in Nat, top <= more
  PROVE  Cursors(s, top) \subseteq Cursors(s, more)
BY DEF Cursors

\* What the store does between two requests.
LEMMA ListingOutlived ==
  ASSUME NEW s, SessionsAre(s), NEW V \in SUBSET DOMAIN s, NEW W \in SUBSET DOMAIN s,
         NEW top \in Nat, NEW more \in Nat, top <= more,
         NEW c, NEW L, ListingIs(s, V, top, c, L),
         c \notin {First, Done} =>
           /\ \A i \in W : i <= c.snapshot => i \in V
           /\ c.search = None \/ Outlives(V, W, c.snapshot)
  PROVE  ListingIs(s, W, more, c, L)
<1> SUFFICES ASSUME c \notin {First, Done}
             PROVE  /\ c \in Cursors(s, more) /\ PendingKnown(s, W, c)
                    /\ ListsOnce(s, VisibleIn(s, W, c.snapshot), c.before, L)
  BY DEF ListingIs
<1>1. /\ c \in Cursors(s, top) /\ PendingKnown(s, V, c)
      /\ ListsOnce(s, VisibleIn(s, V, c.snapshot), c.before, L)
  BY DEF ListingIs
<1>2. c \in Cursors(s, more)
  BY <1>1, CursorsGrow
<1>3. PendingKnown(s, W, c)
  <2>1. CASE c.search = None
    BY <2>1 DEF PendingKnown
  <2>2. CASE Outlives(V, W, c.snapshot)
    BY <2>2, <1>1, PendingOutlived
  <2> QED BY <2>1, <2>2
<1>4. ListsOnce(s, VisibleIn(s, W, c.snapshot), c.before, L)
  BY <1>1, ListsShrink DEF VisibleIn, Cursors
<1> QED BY <1>2, <1>3, <1>4

LEMMA SearchOutlived ==
  ASSUME NEW s, SessionsAre(s), NEW V, NEW W \in SUBSET Int,
         NEW top \in Nat, NEW more \in Nat, top <= more,
         NEW q, NEW L, SearchIs(s, V, top, q, L), Outlives(V, W, q.cursor.snapshot)
  PROVE  SearchIs(s, W, more, q, L)
<1>1. q \in Searches(s, top, q) /\ Outlives(q.seen, V, q.cursor.snapshot)
  BY DEF SearchIs
<1>2. q \in Searches(s, more, q)
  BY CursorsGrow, <1>1 DEF Searches
<1>3. Outlives(q.seen, W, q.cursor.snapshot)
  <2>1. q.cursor.snapshot \in Nat /\ q.seen \subseteq Nat
    BY <1>1 DEF Searches, Cursors
  <2> SUFFICES ASSUME NEW i \in W, NEW j \in q.seen, i <= j, j <= q.cursor.snapshot
               PROVE  j \in W
    BY <1>1 DEF Outlives
  <2>2. j \in Nat
    BY <2>1
  <2>3. i \in V
    BY <2>1, <2>2 DEF Outlives
  <2>4. j \in V
    BY <1>1, <2>3 DEF Outlives
  <2> QED BY <2>4 DEF Outlives
<1> QED BY <1>2, <1>3 DEF SearchIs
StoreIs ==
  /\ script \in Scripts
  /\ persisted \in Nat /\ persisted <= Len(Sessions)
  /\ expired \subseteq 1 .. persisted
  /\ script.oldestFirst => \A i \in expired : \A j \in 1 .. i : j \in expired

ChainsIs ==
  Asks("chains") =>
    /\ ListingIs(Sessions, Retained, persisted, cursor, listed)
    /\ ~Searching => req = Idle /\ (cursor \notin {First, Done} => cursor.search = None)
    /\ req # Idle => cursor # Done /\ SearchIs(Sessions, Retained, persisted, req, listed)

Ascends(s, L) == \A m, n \in DOMAIN L : m < n => Precedes(PlaceOf(s, L[m]), PlaceOf(s, L[n]))

MembersAre(s, c, L) ==
  /\ L \in Seq(DOMAIN s) /\ Ascends(s, L)
  /\ c = First => L = <<>>
  /\ c \notin {First, Done} =>
       /\ c \in [at : {"members"}, snapshot : Int, after : Place]
       /\ \A m \in DOMAIN L : ~Precedes(c.after, PlaceOf(s, L[m]))

MembersIs == Asks("members") => req = Idle /\ MembersAre(Sessions, cursor, listed)

Descends(L) == \A m, n \in DOMAIN L : m < n => L[m] > L[n]

Belows == [at : {"below"}, id : Int]

DownTo(s, L, below) ==
  /\ L \in Seq(DOMAIN s) /\ Descends(L)
  /\ below = None => L = <<>>
  /\ below # None => \A m \in DOMAIN L : L[m] >= below.id

SessionsAreRows(s, c, L) ==
  /\ L \in Seq(DOMAIN s) /\ Descends(L)
  /\ c # Done => DownTo(s, L, IF c = First THEN None ELSE c)
  /\ c \notin {First, Done} => c \in Belows

RowsReq(s, sent, q, L) ==
  /\ q \in [at : {"rows"}, found : Seq(DOMAIN s), below : Belows \cup {None}, scanned : Nat,
            rest : Seq(DOMAIN s)]
  /\ q.scanned + Len(q.rest) <= MaxCandidates
  /\ DownTo(s, L \o q.found, q.below)
  /\ Descends(q.rest)
  /\ q.below # None => \A m \in DOMAIN q.rest : q.rest[m] < q.below.id
  /\ q.scanned = 0 => q.below = sent
  /\ q.scanned > 0 => q.below # None /\ (sent = None \/ q.below.id < sent.id)

BucketReq(s, sent, q, L) ==
  /\ q \in [at : {"bucket"}, found : Seq(DOMAIN s), next : Belows \cup {Done}, sent : {sent}]
  /\ L \o q.found \in Seq(DOMAIN s) /\ Descends(L \o q.found)
  /\ q.next # Done => DownTo(s, L \o q.found, q.next) /\ (sent = None \/ q.next.id < sent.id)

SessionsIs ==
  Asks("sessions") =>
    /\ SessionsAreRows(Sessions, cursor, listed)
    /\ req # Idle =>
         /\ cursor # Done
         /\ RowsReq(Sessions, SentBelow, req, listed) \/ BucketReq(Sessions, SentBelow, req, listed)

\* All that the cursors of a client depend on, besides the store.
Listings == ChainsIs /\ MembersIs /\ SessionsIs /\ EveryPageAdvances

IInv == StoreIs /\ (Orderly => Listings)
-----------------------------------------------------------------------------
(* The steps of a search. *)

LEMMA MembersOfIs ==
  ASSUME NEW s, NEW found \in Seq(SummariesOf(s))
  PROVE  /\ MembersOf(found) \in Seq(SUBSET DOMAIN s)
         /\ DOMAIN MembersOf(found) = DOMAIN found /\ DOMAIN found = 1 .. Len(found)
         /\ Len(found) \in Nat
         /\ \A n \in DOMAIN found : found[n] \in SummariesOf(s) /\ MembersOf(found)[n] = found[n].members
<1>1. DOMAIN found = 1 .. Len(found) /\ Len(found) \in Nat
  BY LenProperties
<1>2. \A n \in DOMAIN found : found[n] \in SummariesOf(s)
  BY <1>1, ElementOfSeq
<1>3. \A n \in DOMAIN found : found[n].members \in SUBSET DOMAIN s
  BY <1>2, ZenonT(20) DEF SummariesOf
<1>4. MembersOf(found) \in Seq(SUBSET DOMAIN s)
  <2> PICK len \in Nat : len = Len(found)
    BY <1>1
  <2>1. MembersOf(found) \in [1 .. len -> SUBSET DOMAIN s]
    BY <1>1, <1>3 DEF MembersOf
  <2> QED BY <2>1, SMTT(30)
<1> QED BY <1>1, <1>2, <1>4 DEF MembersOf

LEMMA MembersOfAppend ==
  ASSUME NEW s, NEW L \in Seq(SUBSET DOMAIN s),
         NEW found \in Seq(SummariesOf(s)), NEW c \in SummariesOf(s)
  PROVE  L \o MembersOf(Append(found, c)) = (L \o MembersOf(found)) \o <<c.members>>
<1> DEFINE S == SUBSET DOMAIN s
           A == MembersOf(found)
           B == MembersOf(Append(found, c))
<1>1. c.members \in S
  BY DEF SummariesOf
<1>2. Append(found, c) \in Seq(SummariesOf(s))
  BY AppendProperties
<1>3. A \in Seq(S) /\ B \in Seq(S)
  BY <1>2, MembersOfIs
<1>4. B = Append(A, c.members)
  <2>1. /\ Len(found) \in Nat /\ DOMAIN found = 1 .. Len(found)
        /\ DOMAIN Append(found, c) = 1 .. Len(found) + 1
        /\ \A n \in DOMAIN found : Append(found, c)[n] = found[n]
        /\ Append(found, c)[Len(found) + 1] = c
    BY AppendedIs
  <2>2. DOMAIN A = 1 .. Len(found) /\ DOMAIN B = 1 .. Len(found) + 1
    BY <2>1 DEF MembersOf
  <2>3. Len(A) = Len(found) /\ Len(B) = Len(found) + 1
    <3> HIDE DEF A, B, S
    <3> QED BY <1>3, <2>1, <2>2, LenProperties
  <2>4. /\ \A n \in 1 .. Len(found) : B[n] = A[n]
        /\ B[Len(found) + 1] = c.members
    BY <2>1 DEF MembersOf
  <2>5. /\ Append(A, c.members) \in Seq(S) /\ Len(Append(A, c.members)) = Len(found) + 1
        /\ \A n \in 1 .. Len(found) : Append(A, c.members)[n] = A[n]
        /\ Append(A, c.members)[Len(found) + 1] = c.members
    <3> HIDE DEF A, B, S
    <3> QED BY <1>1, <1>3, <2>3, AppendProperties
  <2> HIDE DEF A, B, S
  <2>6. \A n \in 1 .. Len(B) : B[n] = Append(A, c.members)[n]
    <3> PICK len \in Nat : len = Len(found)
      BY <2>1
    <3> TAKE n \in 1 .. Len(B)
    <3>1. n \in 1 .. len + 1
      BY <2>3
    <3>2. n \in 1 .. len \/ n = len + 1
      BY <3>1
    <3> QED BY <3>2, <2>4, <2>5, ZenonT(20)
  <2> QED BY <1>3, <2>3, <2>5, <2>6, SeqEqual
<1> HIDE DEF A, B, S
<1>5. B = A \o <<c.members>>
  BY <1>1, <1>3, <1>4, AppendIsConcat
<1>6. <<c.members>> \in Seq(S)
  BY <1>1
<1>7. L \in Seq(S)
  BY DEF S
<1>8. L \o (A \o <<c.members>>) = (L \o A) \o <<c.members>>
  BY <1>3, <1>6, <1>7, ConcatAssociative
<1> QED BY <1>5, <1>8 DEF A, B

LEMMA FoundAppend ==
  ASSUME NEW s, SessionsAre(s), NEW V, NEW top \in Nat, top <= Len(s),
         NEW q, NEW L, SearchIs(s, V, top, q, L), q.chain \in SummariesOf(s)
  PROVE  L \o MembersOf(Append(q.found, q.chain)) = (L \o MembersOf(q.found)) \o <<q.chain.members>>
<1>1. L \in Seq(SUBSET DOMAIN s) /\ q.found \in Seq(SummariesOf(s))
  BY DEF SearchIs, Searches
<1> QED BY <1>1, MembersOfAppend, ZenonT(20)

\* Where the search goes on when a chain is settled, and when it is not.
Settled(q) == [q.cursor EXCEPT !.before = Position(q.chain), !.search = None]

Partial(q, last) == [q.cursor EXCEPT !.search = [chain |-> q.chain.id, after |-> last]]

\* The search of a chain has been completed, with or without success.
LEMMA SettledIs ==
  ASSUME NEW s, SessionsAre(s), NEW V, NEW top \in Nat, top <= Len(s),
         NEW q, NEW L, SearchIs(s, V, top, q, L), q.at = "scan"
  PROVE  /\ Settled(q) \in Cursors(s, top) /\ PendingKnown(s, q.seen, Settled(q))
         /\ Settled(q).snapshot = q.cursor.snapshot
         /\ q.chain \in SummariesOf(s)
         /\ ListsOnce(s, VisibleIn(s, q.seen, Settled(q).snapshot), Settled(q).before,
                      L \o MembersOf(q.found))
         /\ ListsOnce(s, VisibleIn(s, q.seen, Settled(q).snapshot), Settled(q).before,
                      L \o MembersOf(Append(q.found, q.chain)))
         /\ Lowered(Settled(q), q.sent)
<1> DEFINE n == q.cursor.snapshot
           M == VisibleIn(s, q.seen, n)
           before == q.cursor.before
           next == Position(q.chain)
           A == <<q.chain.members>>
<1> DEFINE c == Settled(q)
<1>13. c = [q.cursor EXCEPT !.before = Position(q.chain), !.search = None]
  BY DEF Settled
<1> HIDE DEF c
<1>1. /\ q.cursor \in Cursors(s, top) /\ q.sent \in Cursors(s, top) /\ q.seen \subseteq 1 .. top
      /\ q.found \in Seq(SummariesOf(s))
  BY DEF SearchIs, Searches
<1>2. /\ n \in Int /\ before \in PlaceOrNone /\ q.sent.before \in PlaceOrNone
  BY <1>1 DEF Cursors
<1>3. M \in SUBSET DOMAIN s
  BY <1>1 DEF VisibleIn, SessionsAre
<1>4. IsSummary(s, M, n, q.chain) /\ Lower(next, before)
      /\ ScanGoes(q.cursor, q.sent, q.seen, q.scanned, q.chain.id, q.last)
  BY DEF SearchIs, ScanIs
<1>5. q.chain \in SummariesOf(s) /\ next \in Place
  <2> HIDE DEF n, M, next
  <2>1. q.chain \in SummariesOf(s) /\ Position(q.chain) \in Place
    BY <1>2, <1>3, <1>4, SummaryIs
  <2> QED BY <2>1 DEF next
<1>6. c \in Cursors(s, top) /\ c.before = next /\ c.search = None /\ c.snapshot = n
  <2>1. next \in PlaceOrNone
    BY <1>5 DEF PlaceOrNone
  <2> HIDE DEF next
  <2> QED BY <1>1, <1>13, <2>1 DEF Cursors, next
<1>7. PendingKnown(s, q.seen, c)
  BY <1>6 DEF PendingKnown
<1>8. ListsOnce(s, M, before, L \o MembersOf(q.found))
  BY DEF SearchIs
<1>9. ListsOnce(s, M, next, L \o MembersOf(q.found))
  <2> HIDE DEF M, next, before
  <2> QED BY <1>2, <1>3, <1>4, <1>5, <1>8, ListsLower
<1>10. ListsOnce(s, M, next, (L \o MembersOf(q.found)) \o A)
  <2>1. PlaceIn(s, q.chain.members) = next
    BY <1>4, SummaryPlace
  <2>2. ChainIn(s, M, q.chain.id) = q.chain.members /\ q.chain.id \in M
    <3> HIDE DEF M, n
    <3>1. ChainIn(s, M, q.chain.id) = q.chain.members
      BY <1>3, <1>4, SummaryChain
    <3>2. q.chain.id \in M
      BY <1>3, <1>4, SummaryIs
    <3> QED BY <3>1, <3>2
  <2>3. q.chain.members \in SUBSET DOMAIN s
    BY <1>5 DEF SummariesOf
  <2>4. A \in Seq(SUBSET DOMAIN s) /\ DOMAIN A = {1} /\ A[1] = q.chain.members
    BY <2>3
  <2>5. Disjoint(A)
    BY <2>4 DEF Disjoint
  <2>6. ~Precedes(next, next)
    BY <1>5, PrecedesOrders
  <2>7. \A m \in DOMAIN A : \E i \in M :
           /\ A[m] = ChainIn(s, M, i)
           /\ Lower(PlaceIn(s, A[m]), before) /\ ~Precedes(PlaceIn(s, A[m]), next)
    <3> HIDE DEF M, next, before, A
    <3> QED BY <1>4, <2>1, <2>2, <2>4, <2>6
  <2> HIDE DEF M, next, before, A
  <2> QED BY <1>2, <1>3, <1>4, <1>5, <1>8, <2>4, <2>5, <2>7, ListsExtend
<1>11. L \o MembersOf(Append(q.found, q.chain)) = (L \o MembersOf(q.found)) \o A
  BY <1>5, FoundAppend
<1>12. Lowered(c, q.sent)
  <2>1. next # None
    BY <1>5, NoneAssumption DEF Place
  <2>2. CASE before = q.sent.before
    BY <1>4, <1>6, <2>1, <2>2 DEF Lowered
  <2>3. CASE Lowered(q.cursor, q.sent)
    <3>1. before # None /\ Lower(before, q.sent.before)
      BY <2>3 DEF Lowered
    <3>2. before \in Place /\ Precedes(next, before)
      BY <1>2, <1>4, <3>1 DEF Lower, PlaceOrNone
    <3>3. Lower(next, q.sent.before)
      <4>1. CASE q.sent.before = None
        BY <4>1 DEF Lower
      <4>2. CASE q.sent.before # None
        <5>1. q.sent.before \in Place /\ Precedes(before, q.sent.before)
          BY <1>2, <3>1, <4>2 DEF Lower, PlaceOrNone
        <5> HIDE DEF next, before
        <5>2. Precedes(next, q.sent.before)
          BY <1>5, <3>2, <5>1, PrecedesOrders
        <5> QED BY <5>2 DEF Lower
      <4> QED BY <4>1, <4>2
    <3> QED BY <1>6, <2>1, <3>3 DEF Lowered
  <2> QED BY <1>4, <2>2, <2>3 DEF ScanGoes
<1> QED BY <1>5, <1>6, <1>7, <1>9, <1>10, <1>11, <1>12 DEF c

LEMMA NoneIsNone ==
  /\ None \notin Place /\ None \notin Belows
  /\ \A i \in Int, p \in PlaceOrNone : None # [chain |-> i, after |-> p]
  /\ \A s, n, V, i : script \in Scripts /\ s = Sessions /\ V \in SUBSET DOMAIN s /\ n \in Int /\ i \in V =>
       None # SummaryIn(s, ChainIn(s, V, i), n)
<1>1. None \notin Place /\ None \notin Belows
  BY NoneAssumption DEF Place, Belows
<1>2. ASSUME NEW i \in Int, NEW p \in PlaceOrNone
      PROVE  None # [chain |-> i, after |-> p]
  BY NoneAssumption DEF PlaceOrNone, Place
<1>3. ASSUME script \in Scripts, NEW V \in SUBSET DOMAIN Sessions, NEW n \in Int, NEW i \in V
      PROVE  None # SummaryIn(Sessions, ChainIn(Sessions, V, i), n)
  <2> DEFINE c == SummaryIn(Sessions, ChainIn(Sessions, V, i), n)
  <2>1. IsSummary(Sessions, V, n, c)
    BY DEF IsSummary
  <2>2. SessionsAre(Sessions)
    BY <1>3, ScriptIs
  <2>3. c \in SummariesOf(Sessions)
    <3> HIDE DEF c
    <3> QED BY <2>1, <2>2, SummaryIs
  <2>4. SummariesOf(Sessions)
        \subseteq [id : Int, key : {Sessions[j].key : j \in DOMAIN Sessions}, members : SUBSET Int,
                   snapshot : Int, start : Int, last : Int]
    BY <2>2 DEF SessionsAre, SummariesOf
  <2>5. None \notin [id : Int, key : {Sessions[j].key : j \in DOMAIN Sessions}, members : SUBSET Int,
                     snapshot : Int, start : Int, last : Int]
    BY <1>3, NoneAssumption DEF Sessions
  <2>6. None # c
    <3> HIDE DEF c
    <3> QED BY <2>3, <2>4, <2>5
  <2> QED BY <2>6
<1> QED BY <1>1, <1>2, <1>3

\* The search of a chain is to go on behind a candidate.
LEMMA PartialIs ==
  ASSUME NEW s, SessionsAre(s), NEW V, NEW top \in Nat, top <= Len(s),
         NEW q, NEW L, SearchIs(s, V, top, q, L), q.at = "scan",
         NEW last \in PlaceOrNone
  PROVE  /\ Partial(q, last) \in Cursors(s, top) /\ PendingKnown(s, q.seen, Partial(q, last))
         /\ Partial(q, last).snapshot = q.cursor.snapshot
         /\ Partial(q, last).before = q.cursor.before
         /\ Partial(q, last).search # None
         /\ Partial(q, last).search.chain = q.chain.id /\ Partial(q, last).search.after = last
<1> DEFINE n == q.cursor.snapshot
           M == VisibleIn(s, q.seen, n)
           search == [chain |-> q.chain.id, after |-> last]
           c == Partial(q, last)
<1>12. c = [q.cursor EXCEPT !.search = [chain |-> q.chain.id, after |-> last]]
  BY DEF Partial
<1> HIDE DEF c
<1>1. q.cursor \in Cursors(s, top) /\ q.seen \subseteq 1 .. top
  BY DEF SearchIs, Searches
<1>2. M \in SUBSET DOMAIN s
  BY <1>1 DEF VisibleIn, SessionsAre
<1>3. IsSummary(s, M, n, q.chain) /\ Lower(Position(q.chain), q.cursor.before)
  BY DEF SearchIs, ScanIs
<1>4. q.chain.id \in M /\ q.chain.members # {} /\ q.chain.members \subseteq M
  <2> HIDE DEF M, n
  <2> QED BY <1>2, <1>3, SummaryIs
<1>5. ChainIn(s, M, q.chain.id) = q.chain.members
  <2> HIDE DEF M, n
  <2> QED BY <1>2, <1>3, SummaryChain
<1>6. PlaceIn(s, q.chain.members) = Position(q.chain) /\ Min(q.chain.members) = q.chain.id
  BY <1>3, SummaryPlace
<1>7. \A j \in q.chain.members : q.chain.id <= j
  BY <1>2, <1>4, PlaceIs, <1>6
<1>8. q.chain.id \in DOMAIN s /\ q.chain.id <= n /\ s[q.chain.id].shown
  BY <1>2, <1>4 DEF VisibleIn
<1>9. search # None
  BY <1>8, NoneIsNone DEF SessionsAre
<1>10. /\ c \in Cursors(s, top) /\ c.search = search
       /\ c.snapshot = n /\ c.before = q.cursor.before
  <2>1. search \in [chain : DOMAIN s, after : PlaceOrNone]
    BY <1>8
  <2> HIDE DEF search
  <2> QED BY <1>1, <1>12, <2>1 DEF Cursors, search
<1>11. PendingKnown(s, q.seen, c)
  <2>1. c.search.chain = q.chain.id
    BY <1>10
  <2> HIDE DEF M, search
  <2> QED BY <1>3, <1>5, <1>6, <1>7, <1>8, <1>10, <2>1 DEF PendingKnown, M
<1> QED BY <1>9, <1>10, <1>11 DEF c
-----------------------------------------------------------------------------
(* The store. *)

LEMMA StoreStarts == Init => StoreIs
BY ScriptIs DEF Init, StoreIs, Sessions

LEMMA RetainedIs ==
  ASSUME StoreIs
  PROVE  /\ Retained \subseteq 1 .. persisted /\ Retained \in SUBSET DOMAIN Sessions
         /\ SessionsAre(Sessions) /\ persisted \in Nat /\ persisted <= Len(Sessions)
         /\ Retained \in SUBSET Int
<1>1. SessionsAre(Sessions)
  BY ScriptIs DEF StoreIs
<1>2. Retained \subseteq 1 .. persisted /\ persisted \in Nat /\ persisted <= Len(Sessions)
  BY DEF StoreIs, Retained
<1>3. 1 .. persisted \subseteq DOMAIN Sessions
  BY <1>1, <1>2 DEF SessionsAre
<1> QED BY <1>1, <1>2, <1>3

\* Every step but those of the writer leaves the store alone.
LEMMA StoreSteps ==
  ASSUME Next
  PROVE  Persist \/ (\E i \in Retained : Expire(i)) \/ UNCHANGED store
BY Zenon DEF Next, EditRule, NothingKnown, ListChains, BeginSearch, Lookup, NothingFound, Scan,
       ScanNothing, SearchInterrupted, ScanInterrupted, SearchFails, MemberPage, ListSessions,
       BeginSessionSearch, FetchRows, ScanRow, BucketSessions, GetRuleHighlights, Answer,
       ChainSettled

LEMMA StoreKept ==
  ASSUME StoreIs, UNCHANGED store
  PROVE  StoreIs' /\ Sessions' = Sessions /\ Retained' = Retained /\ script' = script
         /\ persisted' = persisted
BY DEF StoreIs, store, Sessions, Retained

LEMMA PersistStore ==
  ASSUME StoreIs, Persist
  PROVE  /\ StoreIs' /\ Sessions' = Sessions /\ script' = script
         /\ persisted \in Nat /\ persisted' \in Nat /\ persisted <= persisted'
         /\ \A n \in 0 .. persisted : Outlives(Retained, Retained', n)
<1>1. script' = script /\ expired' = expired /\ persisted' = persisted + 1 /\ Sessions' = Sessions
  BY DEF Persist, Sessions
<1>2. persisted \in Nat /\ persisted < Len(Sessions) /\ Len(Sessions) \in Nat
  BY ScriptIs DEF StoreIs, Persist, SessionsAre
<1>3. StoreIs'
  BY <1>2, <1>1 DEF StoreIs
<1>4. ASSUME NEW n \in 0 .. persisted
      PROVE  Outlives(Retained, Retained', n)
  <2>1. ASSUME NEW i \in Retained', i <= n
        PROVE  i \in Retained
    BY <1>1, <1>2, <2>1 DEF Retained
  <2>2. Retained \subseteq Retained'
    BY <1>1, <1>2 DEF Retained
  <2> QED BY <2>1, <2>2 DEF Outlives
<1> QED BY <1>1, <1>2, <1>3, <1>4

LEMMA ExpireStore ==
  ASSUME StoreIs, NEW e \in Retained, Expire(e)
  PROVE  /\ StoreIs' /\ Sessions' = Sessions /\ script' = script
         /\ persisted \in Nat /\ persisted' = persisted
         /\ Retained' \subseteq Retained
         /\ script.oldestFirst => \A n : Outlives(Retained, Retained', n)
<1>1. /\ script' = script /\ persisted' = persisted /\ Sessions' = Sessions
      /\ expired' = expired \cup {e}
      /\ script.oldestFirst => 1 .. e - 1 \subseteq expired
  BY DEF Expire, Sessions
<1>2. persisted \in Nat /\ e \in 1 .. persisted /\ e \notin expired
  BY DEF StoreIs, Retained
<1>3. ASSUME script.oldestFirst, NEW i \in expired', NEW j \in 1 .. i
      PROVE  j \in expired'
  <2>1. CASE i \in expired
    BY <1>1, <1>3, <2>1 DEF StoreIs
  <2>2. CASE i = e
    BY <1>2, <2>2, <1>1, <1>3
  <2> QED BY <1>1, <2>1, <2>2
<1>4. StoreIs'
  BY <1>1, <1>2, <1>3 DEF StoreIs
<1>5. Retained' = Retained \ {e}
  BY <1>1 DEF Retained
<1>6. ASSUME script.oldestFirst, NEW n
      PROVE  Outlives(Retained, Retained', n)
  <2> SUFFICES ASSUME NEW i \in Retained', NEW j \in Retained, i <= j, j <= n
               PROVE  j # e
    BY <1>5 DEF Outlives
  <2>1. i \in 1 .. persisted /\ i \notin expired /\ i # e
    BY <1>1, <1>5 DEF Retained
  <2>2. i \notin 1 .. e - 1
    BY <1>1, <1>6, <2>1
  <2>3. i > e
    BY <1>2, <2>1, <2>2
  <2> QED BY <1>2, <2>1, <2>3
<1> QED BY <1>1, <1>2, <1>4, <1>5, <1>6

LEMMA ListingsFramed ==
  ASSUME StoreIs, Listings, UNCHANGED <<store, cursor, req, listed, page>>
  PROVE  Listings'
<1>1. /\ Sessions' = Sessions /\ Retained' = Retained /\ script' = script
      /\ persisted' = persisted /\ cursor' = cursor /\ req' = req /\ listed' = listed
      /\ page' = page
  BY StoreKept
<1>2. (Asks("chains") <=> Asks("chains")') /\ (Asks("members") <=> Asks("members")')
      /\ (Asks("sessions") <=> Asks("sessions")') /\ (Searching <=> Searching')
      /\ SentBelow' = SentBelow
  BY <1>1 DEF Asks, Searching, SentBelow
<1>3. ChainsIs'
  BY <1>1, <1>2 DEF Listings, ChainsIs
<1>4. MembersIs'
  BY <1>1, <1>2 DEF Listings, MembersIs
<1>5. SessionsIs'
  BY <1>1, <1>2 DEF Listings, SessionsIs
<1>6. EveryPageAdvances'
  BY <1>1 DEF Listings, EveryPageAdvances, Beyond
<1> QED BY <1>3, <1>4, <1>5, <1>6 DEF Listings

\* What the writer may do between the requests of a client.
LEMMA ListingsOutlived ==
  ASSUME StoreIs, StoreIs', Orderly, Listings, UNCHANGED <<script, cursor, req, listed, page>>,
         persisted <= persisted',
         \A n \in 0 .. persisted :
           /\ \A i \in Retained' : i <= n => i \in Retained
           /\ script.oldestFirst => Outlives(Retained, Retained', n)
  PROVE  Listings'
<1>1. /\ Sessions' = Sessions /\ script' = script /\ cursor' = cursor /\ req' = req
      /\ listed' = listed /\ page' = page
      /\ (Asks("chains") <=> Asks("chains")') /\ (Asks("members") <=> Asks("members")')
      /\ (Asks("sessions") <=> Asks("sessions")') /\ (Searching <=> Searching')
      /\ SentBelow' = SentBelow
  BY DEF Sessions, Asks, Searching, SentBelow
<1>2. /\ SessionsAre(Sessions) /\ Retained \in SUBSET DOMAIN Sessions
      /\ persisted \in Nat /\ persisted <= Len(Sessions)
  BY RetainedIs
<1>3. Retained' \in SUBSET DOMAIN Sessions /\ persisted' \in Nat /\ Retained' \in SUBSET Int
  BY <1>1, <1>2 DEF StoreIs, Retained, SessionsAre
<1>4. ASSUME Asks("chains")
      PROVE  /\ ListingIs(Sessions, Retained', persisted', cursor, listed)
             /\ ~Searching => req = Idle /\ (cursor \notin {First, Done} => cursor.search = None)
             /\ req # Idle =>
                  cursor # Done /\ SearchIs(Sessions, Retained', persisted', req, listed)
  <2>1. /\ ListingIs(Sessions, Retained, persisted, cursor, listed)
        /\ ~Searching => req = Idle /\ (cursor \notin {First, Done} => cursor.search = None)
        /\ req # Idle => cursor # Done /\ SearchIs(Sessions, Retained, persisted, req, listed)
    BY <1>4 DEF Listings, ChainsIs
  <2>2. Searching => script.oldestFirst
    BY <1>4 DEF Orderly
  <2>3. ASSUME cursor \notin {First, Done}
        PROVE  /\ \A i \in Retained' : i <= cursor.snapshot => i \in Retained
               /\ cursor.search = None \/ Outlives(Retained, Retained', cursor.snapshot)
    BY <2>1, <2>3, <2>2 DEF ListingIs, Cursors
  <2>4. ListingIs(Sessions, Retained', persisted', cursor, listed)
    BY <1>2, <1>3, <2>1, <2>3, ListingOutlived
  <2>5. ASSUME req # Idle
        PROVE  SearchIs(Sessions, Retained', persisted', req, listed)
    BY <2>1, <2>2, <2>5, <1>2, <1>3, SearchOutlived DEF SearchIs, Searches, Cursors
  <2> QED BY <2>1, <2>4, <2>5
<1>5. ChainsIs'
  BY <1>1, <1>4 DEF ChainsIs
<1>6. MembersIs'
  BY <1>1 DEF Listings, MembersIs
<1>7. SessionsIs'
  BY <1>1 DEF Listings, SessionsIs
<1>8. EveryPageAdvances'
  BY <1>1 DEF Listings, EveryPageAdvances, Beyond
<1> QED BY <1>5, <1>6, <1>7, <1>8 DEF Listings

LEMMA PersistLists ==
  ASSUME StoreIs, Orderly, Listings, Persist
  PROVE  Listings'
<1>1. UNCHANGED <<script, cursor, req, listed, page>>
  BY DEF Persist, history
<1>2. /\ StoreIs' /\ persisted <= persisted'
      /\ \A n \in 0 .. persisted : Outlives(Retained, Retained', n)
  BY PersistStore
<1>3. \A n \in 0 .. persisted :
        /\ \A i \in Retained' : i <= n => i \in Retained
        /\ script.oldestFirst => Outlives(Retained, Retained', n)
  BY <1>2 DEF Outlives
<1> QED BY <1>1, <1>2, <1>3, ListingsOutlived

LEMMA ExpireLists ==
  ASSUME StoreIs, Orderly, Listings, NEW e \in Retained, Expire(e)
  PROVE  Listings'
<1>1. UNCHANGED <<script, cursor, req, listed, page>>
  BY DEF Expire, history
<1>2. /\ StoreIs' /\ persisted \in Nat /\ persisted' = persisted /\ Retained' \subseteq Retained
      /\ script.oldestFirst => \A n : Outlives(Retained, Retained', n)
  BY ExpireStore
<1>3. persisted <= persisted'
  BY <1>2
<1>4. \A n \in 0 .. persisted :
        /\ \A i \in Retained' : i <= n => i \in Retained
        /\ script.oldestFirst => Outlives(Retained, Retained', n)
  BY <1>2
<1> QED BY <1>1, <1>2, <1>3, <1>4, ListingsOutlived

LEMMA ListingsStart ==
  ASSUME Init
  PROVE  Listings
<1>1. StoreIs /\ cursor = First /\ req = Idle /\ listed = <<>> /\ page = NoPage
  BY StoreStarts DEF Init
<1>2. First # Done
  BY DEF First, Done
<1>3. ChainsIs
  BY <1>1, <1>2 DEF ListingIs, Disjoint, ChainsIs
<1>4. MembersIs
  BY <1>1 DEF MembersIs, MembersAre, Ascends
<1>5. SessionsIs
  BY <1>1, <1>2 DEF SessionsIs, SessionsAreRows, Descends, DownTo
<1>6. EveryPageAdvances
  BY <1>1 DEF EveryPageAdvances
<1> QED
  BY <1>3, <1>4, <1>5, <1>6 DEF Listings

-----------------------------------------------------------------------------
(* The pages of a listing of chains. *)

\* What is found between two cursors may be a page.
PageIs(s, V, W, top, sent, next, L, chains) ==
  /\ chains \in Seq(SummariesOf(s)) /\ L \in Seq(SUBSET DOMAIN s)
  /\ Disjoint(L \o MembersOf(chains))
  /\ next # Done =>
       /\ next \in Cursors(s, top) /\ PendingKnown(s, V, next)
       /\ ListsOnce(s, VisibleIn(s, V, next.snapshot), next.before, L \o MembersOf(chains))
       /\ Outlives(V, W, next.snapshot)
       /\ Advanced(next, sent, V)

LEMMA CursorsAre ==
  ASSUME NEW s, NEW top, NEW c \in Cursors(s, top)
  PROVE  c # First /\ c # Done
<1>1. c.at = "list"
  BY DEF Cursors
<1> QED BY <1>1 DEF First, Done

LEMMA PageListed ==
  ASSUME NEW s, SessionsAre(s), NEW V \in SUBSET DOMAIN s, NEW W \in SUBSET DOMAIN s,
         NEW top \in Nat, NEW sent, NEW next, NEW L, NEW chains,
         PageIs(s, V, W, top, sent, next, L, chains),
         NEW A \in Seq(SUBSET DOMAIN s), Within(A, MembersOf(chains))
  PROVE  ListingIs(s, W, top, next, L \o A)
<1> DEFINE B == MembersOf(chains)
<1>1. L \in Seq(SUBSET DOMAIN s) /\ chains \in Seq(SummariesOf(s)) /\ Disjoint(L \o B)
  BY DEF PageIs
<1>2. B \in Seq(SUBSET DOMAIN s)
  BY <1>1, MembersOfIs
<1>3. L \o B \in Seq(SUBSET DOMAIN s)
  <2> HIDE DEF B
  <2> QED BY <1>1, <1>2, Concatenated
<1>4. ListsOnce(s, {}, None, L \o B)
  BY <1>1, <1>3 DEF ListsOnce
<1>5. ListsOnce(s, {}, None, L \o A)
  <2> HIDE DEF B
  <2>1. Within(A, B)
    BY DEF B
  <2> QED BY <1>1, <1>2, <1>4, <2>1, ListsFewer
<1>6. L \o A \in Seq(SUBSET DOMAIN s) /\ Disjoint(L \o A)
  BY <1>5 DEF ListsOnce
<1>7. next # First
  BY CursorsAre DEF PageIs, First, Done
<1>8. ASSUME next # Done
      PROVE  /\ next \in Cursors(s, top) /\ PendingKnown(s, W, next)
             /\ ListsOnce(s, VisibleIn(s, W, next.snapshot), next.before, L \o A)
  <2> DEFINE M == VisibleIn(s, V, next.snapshot)
             N == VisibleIn(s, W, next.snapshot)
  <2>1. /\ next \in Cursors(s, top) /\ PendingKnown(s, V, next)
        /\ ListsOnce(s, M, next.before, L \o B)
        /\ Outlives(V, W, next.snapshot)
    BY <1>8 DEF PageIs
  <2>2. PendingKnown(s, W, next)
    BY <2>1, PendingOutlived
  <2>3. ListsOnce(s, M, next.before, L \o A)
    <3> HIDE DEF B, M
    <3>1. Within(A, B)
      BY DEF B
    <3> QED BY <1>1, <1>2, <2>1, <3>1, ListsFewer
  <2>4. M \in SUBSET DOMAIN s /\ N \in SUBSET M
    BY <2>1, VisibleOutlived DEF VisibleIn
  <2>5. next.before \in PlaceOrNone
    BY <2>1 DEF Cursors
  <2>6. ListsOnce(s, N, next.before, L \o A)
    <3> HIDE DEF M, N
    <3> QED BY <2>3, <2>4, <2>5, ListsShrink
  <2> QED BY <2>1, <2>2, <2>6
<1> QED BY <1>6, <1>7, <1>8 DEF ListingIs

\* What the client is given of it.
AcceptedOf(items, places) ==
  LET accepted == Picked(items, places)
  IN  [n \in DOMAIN accepted |-> accepted[n].chain.members]

LEMMA AcceptedIs ==
  ASSUME NEW s, NEW chains \in Seq(SummariesOf(s)),
         NEW items, NEW T, items \in Seq(T), DOMAIN items = DOMAIN chains,
         \A n \in DOMAIN chains : items[n].chain = chains[n],
         NEW places \in SUBSET DOMAIN items
  PROVE  /\ AcceptedOf(items, places) \in Seq(SUBSET DOMAIN s)
         /\ Within(AcceptedOf(items, places), MembersOf(chains))
<1> DEFINE accepted == Picked(items, places)
           A == AcceptedOf(items, places)
<1>8. A = [n \in DOMAIN accepted |-> accepted[n].chain.members]
  BY DEF AcceptedOf
<1> HIDE DEF A
<1>1. accepted \in Seq(T) /\ Within(accepted, items)
  BY PickedIs
<1> HIDE DEF accepted
<1>2. DOMAIN accepted = 1 .. Len(accepted) /\ Len(accepted) \in Nat /\ DOMAIN A = DOMAIN accepted
  BY <1>1, <1>8, LenProperties
<1>3. DOMAIN MembersOf(chains) = DOMAIN chains
      /\ \A n \in DOMAIN chains : MembersOf(chains)[n] = chains[n].members
  BY DEF MembersOf
<1>7. \A n \in DOMAIN A : A[n] = accepted[n].chain.members
  BY <1>2, <1>8
<1> DEFINE B == MembersOf(chains)
<1>4. Within(A, MembersOf(chains))
  <2>1. \A k \in DOMAIN items : k \in DOMAIN B /\ B[k] = items[k].chain.members
    BY <1>3
  <2> HIDE DEF B
  <2>2. ASSUME NEW m \in DOMAIN A
        PROVE  \E k \in DOMAIN B : A[m] = B[k]
    <3>1. PICK k \in DOMAIN items : accepted[m] = items[k]
      BY <1>1, <1>2 DEF Within
    <3> QED BY <3>1, <2>1, <1>7
  <2>3. ASSUME NEW m \in DOMAIN A, NEW n \in DOMAIN A, m < n
        PROVE  \E k, l \in DOMAIN B : k < l /\ A[m] = B[k] /\ A[n] = B[l]
    <3>1. PICK k \in DOMAIN items, l \in DOMAIN items :
             k < l /\ accepted[m] = items[k] /\ accepted[n] = items[l]
      BY <1>1, <1>2, <2>3 DEF Within
    <3> QED BY <3>1, <2>1, <1>7
  <2>4. Within(A, B)
    BY <2>2, <2>3 DEF Within
  <2> QED BY <2>4 DEF B
<1> HIDE DEF B
<1>5. \A n \in DOMAIN chains : MembersOf(chains)[n] \in SUBSET DOMAIN s
  BY <1>3, MembersOfIs DEF SummariesOf
<1>6. A \in Seq(SUBSET DOMAIN s)
  <2> PICK len \in Nat : len = Len(accepted)
    BY <1>2
  <2>1. \A n \in DOMAIN A : A[n] \in SUBSET DOMAIN s
    BY <1>3, <1>4, <1>5 DEF Within
  <2>2. A \in [1 .. len -> SUBSET DOMAIN s]
    BY <1>2, <1>8, <2>1
  <2> QED BY <2>2
<1> QED BY <1>4, <1>6 DEF A, B

LEMMA Answered ==
  ASSUME StoreIs, Asks("chains"), NEW V \in SUBSET DOMAIN Sessions, NEW r, NEW sent, NEW chains, NEW next,
         Answer(V, r, sent, chains, next),
         PageIs(Sessions, V, Retained, persisted, sent, next, listed, chains),
         ~Searching /\ next # Done => next.search = None
  PROVE  Listings'
<1> DEFINE known(t) == IF Bucket = "any" THEN <<>> ELSE Classify(V, r, t)
           items == [n \in DOMAIN chains |-> [chain |-> chains[n], known |-> known(chains[n])]]
           places == {n \in DOMAIN items : Accepts(items[n].known)}
           accepted == Picked(items, places)
           A == [n \in DOMAIN accepted |-> accepted[n].chain.members]
           T == {items[n] : n \in DOMAIN chains}
<1>1. /\ page' = [at |-> "chains", seen |-> V, rule |-> r, from |-> sent, next |-> next,
                  items |-> items]
      /\ listed' = listed \o A
      /\ cursor' = next /\ req' = Idle
      /\ UNCHANGED store
  BY Zenon DEF Answer
<1>2. chains \in Seq(SummariesOf(Sessions))
  BY DEF PageIs
<1>3. /\ DOMAIN items = DOMAIN chains /\ \A n \in DOMAIN chains : items[n].chain = chains[n]
      /\ items \in Seq(T)
  <2>1. DOMAIN chains = 1 .. Len(chains) /\ Len(chains) \in Nat
    BY <1>2, LenProperties
  <2>2. DOMAIN items = DOMAIN chains
    OBVIOUS
  <2>3. items \in Seq(T)
    <3> HIDE DEF items
    <3> PICK len \in Nat : len = Len(chains)
      BY <2>1
    <3>1. items = [n \in 1 .. len |-> items[n]]
      <4> USE DEF items
      <4> QED BY <2>1
    <3>2. items \in [1 .. len -> T]
      BY <2>1, <2>2, <3>1
    <3> QED BY <3>2, SMTT(30)
  <2> QED BY <2>2, <2>3
<1>4. A \in Seq(SUBSET DOMAIN Sessions) /\ Within(A, MembersOf(chains))
  <2>1. places \in SUBSET DOMAIN items
    OBVIOUS
  <2>2. A = AcceptedOf(items, places)
    BY DEF AcceptedOf
  <2> HIDE DEF items, places, accepted, A, T
  <2> QED BY <1>2, <1>3, <2>1, <2>2, AcceptedIs
<1> HIDE DEF A, accepted, places, items
<1>5. ListingIs(Sessions, Retained, persisted, next, listed \o A)
  BY <1>4, PageListed, RetainedIs
<1>6. /\ Sessions' = Sessions /\ Retained' = Retained /\ script' = script
      /\ persisted' = persisted
  BY <1>1, StoreKept
<1>7. Asks("chains")' /\ (Searching <=> Searching')
      /\ ~Asks("members")' /\ ~Asks("sessions")'
  BY <1>6 DEF Asks, Searching
<1>8. ChainsIs'
  BY <1>1, <1>5, <1>6, <1>7 DEF ChainsIs
<1>9. EveryPageAdvances'
  <2> SUFFICES ASSUME next # Done
               PROVE  Beyond(next, sent)'
    BY <1>1 DEF EveryPageAdvances
  <2>1. page'.at = "chains" /\ page'.seen = V
    BY <1>1
  <2>2. Advanced(next, sent, V)
    BY DEF PageIs
  <2> QED BY <2>1, <2>2 DEF Beyond, Advanced, Lowered, Lower, Further, Fresh
<1> QED BY <1>7, <1>8, <1>9, Zenon DEF Listings, MembersIs, SessionsIs
LEMMA SnapshotIs ==
  ASSUME StoreIs
  PROVE  Snapshot(Retained) \in 0 .. persisted
<1>1. Retained \subseteq 1 .. persisted /\ persisted \in Nat
  BY RetainedIs
<1>2. IsFiniteSet(Retained) /\ Retained \in SUBSET Int
  <2>1. IsFiniteSet(1 .. persisted)
    BY <1>1, FS_Interval
  <2>2. Retained \in SUBSET (1 .. persisted)
    BY <1>1
  <2>3. IsFiniteSet(Retained)
    BY <2>1, <2>2, FS_Subset
  <2> QED BY <2>3, RetainedIs
<1>3. CASE Retained = {}
  BY <1>1, <1>3 DEF Snapshot
<1>4. CASE Retained # {}
  <2>1. Max(Retained) \in Retained
    BY <1>2, <1>4, MaxIs
  <2>2. Max(Retained) \in 0 .. persisted
    <3>1. Max(Retained) \in 1 .. persisted
      BY <1>1, <2>1
    <3>2. 1 .. persisted \subseteq 0 .. persisted
      BY <1>1
    <3> QED BY <3>1, <3>2
  <2>3. Snapshot(Retained) = Max(Retained)
    BY <1>4 DEF Snapshot
  <2> QED BY <2>2, <2>3
<1> QED BY <1>3, <1>4

\* The cursor of a request.
LEMMA SentIs ==
  ASSUME StoreIs, Listings, Asks("chains"), cursor # Done
  PROVE  /\ SentCursor \in Cursors(Sessions, persisted)
         /\ PendingKnown(Sessions, Retained, SentCursor)
         /\ ListsOnce(Sessions, VisibleIn(Sessions, Retained, SentCursor.snapshot),
                      SentCursor.before, listed)
         /\ ~Searching => SentCursor.search = None
<1>1. ListingIs(Sessions, Retained, persisted, cursor, listed)
      /\ (~Searching => (cursor \notin {First, Done} => cursor.search = None))
  BY DEF Listings, ChainsIs
<1>2. CASE cursor # First
  BY <1>2, <1>1 DEF SentCursor, ListingIs
<1>3. CASE cursor = First
  <2> DEFINE n == Snapshot(Retained)
  <2>1. n \in 0 .. persisted
    BY SnapshotIs
  <2> HIDE DEF n
  <2>2. SentCursor = [at |-> "list", snapshot |-> n, before |-> None, search |-> None]
    BY <1>3 DEF SentCursor, n
  <2>3. SentCursor \in Cursors(Sessions, persisted)
    BY <2>1, <2>2 DEF Cursors, PlaceOrNone
  <2>4. PendingKnown(Sessions, Retained, SentCursor)
    BY <2>2 DEF PendingKnown
  <2>5. listed = <<>>
    BY <1>1, <1>3 DEF ListingIs
  <2>6. ListsOnce(Sessions, VisibleIn(Sessions, Retained, SentCursor.snapshot),
                  SentCursor.before, listed)
    BY <2>5 DEF ListsOnce, Disjoint
  <2> QED BY <2>2, <2>3, <2>4, <2>6
<1> QED BY <1>2, <1>3

LEMMA NothingAdded ==
  ASSUME NEW s, NEW L \in Seq(SUBSET DOMAIN s)
  PROVE  L \o MembersOf(<<>>) = L /\ <<>> \in Seq(SummariesOf(s))
<1>1. MembersOf(<<>>) = <<>>
  BY DEF MembersOf
<1> QED BY <1>1, ConcatEmptySeq

\* The first of the chains below a position.
LEMMA ChainsPage ==
  ASSUME script \in Scripts, NEW V \in SUBSET DOMAIN Sessions, NEW n \in Int,
         NEW before \in PlaceOrNone, NEW M, M = VisibleIn(Sessions, V, n),
         NEW q, q = Summaries(V, n, before), NEW size \in Nat,
         NEW chains, chains = Prefix(q, size),
         NEW L, ListsOnce(Sessions, M, before, L)
  PROVE  /\ chains \in Seq(SummariesOf(Sessions))
         /\ Disjoint(L \o MembersOf(chains))
         /\ chains # <<>> =>
              /\ Position(Last(chains)) \in Place
              /\ Lower(Position(Last(chains)), before)
              /\ ListsOnce(Sessions, M, Position(Last(chains)), L \o MembersOf(chains))
<1> DEFINE s == Sessions
           A == MembersOf(chains)
<1>1. SessionsAre(s) /\ M \in SUBSET DOMAIN s
  BY ScriptIs DEF VisibleIn
<1>2. /\ q \in Seq(SummariesOf(s))
      /\ \A m \in DOMAIN q : IsSummary(s, M, n, q[m]) /\ Lower(Position(q[m]), before)
      /\ \A k, l \in DOMAIN q : k < l => Precedes(Position(q[l]), Position(q[k]))
  BY SummariesSorted
<1>3. /\ chains \in Seq(SummariesOf(s)) /\ Len(chains) \in Nat
      /\ DOMAIN chains = 1 .. Len(chains)
      /\ \A k \in DOMAIN chains : k \in DOMAIN q /\ chains[k] = q[k]
  BY <1>2, PrefixIs
<1> HIDE DEF s
<1>4. /\ A \in Seq(SUBSET DOMAIN s) /\ DOMAIN A = DOMAIN chains
      /\ \A k \in DOMAIN chains : A[k] = chains[k].members
  BY <1>3, MembersOfIs
<1> HIDE DEF A
<1>5. ASSUME NEW k \in DOMAIN A
      PROVE  /\ IsSummary(s, M, n, chains[k])
             /\ chains[k].id \in M /\ Position(chains[k]) \in Place
             /\ A[k] = ChainIn(s, M, chains[k].id)
             /\ PlaceIn(s, A[k]) = Position(chains[k])
             /\ Lower(PlaceIn(s, A[k]), before)
  BY <1>2, <1>3, <1>4, <1>1, SummaryIs, SummaryChain, SummaryPlace
<1>6. \A k, l \in DOMAIN A : k < l => Precedes(Position(chains[l]), Position(chains[k]))
  BY <1>2, <1>3, <1>4
<1>7. Disjoint(A)
  <2> SUFFICES ASSUME NEW k \in DOMAIN A, NEW l \in DOMAIN A, k < l, NEW i \in A[k] \cap A[l]
               PROVE  FALSE
    BY DEF Disjoint
  <2>1. A[k] = A[l]
    BY <1>5, <1>1, ChainsPartition
  <2>2. Position(chains[k]) = Position(chains[l]) /\ Position(chains[k]) \in Place
    BY <1>5, <2>1
  <2>3. Precedes(Position(chains[l]), Position(chains[k]))
    BY <1>6
  <2> QED BY <2>2, <2>3, PrecedesOrders
<1>8. L \in Seq(SUBSET DOMAIN s) /\ Disjoint(L)
  BY DEF ListsOnce, s
<1>9. ASSUME chains # <<>>
      PROVE  /\ Position(Last(chains)) \in Place
             /\ Lower(Position(Last(chains)), before)
             /\ ListsOnce(s, M, Position(Last(chains)), L \o A)
  <2> PICK len \in Nat : len = Len(chains)
    BY <1>3
  <2>1. len # 0 /\ len \in DOMAIN A /\ DOMAIN A = 1 .. len
    BY <1>3, <1>9, EmptySeq, <1>4
  <2> DEFINE p == Position(chains[len])
  <2>2. Last(chains) = chains[len]
    BY DEF Last
  <2>3. p \in Place /\ Lower(p, before)
    BY <1>5, <2>1
  <2>4. ASSUME NEW k \in DOMAIN A
        PROVE  ~Precedes(PlaceIn(s, A[k]), p)
    <3>1. PlaceIn(s, A[k]) = Position(chains[k]) /\ Position(chains[k]) \in Place
      BY <1>5
    <3>2. k = len \/ k < len
      BY <2>1
    <3>3. CASE k = len
      BY <2>3, <3>1, <3>3, PrecedesOrders
    <3>4. CASE k < len
      <4>1. Precedes(p, Position(chains[k]))
        BY <1>6, <2>1, <3>4
      <4> HIDE DEF p
      <4> QED BY <2>3, <3>1, <4>1, PrecedesOrders
    <3> QED BY <3>2, <3>3, <3>4
  <2>5. \A m \in DOMAIN A : \E i \in M :
           /\ A[m] = ChainIn(s, M, i)
           /\ Lower(PlaceIn(s, A[m]), before) /\ ~Precedes(PlaceIn(s, A[m]), p)
    BY <1>5, <2>4
  <2> HIDE DEF p
  <2>6. ListsOnce(s, M, p, L \o A)
    BY <1>1, <1>4, <1>7, <2>3, <2>5, ListsExtend DEF s
  <2> QED BY <2>2, <2>3, <2>6, ZenonT(20) DEF p
<1>10. Disjoint(L \o A)
  <2>1. CASE chains = <<>>
    BY <1>8, NothingAdded, <2>1 DEF A
  <2>2. CASE chains # <<>>
    BY <1>9, <2>2 DEF ListsOnce
  <2> QED BY <2>1, <2>2
<1> QED BY <1>3, <1>9, <1>10 DEF A, s

LEMMA NothingKnownLists ==
  ASSUME StoreIs, Listings, NothingKnown
  PROVE  Listings'
<1>1. Asks("chains") /\ cursor # Done /\ Answer(Retained, rule, SentCursor, <<>>, Done)
  BY DEF NothingKnown
<1>2. listed \in Seq(SUBSET DOMAIN Sessions) /\ Disjoint(listed)
  BY <1>1 DEF Listings, ChainsIs, ListingIs
<1>3. PageIs(Sessions, Retained, Retained, persisted, SentCursor, Done, listed, <<>>)
  BY <1>2, NothingAdded DEF PageIs
<1>4. Retained \in SUBSET DOMAIN Sessions
  BY RetainedIs
<1> QED BY <1>1, <1>3, <1>4, Answered

LEMMA ListChainsLists ==
  ASSUME StoreIs, Listings, ListChains
  PROVE  Listings'
<1> DEFINE sent == SentCursor
           found == Summaries(Retained, sent.snapshot, sent.before)
           chains == Prefix(found, Limit)
           further == [sent EXCEPT !.before = Position(Last(chains)), !.search = None]
           next == IF Len(found) > Limit THEN further ELSE Done
           M == VisibleIn(Sessions, Retained, sent.snapshot)
<1>1. /\ Asks("chains") /\ cursor # Done /\ ~Searching
      /\ Answer(Retained, rule, sent, chains, next)
  BY DEF ListChains
<1>2. /\ sent \in Cursors(Sessions, persisted)
      /\ ListsOnce(Sessions, M, sent.before, listed)
  BY <1>1, SentIs
<1>3. Retained \in SUBSET DOMAIN Sessions /\ script \in Scripts
  BY RetainedIs DEF StoreIs
<1>4. sent.snapshot \in Int /\ sent.before \in PlaceOrNone
  BY <1>2 DEF Cursors
<1> HIDE DEF sent
<1>5. /\ chains \in Seq(SummariesOf(Sessions))
      /\ Disjoint(listed \o MembersOf(chains))
      /\ chains # <<>> =>
           /\ Position(Last(chains)) \in Place
           /\ Lower(Position(Last(chains)), sent.before)
           /\ ListsOnce(Sessions, M, Position(Last(chains)), listed \o MembersOf(chains))
  BY <1>2, <1>3, <1>4, SizesAssumption, ChainsPage
<1>6. Len(found) > Limit => chains # <<>>
  <2>1. found \in Seq(SummariesOf(Sessions))
    BY <1>3, <1>4, SummariesSorted
  <2> HIDE DEF found
  <2> SUFFICES ASSUME Len(found) > Limit
               PROVE  chains # <<>>
    OBVIOUS
  <2>2. Len(found) \in Nat /\ Limit \in Nat \ {0}
    BY <2>1, LenProperties, SizesAssumption
  <2>3. Len(chains) = Limit
    BY <2>2, <2>1, PrefixIs
  <2> QED BY <2>2, <2>3
<1> HIDE DEF chains, found
<1>7. ASSUME Len(found) > Limit
      PROVE  /\ further \in Cursors(Sessions, persisted)
             /\ further.before = Position(Last(chains)) /\ further.search = None
             /\ further.snapshot = sent.snapshot
  <2>1. Position(Last(chains)) \in PlaceOrNone
    BY <1>5, <1>6, <1>7 DEF PlaceOrNone
  <2> PICK p : p = Position(Last(chains))
    OBVIOUS
  <2> QED BY <1>2, <2>1 DEF Cursors
<1> HIDE DEF further
<1>8. PageIs(Sessions, Retained, Retained, persisted, sent, next, listed, chains)
  <2>1. listed \in Seq(SUBSET DOMAIN Sessions)
    BY <1>2 DEF ListsOnce
  <2>2. CASE ~(Len(found) > Limit)
    BY <1>5, <2>1, <2>2 DEF PageIs
  <2>3. CASE Len(found) > Limit
    BY <1>7, <2>3, <1>5, <1>6, NoneIsNone, <2>1 DEF PendingKnown, Outlives, Advanced,
         Lowered, PageIs
  <2> QED BY <2>2, <2>3
<1>9. ~Searching /\ next # Done => next.search = None
  BY <1>7
<1> HIDE DEF next
<1>10. Answer(Retained, rule, sent, chains, next)
  BY <1>1 DEF chains, found, next, further
<1> QED BY <1>1, <1>3, <1>8, <1>9, <1>10, Answered

\* The search of a page goes on.
LEMMA SearchOn ==
  ASSUME StoreIs, Listings, Asks("chains"), Searching, cursor # Done,
         UNCHANGED <<store, cursor, listed, page>>,
         SearchIs(Sessions, Retained, persisted, req', listed)
  PROVE  Listings'
<1>1. /\ Sessions' = Sessions /\ Retained' = Retained /\ script' = script
      /\ persisted' = persisted /\ cursor' = cursor /\ listed' = listed /\ page' = page
  BY StoreKept
<1>2. Asks("chains")' /\ Searching' /\ ~Asks("members")' /\ ~Asks("sessions")'
  BY <1>1 DEF Asks, Searching
<1>3. ChainsIs'
  BY <1>1, <1>2 DEF Listings, ChainsIs
<1>4. EveryPageAdvances'
  BY <1>1 DEF Listings, EveryPageAdvances, Beyond
<1> QED BY <1>2, <1>3, <1>4 DEF Listings, MembersIs, SessionsIs

LEMMA BeginSearchLists ==
  ASSUME StoreIs, Listings, BeginSearch
  PROVE  Listings'
<1> DEFINE sent == SentCursor
           M == VisibleIn(Sessions, Retained, sent.snapshot)
<1>1. /\ Asks("chains") /\ cursor # Done /\ Searching
      /\ req' = [at |-> "lookup", seen |-> Retained, rule |-> rule, sent |-> sent,
                 cursor |-> sent, found |-> <<>>, scanned |-> 0, chain |-> None,
                 rest |-> <<>>, last |-> None, more |-> FALSE]
      /\ UNCHANGED <<store, cursor, listed, page>>
  BY DEF BeginSearch, history
<1>2. /\ sent \in Cursors(Sessions, persisted)
      /\ PendingKnown(Sessions, Retained, sent)
      /\ ListsOnce(Sessions, M, sent.before, listed)
  BY <1>1, SentIs
<1> HIDE DEF sent
<1>3. listed \in Seq(SUBSET DOMAIN Sessions)
  BY <1>2 DEF ListsOnce
<1>4. Retained \subseteq 1 .. persisted
  BY RetainedIs
<1>5. /\ req'.at = "lookup" /\ req'.seen = Retained /\ req'.sent = sent /\ req'.cursor = sent
      /\ req'.found = <<>> /\ req'.scanned = 0
  BY <1>1
<1>6. req' \in Searches(Sessions, persisted, req')
  BY <1>1, <1>2, <1>4 DEF Searches, PlaceOrNone
<1>7. LookupGoes(sent, sent, Retained, 0)
  BY DEF LookupGoes
<1>8. listed \o MembersOf(<<>>) = listed
  BY <1>3, NothingAdded
<1>9. Outlives(Retained, Retained, sent.snapshot)
  BY DEF Outlives
<1>10. 0 < MaxCandidates
  BY SizesAssumption
<1>11. SearchIs(Sessions, Retained, persisted, req', listed)
  BY <1>2, <1>3, <1>5, <1>6, <1>7, <1>8, <1>9, <1>10 DEF SearchIs
<1> QED
  BY <1>1, <1>11, SearchOn

-----------------------------------------------------------------------------
(* The steps of the search of a page. *)

LEMMA Searched ==
  ASSUME StoreIs, Listings, req.at = "lookup" \/ req.at = "scan"
  PROVE  /\ Asks("chains") /\ Searching /\ cursor # Done
         /\ SearchIs(Sessions, Retained, persisted, req, listed)
         /\ SessionsAre(Sessions) /\ persisted \in Nat /\ persisted <= Len(Sessions)
         /\ req.seen \in SUBSET DOMAIN Sessions
<1>1. req # Idle
  BY DEF Idle
<1>2. ~Asks("members")
  BY <1>1 DEF Listings, MembersIs
<1>3. ~Asks("sessions")
  BY <1>1 DEF Listings, SessionsIs, RowsReq, BucketReq
<1>4. Asks("chains")
  BY <1>2, <1>3, ScriptIs DEF Asks, StoreIs
<1>5. Searching /\ cursor # Done /\ SearchIs(Sessions, Retained, persisted, req, listed)
  BY <1>1, <1>4 DEF Listings, ChainsIs
<1>6. req.seen \in SUBSET DOMAIN Sessions
  BY <1>5, RetainedIs DEF SearchIs, Searches, SessionsAre
<1> QED BY <1>4, <1>5, <1>6, RetainedIs

\* The candidates of a chain, from the first that was not scanned.
LEMMA CandidatesAre ==
  ASSUME script \in Scripts, NEW C \in SUBSET DOMAIN Sessions, NEW after, NEW size \in Nat,
         \A i \in C : after = None \/ Precedes(after, PlaceOf(Sessions, i)),
         NEW rest, rest = Prefix(InOrder(C), size)
  PROVE  /\ rest \in Seq(DOMAIN Sessions) /\ Len(rest) \in Nat /\ Len(rest) <= size
         /\ RestIs(Sessions, rest, after)
         /\ size > 0 /\ rest = <<>> => ~(Len(InOrder(C)) > size)
         /\ Len(InOrder(C)) \in Nat
         /\ size <= Len(InOrder(C)) => Len(rest) = size
         /\ \A k \in DOMAIN rest : rest[k] = InOrder(C)[k]
<1> DEFINE s == Sessions
           q == InOrder(C)
           R == Pairs(s, C)
<1>1. Enumerates(q, R, C)
  BY InOrderIs
<1> HIDE DEF q, R
<1>2. /\ q \in Seq(C) /\ Len(q) \in Nat /\ DOMAIN q = 1 .. Len(q)
      /\ \A m \in DOMAIN q : q[m] \in C
      /\ \A m, n \in DOMAIN q : m < n => <<q[m], q[n]>> \in R
  BY <1>1 DEF Enumerates
<1>3. rest = Prefix(q, size)
  BY DEF q
<1>4. /\ rest \in Seq(C) /\ Len(rest) \in Nat /\ DOMAIN rest = 1 .. Len(rest)
      /\ Len(rest) <= size
      /\ size <= Len(q) => Len(rest) = size
      /\ \A k \in DOMAIN rest : k \in DOMAIN q /\ rest[k] = q[k]
  BY <1>2, <1>3, PrefixIs
<1>5. rest \in Seq(DOMAIN s)
  <2> HIDE DEF s
  <2> PICK len \in Nat : len = Len(rest)
    BY <1>4, Zenon
  <2>1. C \subseteq DOMAIN s
    BY DEF s
  <2>2. rest = [k \in 1 .. len |-> rest[k]]
    BY <1>4
  <2>3. \A k \in 1 .. len : rest[k] \in DOMAIN s
    BY <1>2, <1>4, <2>1
  <2>4. rest \in [1 .. len -> DOMAIN s]
    BY <2>2, <2>3, Zenon
  <2> QED BY <2>4
<1>6. \A m \in DOMAIN rest : after = None \/ Precedes(after, PlaceOf(s, rest[m]))
  BY <1>2, <1>4, Zenon
<1>7. ASSUME NEW m \in DOMAIN rest, NEW n \in DOMAIN rest, m < n
      PROVE  Precedes(PlaceOf(s, rest[m]), PlaceOf(s, rest[n]))
  <2>1. <<rest[m], rest[n]>> \in R
    BY <1>2, <1>4, <1>7, Zenon
  <2>2. BeforeIn(s, rest[m], rest[n])
    <3> HIDE DEF s
    <3>1. \A x, y : <<x, y>> \in R => BeforeIn(s, x, y)
      BY DEF R, Pairs
    <3> QED BY <2>1, <3>1
  <2> QED BY <2>2, Zenon DEF BeforeIn, Precedes, PlaceOf
<1>8. RestIs(s, rest, after)
  BY <1>6, <1>7 DEF RestIs
<1>9. ASSUME size > 0, rest = <<>>
      PROVE  ~(Len(q) > size)
  BY <1>9, <1>2, <1>4
<1> QED BY <1>2, <1>4, <1>5, <1>8, <1>9 DEF q

LEMMA BudgetIs ==
  ASSUME req.scanned \in Nat, req.scanned < MaxCandidates
  PROVE  Budget \in Nat /\ Budget > 0 /\ req.scanned + Budget <= MaxCandidates
<1> PICK scanned \in Nat : scanned = req.scanned
  OBVIOUS
<1> QED BY SizesAssumption DEF Budget

\* The chain a search goes on with.
LEMMA ChainToScan ==
  ASSUME script \in Scripts, NEW V, NEW top \in Nat, top <= Len(Sessions), NEW q, NEW L,
         SearchIs(Sessions, V, top, q, L), q.at = "lookup", q.seen \in SUBSET DOMAIN Sessions,
         NEW found, found = Summaries(q.seen, q.cursor.snapshot, q.cursor.before),
         NEW chain,
         chain = IF q.cursor.search # None
                 THEN SummaryOf(q.seen, q.cursor.search.chain, q.cursor.snapshot)
                 ELSE IF found = <<>> THEN None ELSE Head(found),
         chain # None,
         NEW after, after = IF q.cursor.search # None THEN q.cursor.search.after ELSE None
  PROVE  /\ IsSummary(Sessions, VisibleIn(Sessions, q.seen, q.cursor.snapshot),
                      q.cursor.snapshot, chain)
         /\ Lower(Position(chain), q.cursor.before)
         /\ ScanGoes(q.cursor, q.sent, q.seen, q.scanned, chain.id, after)
         /\ after \in PlaceOrNone
<1> DEFINE s == Sessions
           n == q.cursor.snapshot
           M == VisibleIn(s, q.seen, n)
           before == q.cursor.before
           i == q.cursor.search.chain
           C == ChainIn(s, M, i)
<1>1. SessionsAre(s)
  BY ScriptIs
<1>2. /\ q.cursor \in Cursors(s, top) /\ PendingKnown(s, q.seen, q.cursor)
      /\ LookupGoes(q.cursor, q.sent, q.seen, q.scanned)
  BY DEF SearchIs, Searches
<1>3. n \in Int /\ before \in PlaceOrNone /\ M \in SUBSET DOMAIN s
  BY <1>2 DEF Cursors, VisibleIn
<1>4. after \in PlaceOrNone
  BY <1>2, ZenonT(20) DEF Cursors, PlaceOrNone
<1> HIDE DEF s
<1>5. CASE q.cursor.search # None
  <2>1. chain = SummaryOf(q.seen, i, n)
    BY <1>5
  <2>2. i \in M /\ chain = SummaryIn(s, C, n)
    <3>1. chain = IF i \in M THEN SummaryIn(s, C, n) ELSE None
      BY <2>1, Links DEF SummaryOf, s
    <3> HIDE DEF M, C, i, n
    <3> QED BY <3>1
  <2>3. IsSummary(s, M, n, chain)
    BY <2>2 DEF IsSummary
  <2>4. chain.id = Min(C) /\ chain.members = C
    BY <2>2 DEF SummaryIn
  <2>5. C \in SUBSET DOMAIN s /\ i \in C
    BY <1>3, <2>2, ChainsPartition
  <2>6. (\A j \in C : i <= j) /\ Lower(PlaceIn(s, C), before)
    BY <1>2, <1>5, <2>2 DEF PendingKnown, VisibleIn
  <2>7. Min(C) = i
    <3>1. C # {} /\ C \subseteq Int
      BY <1>1, <2>5 DEF SessionsAre
    <3> HIDE DEF C, i
    <3>2. Min(C) \in C /\ Min(C) <= i
      BY <1>1, <2>5, <3>1, PlaceIs
    <3> QED BY <2>5, <2>6, <3>1, <3>2
  <2>8. Position(chain) = PlaceIn(s, C)
    BY <2>3, SummaryPlace, <2>4
  <2>9. ScanGoes(q.cursor, q.sent, q.seen, q.scanned, chain.id, after)
    BY <1>5, <2>4, <2>7, <1>2 DEF LookupGoes, ScanGoes, Advanced, Fresh
  <2> QED BY <1>4, <2>3, <2>6, <2>8, <2>9 DEF s
<1>6. CASE q.cursor.search = None
  <2>1. found # <<>> /\ chain = Head(found) /\ after = None
    BY <1>6
  <2>2. /\ found \in Seq(SummariesOf(s))
        /\ \A m \in DOMAIN found : IsSummary(s, M, n, found[m]) /\ Lower(Position(found[m]), before)
    BY <1>3, SummariesSorted DEF s
  <2>3. chain = found[1] /\ 1 \in DOMAIN found
    BY <2>1, <2>2, TailOf, LenProperties
  <2>4. ScanGoes(q.cursor, q.sent, q.seen, q.scanned, chain.id, after)
    BY <1>2, <1>6, <2>1 DEF LookupGoes, ScanGoes, Advanced, Fresh
  <2> QED BY <1>4, <2>2, <2>3, <2>4 DEF s
<1> QED BY <1>5, <1>6

LEMMA LookupLists ==
  ASSUME StoreIs, Listings, Lookup
  PROVE  Listings'
<1> DEFINE pending == req.cursor.search
           found == Summaries(req.seen, req.cursor.snapshot, req.cursor.before)
           chain == IF pending # None THEN SummaryOf(req.seen, pending.chain, req.cursor.snapshot)
                    ELSE IF found = <<>> THEN None ELSE Head(found)
           after == IF pending # None THEN pending.after ELSE None
           C == {i \in MembersAfter(req.seen, chain.id, req.cursor.snapshot, after) :
                   Sessions[i].meets}
           rest == Prefix(InOrder(C), Budget)
           more == Len(InOrder(C)) > Budget
           M == VisibleIn(Sessions, req.seen, req.cursor.snapshot)
<1>1. /\ req.at = "lookup" /\ chain # None
      /\ req' = [req EXCEPT !.at = "scan", !.chain = chain, !.last = after, !.rest = rest,
                            !.more = more]
      /\ UNCHANGED <<store, cursor, listed, page>>
  BY DEF Lookup, history
<1>2. /\ Asks("chains") /\ Searching /\ cursor # Done
      /\ SearchIs(Sessions, Retained, persisted, req, listed)
      /\ persisted \in Nat /\ persisted <= Len(Sessions)
      /\ req.seen \in SUBSET DOMAIN Sessions
  BY <1>1, Searched, Zenon
<1>3. /\ IsSummary(Sessions, M, req.cursor.snapshot, chain)
      /\ Lower(Position(chain), req.cursor.before)
      /\ ScanGoes(req.cursor, req.sent, req.seen, req.scanned, chain.id, after)
      /\ after \in PlaceOrNone
  <2>1. script \in Scripts
    BY DEF StoreIs
  <2> HIDE DEF found
  <2>2. found = Summaries(req.seen, req.cursor.snapshot, req.cursor.before)
    BY DEF found
  <2>3. /\ chain = IF pending # None
                   THEN SummaryOf(req.seen, pending.chain, req.cursor.snapshot)
                   ELSE IF found = <<>> THEN None ELSE Head(found)
        /\ after = IF pending # None THEN pending.after ELSE None
    OBVIOUS
  <2> HIDE DEF chain, after
  <2> QED BY <1>1, <1>2, <2>1, <2>2, <2>3, ChainToScan
<1>4. C \in SUBSET DOMAIN Sessions
      /\ \A i \in C : after = None \/ Precedes(after, PlaceOf(Sessions, i))
  <2>1. \A i \in C : i \in VisibleIn(Sessions, req.seen, req.cursor.snapshot)
                     /\ (after = None \/ Precedes(after, PlaceOf(Sessions, i)))
    <3> HIDE DEF chain, after
    <3> QED BY Links DEF MembersAfter
  <2> HIDE DEF C
  <2> QED BY <1>2, <2>1 DEF VisibleIn
<1>5. req \in Searches(Sessions, persisted, req) /\ req.scanned < MaxCandidates
  BY <1>1, <1>2 DEF SearchIs
<1>6. req.scanned \in Nat
  BY <1>5 DEF Searches
<1>7. Budget \in Nat /\ Budget > 0 /\ req.scanned + Budget <= MaxCandidates
  BY <1>5, <1>6, BudgetIs
<1> HIDE DEF chain, after, C
<1>8. /\ rest \in Seq(DOMAIN Sessions) /\ Len(rest) \in Nat /\ Len(rest) <= Budget
      /\ RestIs(Sessions, rest, after)
      /\ rest = <<>> => ~more
  BY <1>4, <1>7, CandidatesAre DEF StoreIs
<1>9. more \in BOOLEAN
  OBVIOUS
<1> HIDE DEF rest, more
<1>10. req.scanned + Len(rest) <= MaxCandidates
  BY <1>6, <1>7, <1>8, SizesAssumption
<1>11. /\ req'.at = "scan" /\ req'.chain = chain /\ req'.last = after /\ req'.rest = rest
       /\ req'.more = more /\ req'.cursor = req.cursor /\ req'.sent = req.sent
       /\ req'.seen = req.seen /\ req'.found = req.found /\ req'.scanned = req.scanned
       /\ req' \in Searches(Sessions, persisted, req')
  BY <1>1, <1>3, <1>5, <1>8, <1>9 DEF Searches
<1>12. ScanIs(Sessions, req')
  BY <1>3, <1>8, <1>10, <1>11 DEF ScanIs
<1>13. SearchIs(Sessions, Retained, persisted, req', listed)
  BY <1>2, <1>11, <1>12 DEF SearchIs
<1> QED BY <1>1, <1>2, <1>13, SearchOn
\* The request is over, without an answer.
LEMMA SearchFailsLists ==
  ASSUME StoreIs, Listings, SearchFails
  PROVE  Listings'
<1>1. /\ Sessions' = Sessions /\ Retained' = Retained /\ script' = script
      /\ persisted' = persisted /\ cursor' = cursor /\ listed' = listed /\ page' = page
      /\ req' = Idle
  BY StoreKept DEF SearchFails, history
<1>2. (Asks("chains") <=> Asks("chains")') /\ (Asks("members") <=> Asks("members")')
      /\ (Asks("sessions") <=> Asks("sessions")') /\ (Searching <=> Searching')
  BY <1>1 DEF Asks, Searching
<1>3. ChainsIs'
  BY <1>1, <1>2 DEF Listings, ChainsIs
<1>4. MembersIs' /\ SessionsIs'
  BY <1>1, <1>2 DEF Listings, MembersIs, SessionsIs
<1>5. EveryPageAdvances'
  BY <1>1 DEF Listings, EveryPageAdvances, Beyond
<1> QED BY <1>3, <1>4, <1>5 DEF Listings

LEMMA NothingFoundLists ==
  ASSUME StoreIs, Listings, NothingFound
  PROVE  Listings'
<1> DEFINE pending == req.cursor.search
           n == req.cursor.snapshot
           M == VisibleIn(Sessions, req.seen, n)
<1>1. req.at = "lookup"
  BY DEF NothingFound
<1>2. /\ Asks("chains") /\ Searching /\ cursor # Done
      /\ SearchIs(Sessions, Retained, persisted, req, listed)
      /\ req.seen \in SUBSET DOMAIN Sessions
      /\ persisted \in Nat /\ SessionsAre(Sessions)
  BY <1>1, Searched
<1>3. /\ req \in Searches(Sessions, persisted, req) /\ req.cursor \in Cursors(Sessions, persisted)
      /\ PendingKnown(Sessions, req.seen, req.cursor)
      /\ LookupGoes(req.cursor, req.sent, req.seen, req.scanned)
  BY <1>1, <1>2 DEF SearchIs, Searches
<1>4. CASE pending # None
  <2>1. /\ SummaryOf(req.seen, pending.chain, n) = None
        /\ req' = [req EXCEPT !.cursor.search = None]
        /\ UNCHANGED <<store, cursor, listed, page>>
    BY <1>4 DEF NothingFound, history
  <2>2. pending.chain \notin M
    <3> SUFFICES ASSUME pending.chain \in M
                 PROVE  FALSE
      OBVIOUS
    <3>1. SummaryOf(req.seen, pending.chain, n)
          = SummaryIn(Sessions, ChainIn(Sessions, M, pending.chain), n)
      BY Links DEF SummaryOf
    <3>2. M \in SUBSET DOMAIN Sessions /\ n \in Int
      BY <1>2, <1>3 DEF VisibleIn, Cursors
    <3>3. None # SummaryIn(Sessions, ChainIn(Sessions, M, pending.chain), n)
      <4>1. script \in Scripts
        BY DEF StoreIs
      <4> HIDE DEF M, n, pending
      <4> QED BY <3>2, <4>1, NoneIsNone
    <3> QED BY <2>1, <3>1, <3>3
  <2>3. pending.chain \notin req.seen
    BY <1>3, <1>4, <2>2 DEF PendingKnown, VisibleIn
  <2>4. req.scanned = 0 /\ req.cursor.before = req.sent.before /\ Fresh(req.sent, req.seen)
    BY <1>3, <1>4, <2>3 DEF LookupGoes, Fresh
  <2> DEFINE c == [req.cursor EXCEPT !.search = None]
  <2>5. /\ c \in Cursors(Sessions, persisted) /\ c.search = None
        /\ c.before = req.cursor.before /\ c.snapshot = n
    BY <1>3 DEF Cursors
  <2>6. /\ req'.cursor = c /\ req'.at = "lookup" /\ req'.seen = req.seen /\ req'.sent = req.sent
        /\ req'.found = req.found /\ req'.scanned = req.scanned
        /\ req' \in Searches(Sessions, persisted, req')
    <3> HIDE DEF c
    <3>1. req' = [req EXCEPT !.cursor = c]
      BY <1>3, <2>1 DEF c, Searches, Cursors
    <3> QED BY <1>1, <1>3, <2>5, <3>1 DEF Searches
  <2> HIDE DEF c
  <2>7. PendingKnown(Sessions, req.seen, c)
    BY <2>5 DEF PendingKnown
  <2>8. LookupGoes(c, req.sent, req.seen, req.scanned)
    BY <2>4, <2>5 DEF LookupGoes
  <2>9. SearchIs(Sessions, Retained, persisted, req', listed)
    BY <1>1, <1>2, <2>5, <2>6, <2>7, <2>8 DEF SearchIs
  <2> QED BY <1>2, <2>1, <2>9, SearchOn
<1>5. CASE pending = None
  BY <1>5, <1>3, <1>2, Answered DEF NothingFound, Searches, PageIs, SearchIs, ListsOnce
<1> QED BY <1>4, <1>5

LEMMA SearchInterruptedLists ==
  ASSUME StoreIs, Listings, SearchInterrupted
  PROVE  Listings'
<1>1. req.at = "lookup" /\ req.scanned > 0
      /\ Answer(req.seen, req.rule, req.sent, req.found, req.cursor)
  BY DEF SearchInterrupted
<1>2. /\ Asks("chains") /\ Searching /\ cursor # Done
      /\ SearchIs(Sessions, Retained, persisted, req, listed)
      /\ req.seen \in SUBSET DOMAIN Sessions
  BY <1>1, Searched
<1>3. /\ req.cursor \in Cursors(Sessions, persisted)
      /\ req.found \in Seq(SummariesOf(Sessions)) /\ req.scanned \in Nat
      /\ LookupGoes(req.cursor, req.sent, req.seen, req.scanned)
  BY <1>1, <1>2 DEF SearchIs, Searches
<1>4. Advanced(req.cursor, req.sent, req.seen)
  BY <1>1, <1>3 DEF LookupGoes
<1>5. PageIs(Sessions, req.seen, Retained, persisted, req.sent, req.cursor, listed, req.found)
  BY <1>2, <1>3, <1>4 DEF PageIs, SearchIs, ListsOnce
<1> QED BY <1>1, <1>2, <1>5, Answered

\* A candidate of the chain is further in it than the last one.
LEMMA ScanGoesOn ==
  ASSUME NEW c, NEW sent, NEW seen, NEW scanned, NEW chain, NEW last \in PlaceOrNone,
         sent.search # None => sent.search.after \in PlaceOrNone,
         ScanGoes(c, sent, seen, scanned, chain, last),
         NEW p \in Place, last = None \/ Precedes(last, p)
  PROVE  Lowered(c, sent) \/ (c.before = sent.before /\ Further(sent, seen, chain, p))
<1>1. p # None
  BY NoneIsNone
<1>2. CASE Lowered(c, sent)
  BY <1>2
<1>3. CASE c.before = sent.before /\ Fresh(sent, seen)
  BY <1>1, <1>3 DEF Further
<1>4. CASE /\ c.before = sent.before /\ ~Fresh(sent, seen) /\ sent.search.chain = chain
           /\ last = sent.search.after
  BY <1>1, <1>4 DEF Further
<1>5. CASE /\ c.before = sent.before /\ ~Fresh(sent, seen) /\ sent.search.chain = chain
           /\ last # None /\ (sent.search.after = None \/ Precedes(sent.search.after, last))
  <2>1. sent.search # None
    BY <1>5 DEF Fresh
  <2>2. last \in Place /\ Precedes(last, p)
    BY <1>5 DEF PlaceOrNone
  <2>3. CASE sent.search.after = None
    BY <1>1, <1>5, <2>3 DEF Further
  <2>4. CASE sent.search.after # None
    BY <1>5, <2>1, <2>4, <2>2, PrecedesOrders, <1>1 DEF PlaceOrNone, Further
  <2> QED BY <2>3, <2>4
<1> QED BY <1>2, <1>3, <1>4, <1>5 DEF ScanGoes, Further

LEMMA ScanInterruptedLists ==
  ASSUME StoreIs, Listings, ScanInterrupted
  PROVE  Listings'
<1> DEFINE c == [req.cursor EXCEPT !.search = Pending]
<1>1. req.at = "scan" /\ req.scanned > 0 /\ Answer(req.seen, req.rule, req.sent, req.found, c)
  BY DEF ScanInterrupted
<1>2. /\ Asks("chains") /\ Searching /\ cursor # Done
      /\ SearchIs(Sessions, Retained, persisted, req, listed)
      /\ SessionsAre(Sessions) /\ persisted \in Nat /\ persisted <= Len(Sessions)
      /\ req.seen \in SUBSET DOMAIN Sessions
  BY <1>1, Searched
<1>3. /\ req.last \in PlaceOrNone /\ req.found \in Seq(SummariesOf(Sessions))
      /\ req.scanned \in Nat
      /\ ScanGoes(req.cursor, req.sent, req.seen, req.scanned, req.chain.id, req.last)
  BY <1>1, <1>2 DEF SearchIs, Searches, ScanIs
<1>4. c = [req.cursor EXCEPT !.search = [chain |-> req.chain.id, after |-> req.last]]
  BY DEF Pending
<1>8. c = Partial(req, req.last)
  BY <1>4 DEF Partial
<1> HIDE DEF c
<1>5. /\ c \in Cursors(Sessions, persisted) /\ PendingKnown(Sessions, req.seen, c)
      /\ c.snapshot = req.cursor.snapshot /\ c.before = req.cursor.before
      /\ c.search # None /\ c.search.chain = req.chain.id /\ c.search.after = req.last
  <2>1. /\ SessionsAre(Sessions) /\ persisted \in Nat /\ persisted <= Len(Sessions)
        /\ SearchIs(Sessions, Retained, persisted, req, listed) /\ req.at = "scan"
        /\ req.last \in PlaceOrNone
    BY <1>1, <1>2, <1>3
  <2>2. ASSUME NEW last \in PlaceOrNone
        PROVE  /\ Partial(req, last) \in Cursors(Sessions, persisted)
               /\ PendingKnown(Sessions, req.seen, Partial(req, last))
               /\ Partial(req, last).snapshot = req.cursor.snapshot
               /\ Partial(req, last).before = req.cursor.before
               /\ Partial(req, last).search # None
               /\ Partial(req, last).search.chain = req.chain.id
               /\ Partial(req, last).search.after = last
    BY <2>1, PartialIs, SMTT(60)
  <2> QED BY <1>8, <2>1, <2>2
<1>6. Advanced(c, req.sent, req.seen)
  BY <1>1, <1>3, <1>5 DEF ScanGoes, Advanced, Lowered
<1>7. PageIs(Sessions, req.seen, Retained, persisted, req.sent, c, listed, req.found)
  BY <1>2, <1>3, <1>5, <1>6 DEF PageIs, SearchIs, ListsOnce
<1> QED BY <1>1, <1>2, <1>7, Answered

\* After the candidates of a chain: on with another one, or the page is full.
LEMMA ChainSettledLists ==
  ASSUME StoreIs, Listings, req.at = "scan",
         NEW hit \in BOOLEAN, NEW last \in PlaceOrNone, NEW scanned \in Nat,
         scanned <= MaxCandidates,
         ~hit /\ req.more =>
           \/ Lowered(req.cursor, req.sent)
           \/ /\ req.cursor.before = req.sent.before
              /\ Further(req.sent, req.seen, req.chain.id, last),
         ChainSettled(hit, last, scanned)
  PROVE  Listings'
<1> DEFINE settled == [req.cursor EXCEPT !.before = Position(req.chain), !.search = None]
           partial == [req.cursor EXCEPT !.search = [chain |-> req.chain.id, after |-> last]]
           next == IF hit \/ ~req.more THEN settled ELSE partial
           found == IF hit THEN Append(req.found, req.chain) ELSE req.found
<1>1. IF Len(found) = Limit \/ scanned = MaxCandidates
      THEN Answer(req.seen, req.rule, req.sent, found, next)
      ELSE /\ req' = [req EXCEPT !.at = "lookup", !.cursor = next, !.found = found,
                                 !.scanned = scanned, !.chain = None, !.rest = <<>>,
                                 !.last = None, !.more = FALSE]
           /\ UNCHANGED <<store, cursor, listed, page>>
  BY DEF ChainSettled, history
<1>2. /\ Asks("chains") /\ Searching /\ cursor # Done
      /\ SearchIs(Sessions, Retained, persisted, req, listed)
      /\ SessionsAre(Sessions) /\ persisted \in Nat /\ persisted <= Len(Sessions)
      /\ req.seen \in SUBSET DOMAIN Sessions
  BY Searched
<1>3. /\ req \in Searches(Sessions, persisted, req)
      /\ req.found \in Seq(SummariesOf(Sessions)) /\ req.more \in BOOLEAN
      /\ ListsOnce(Sessions, VisibleIn(Sessions, req.seen, req.cursor.snapshot),
                   req.cursor.before, listed \o MembersOf(req.found))
      /\ Outlives(req.seen, Retained, req.cursor.snapshot)
      /\ req.sent.snapshot = req.cursor.snapshot
      /\ listed \in Seq(SUBSET DOMAIN Sessions)
  BY <1>2 DEF SearchIs, Searches
<1>4. /\ settled \in Cursors(Sessions, persisted)
      /\ PendingKnown(Sessions, req.seen, settled)
      /\ settled.snapshot = req.cursor.snapshot
      /\ req.chain \in SummariesOf(Sessions)
      /\ ListsOnce(Sessions, VisibleIn(Sessions, req.seen, settled.snapshot), settled.before,
                   listed \o MembersOf(req.found))
      /\ ListsOnce(Sessions, VisibleIn(Sessions, req.seen, settled.snapshot), settled.before,
                   listed \o MembersOf(Append(req.found, req.chain)))
      /\ Lowered(settled, req.sent)
  <2>1. settled = Settled(req)
    BY DEF Settled
  <2> HIDE DEF settled, partial
  <2> QED BY <1>2, <2>1, SettledIs
<1>5. settled.search = None
  BY <1>2 DEF SearchIs, Searches, Cursors
<1>6. /\ partial \in Cursors(Sessions, persisted)
      /\ PendingKnown(Sessions, req.seen, partial)
      /\ partial.snapshot = req.cursor.snapshot /\ partial.before = req.cursor.before
      /\ partial.search # None /\ partial.search.chain = req.chain.id
      /\ partial.search.after = last
  <2>1. partial = Partial(req, last)
    BY DEF Partial
  <2> HIDE DEF settled, partial
  <2> QED BY <1>2, <2>1, PartialIs
<1> HIDE DEF settled, partial
<1>7. /\ next \in Cursors(Sessions, persisted)
      /\ PendingKnown(Sessions, req.seen, next)
      /\ next.snapshot = req.cursor.snapshot
  BY <1>4, <1>6
<1>8. found \in Seq(SummariesOf(Sessions))
  BY <1>3, <1>4, AppendProperties
<1>9. ListsOnce(Sessions, VisibleIn(Sessions, req.seen, next.snapshot), next.before,
                listed \o MembersOf(found))
  <2>1. CASE hit
    BY <1>4, <2>1
  <2>2. CASE ~hit /\ ~req.more
    BY <1>4, <2>2
  <2>3. CASE ~hit /\ req.more
    BY <1>3, <1>6, <2>3
  <2> QED BY <2>1, <2>2, <2>3
<1>10. /\ Advanced(next, req.sent, req.seen)
       /\ next.search = None \/ next.search.chain \in req.seen
  <2>1. CASE hit \/ ~req.more
    BY <1>4, <1>5, <2>1 DEF Advanced
  <2>2. CASE ~(hit \/ ~req.more)
    <3>1. Advanced(partial, req.sent, req.seen)
      BY <1>6, <2>2 DEF Advanced, Lowered
    <3>2. req.chain.id \in req.seen
      <4> DEFINE M == VisibleIn(Sessions, req.seen, req.cursor.snapshot)
      <4>1. IsSummary(Sessions, M, req.cursor.snapshot, req.chain)
        BY <1>2 DEF SearchIs, ScanIs
      <4>2. M \in SUBSET DOMAIN Sessions /\ M \subseteq req.seen
        BY <1>2 DEF VisibleIn
      <4> HIDE DEF M
      <4>3. req.chain.id \in M
        BY <1>2, <4>1, <4>2, SummaryIs
      <4> QED BY <4>2, <4>3
    <3> QED BY <1>6, <2>2, <3>1, <3>2
  <2> QED BY <2>1, <2>2
<1> HIDE DEF next, found
<1>11. CASE Len(found) = Limit \/ scanned = MaxCandidates
  BY <1>1, <1>11, <1>3, <1>7, <1>8, <1>9, <1>10, <1>2, Answered DEF PageIs, ListsOnce
<1>12. CASE ~(Len(found) = Limit \/ scanned = MaxCandidates)
  <2>1. /\ req' = [req EXCEPT !.at = "lookup", !.cursor = next, !.found = found,
                              !.scanned = scanned, !.chain = None, !.rest = <<>>,
                              !.last = None, !.more = FALSE]
        /\ UNCHANGED <<store, cursor, listed, page>>
    BY <1>1, <1>12
  <2>2. scanned < MaxCandidates
    BY <1>12, SizesAssumption
  <2>3. /\ req'.at = "lookup" /\ req'.cursor = next /\ req'.found = found
        /\ req'.scanned = scanned /\ req'.seen = req.seen /\ req'.sent = req.sent
        /\ req' \in Searches(Sessions, persisted, req')
    <3>1. <<>> \in Seq(DOMAIN Sessions) /\ None \in PlaceOrNone
      BY DEF PlaceOrNone
    <3> QED BY <1>3, <1>7, <1>8, <2>1, <3>1 DEF Searches
  <2>4. LookupGoes(next, req.sent, req.seen, scanned)
    BY <1>10 DEF LookupGoes
  <2>5. SearchIs(Sessions, Retained, persisted, req', listed)
    BY <1>3, <1>7, <1>9, <2>2, <2>3, <2>4 DEF SearchIs
  <2> QED BY <1>2, <2>1, <2>5, SearchOn
<1> QED BY <1>11, <1>12

LEMMA ScanNothingLists ==
  ASSUME StoreIs, Listings, ScanNothing
  PROVE  Listings'
<1>1. req.at = "scan" /\ req.rest = <<>> /\ ChainSettled(FALSE, req.last, req.scanned)
  BY DEF ScanNothing
<1>2. SearchIs(Sessions, Retained, persisted, req, listed)
  BY <1>1, Searched
<1>3. ~req.more /\ req.last \in PlaceOrNone /\ req.scanned \in Nat
      /\ req.scanned + Len(req.rest) <= MaxCandidates
  BY <1>1, <1>2 DEF SearchIs, Searches, ScanIs
<1>4. req.scanned <= MaxCandidates
  BY <1>1, <1>3, SizesAssumption
<1> QED BY <1>1, <1>3, <1>4, ChainSettledLists

LEMMA ScanLists ==
  ASSUME StoreIs, Listings, Scan
  PROVE  Listings'
<1> DEFINE i == Head(req.rest)
           p == PositionOf(i)
           rest == Tail(req.rest)
<1>1. /\ req.at = "scan" /\ req.rest # <<>>
      /\ IF Sessions[i].hits \/ Len(req.rest) = 1
         THEN ChainSettled(Sessions[i].hits, p, req.scanned + 1)
         ELSE /\ req' = [req EXCEPT !.rest = rest, !.scanned = @ + 1, !.last = p]
              /\ UNCHANGED <<store, cursor, listed, page>>
  BY DEF Scan, history
<1>2. /\ Asks("chains") /\ Searching /\ cursor # Done
      /\ SearchIs(Sessions, Retained, persisted, req, listed)
      /\ SessionsAre(Sessions) /\ persisted \in Nat /\ persisted <= Len(Sessions)
      /\ req.seen \in SUBSET DOMAIN Sessions
  BY <1>1, Searched
<1>3. /\ req \in Searches(Sessions, persisted, req)
      /\ ScanIs(Sessions, req) /\ req.rest \in Seq(DOMAIN Sessions) /\ req.scanned \in Nat
      /\ req.last \in PlaceOrNone /\ req.sent \in Cursors(Sessions, persisted)
      /\ RestIs(Sessions, req.rest, req.last)
      /\ req.scanned + Len(req.rest) <= MaxCandidates
      /\ ScanGoes(req.cursor, req.sent, req.seen, req.scanned, req.chain.id, req.last)
  BY <1>1, <1>2 DEF SearchIs, Searches, ScanIs
<1>4. /\ rest \in Seq(DOMAIN Sessions) /\ Len(rest) = Len(req.rest) - 1
      /\ Len(req.rest) \in Nat \ {0} /\ i = req.rest[1] /\ i \in DOMAIN Sessions
      /\ \A k \in DOMAIN rest : k + 1 \in DOMAIN req.rest /\ rest[k] = req.rest[k + 1]
      /\ 1 \in DOMAIN req.rest /\ DOMAIN rest \subseteq Nat \ {0}
      /\ DOMAIN rest = 1 .. Len(rest)
  <2>1. /\ rest \in Seq(DOMAIN Sessions) /\ Len(rest) = Len(req.rest) - 1
        /\ Len(req.rest) \in Nat \ {0} /\ i = req.rest[1] /\ i \in DOMAIN Sessions
        /\ \A k \in DOMAIN rest : k + 1 \in DOMAIN req.rest /\ rest[k] = req.rest[k + 1]
    BY <1>1, <1>3, TailOf
  <2>2. DOMAIN req.rest = 1 .. Len(req.rest) /\ DOMAIN rest = 1 .. Len(rest) /\ Len(rest) \in Nat
    BY <1>3, <2>1, LenProperties
  <2> QED BY <2>1, <2>2
<1>5. p = PlaceOf(Sessions, i)
  BY Links
<1>6. p \in Place /\ (req.last = None \/ Precedes(req.last, p))
  BY <1>2, <1>4, <1>5, <1>3 DEF PlaceOf, Place, SessionsAre, RestIs
<1> HIDE DEF i, p, rest
<1>7. \/ Lowered(req.cursor, req.sent)
      \/ /\ req.cursor.before = req.sent.before
         /\ Further(req.sent, req.seen, req.chain.id, p)
  BY <1>3, <1>6, ScanGoesOn DEF Cursors
<1>8. req.scanned + 1 \in Nat /\ req.scanned + 1 + Len(rest) <= MaxCandidates /\ Len(rest) \in Nat
  BY <1>3, <1>4, SizesAssumption
<1>9. CASE Sessions[i].hits \/ Len(req.rest) = 1
  <2>1. ChainSettled(Sessions[i].hits, p, req.scanned + 1)
    BY <1>1, <1>9
  <2>2. req.scanned + 1 <= MaxCandidates
    BY <1>8, SizesAssumption
  <2>3. Sessions[i].hits \in BOOLEAN /\ p \in PlaceOrNone
    BY <1>4, <1>6, ScriptsAssumption DEF StoreIs, PlaceOrNone, Sessions
  <2> QED BY <1>1, <1>7, <1>8, <2>1, <2>2, <2>3, ChainSettledLists
<1>10. CASE ~(Sessions[i].hits \/ Len(req.rest) = 1)
  <2>1. /\ req' = [req EXCEPT !.rest = rest, !.scanned = @ + 1, !.last = p]
        /\ UNCHANGED <<store, cursor, listed, page>>
    BY <1>1, <1>10
  <2>2. /\ req'.at = "scan" /\ req'.cursor = req.cursor /\ req'.found = req.found
        /\ req'.scanned = req.scanned + 1 /\ req'.seen = req.seen /\ req'.sent = req.sent
        /\ req'.rest = rest /\ req'.last = p /\ req'.chain = req.chain /\ req'.more = req.more
        /\ req' \in Searches(Sessions, persisted, req')
    BY <1>1, <1>3, <1>4, <1>6, <1>8, <2>1 DEF Searches, PlaceOrNone
  <2>3. rest # <<>>
    <3>1. Len(rest) # 0
      BY <1>4, <1>10
    <3> QED BY <3>1
  <2>4. RestIs(Sessions, rest, p)
    <3>1. \A k \in DOMAIN rest : Precedes(p, PlaceOf(Sessions, rest[k]))
      <4> TAKE k \in DOMAIN rest
      <4>1. 1 < k + 1 /\ k + 1 \in DOMAIN req.rest /\ rest[k] = req.rest[k + 1]
        BY <1>4
      <4> QED BY <1>3, <1>4, <1>5, <4>1 DEF RestIs
    <3>2. \A k, l \in DOMAIN rest :
            k < l => Precedes(PlaceOf(Sessions, rest[k]), PlaceOf(Sessions, rest[l]))
      <4> TAKE k, l \in DOMAIN rest
      <4> HAVE k < l
      <4>1. /\ k + 1 < l + 1 /\ k + 1 \in DOMAIN req.rest /\ rest[k] = req.rest[k + 1]
            /\ l + 1 \in DOMAIN req.rest /\ rest[l] = req.rest[l + 1]
        BY <1>4
      <4> QED BY <1>3, <4>1 DEF RestIs
    <3> QED BY <3>1, <3>2 DEF RestIs
  <2>5. ScanGoes(req.cursor, req.sent, req.seen, req.scanned + 1, req.chain.id, p)
    BY <1>7 DEF ScanGoes
  <2>6. ScanIs(Sessions, req')
    BY <1>3, <1>8, <2>2, <2>3, <2>4, <2>5 DEF ScanIs
  <2>7. SearchIs(Sessions, Retained, persisted, req', listed)
    BY <1>2, <2>2, <2>6 DEF SearchIs
  <2> QED BY <1>2, <2>1, <2>7, SearchOn
<1> QED
  BY <1>9, <1>10

-----------------------------------------------------------------------------
(* The members of one chain. *)

LEMMA MembersExtend ==
  ASSUME NEW s, SessionsAre(s), NEW L \in Seq(DOMAIN s), Ascends(s, L),
         NEW after \in PlaceOrNone, after = None => L = <<>>,
         after # None => \A m \in DOMAIN L : ~Precedes(after, PlaceOf(s, L[m])),
         NEW A \in Seq(DOMAIN s), RestIs(s, A, after)
  PROVE  /\ L \o A \in Seq(DOMAIN s) /\ Ascends(s, L \o A)
         /\ Len(A) # 0 =>
              \A m \in DOMAIN (L \o A) : ~Precedes(PlaceOf(s, A[Len(A)]), PlaceOf(s, (L \o A)[m]))
<1> DEFINE q == L \o A
<1> PICK len \in Nat, size \in Nat : len = Len(L) /\ size = Len(A)
  BY LenProperties
<1>1. /\ q \in Seq(DOMAIN s) /\ DOMAIN q = 1 .. len + size
      /\ DOMAIN L = 1 .. len /\ DOMAIN A = 1 .. size
      /\ \A n \in DOMAIN q :
           \/ n \in DOMAIN L /\ q[n] = L[n]
           \/ n > len /\ n - len \in DOMAIN A /\ q[n] = A[n - len]
  BY Concatenated
<1> HIDE DEF q
<1>2. /\ \A m \in DOMAIN L : PlaceOf(s, L[m]) \in Place
      /\ \A m \in DOMAIN A : PlaceOf(s, A[m]) \in Place
  <2>1. /\ \A m \in DOMAIN L : L[m] \in DOMAIN s
        /\ \A m \in DOMAIN A : A[m] \in DOMAIN s
    BY <1>1, ElementOfSeq
  <2> QED BY <2>1 DEF PlaceOf, Place, SessionsAre
<1>3. ASSUME NEW m \in DOMAIN L, NEW n \in DOMAIN A
      PROVE  Precedes(PlaceOf(s, L[m]), PlaceOf(s, A[n]))
  BY <1>3, <1>2, PrecedesOrders DEF RestIs, PlaceOrNone
<1>4. ASSUME NEW m \in DOMAIN q, NEW n \in DOMAIN q, m < n
      PROVE  Precedes(PlaceOf(s, q[m]), PlaceOf(s, q[n]))
  <2>1. m \in Nat /\ n \in Nat
    BY <1>1
  <2>2. CASE m \in DOMAIN L /\ n \in DOMAIN L /\ q[m] = L[m] /\ q[n] = L[n]
    BY <1>4, <2>2 DEF Ascends
  <2>3. CASE m \in DOMAIN L /\ q[m] = L[m] /\ n - len \in DOMAIN A /\ q[n] = A[n - len]
    BY <1>3, <2>3
  <2>4. CASE /\ m > len /\ m - len \in DOMAIN A /\ q[m] = A[m - len]
             /\ n > len /\ n - len \in DOMAIN A /\ q[n] = A[n - len]
    BY <1>4, <2>1, <2>4 DEF RestIs
  <2>5. CASE m > len /\ n \in DOMAIN L
    BY <1>1, <1>4, <2>1, <2>5
  <2> QED BY <1>1, <2>2, <2>3, <2>4, <2>5
<1>5. Ascends(s, q)
  BY <1>4 DEF Ascends
<1>6. ASSUME size # 0, NEW m \in DOMAIN q
      PROVE  ~Precedes(PlaceOf(s, A[size]), PlaceOf(s, q[m]))
  <2>1. size \in DOMAIN A /\ PlaceOf(s, A[size]) \in Place
    BY <1>1, <1>2, <1>6
  <2>2. CASE m \in DOMAIN L /\ q[m] = L[m]
    BY <1>2, <1>3, <2>1, <2>2, PrecedesOrders
  <2>3. CASE m - len \in DOMAIN A /\ q[m] = A[m - len]
    <3>1. m - len = size \/ m - len < size
      BY <1>1, <2>3
    <3>2. CASE m - len = size
      BY <2>1, <2>3, <3>2, PrecedesOrders
    <3>3. CASE m - len < size
      BY <2>1, <2>3, <3>3, <1>2, PrecedesOrders DEF RestIs
    <3> QED BY <3>1, <3>2, <3>3
  <2> QED BY <1>1, <2>2, <2>3
<1> QED BY <1>1, <1>5, <1>6 DEF q

LEMMA MemberPageLists ==
  ASSUME StoreIs, Listings, MemberPage
  PROVE  Listings'
<1> DEFINE s == Sessions
           sent == SentMembers
           anchor == script.asks.anchor
           C == MembersAfter(Retained, anchor, sent.snapshot, sent.after)
           rest == InOrder(C)
           rows == Prefix(rest, Limit)
           gone == SummaryOf(Retained, anchor, sent.snapshot) = None
           further == [sent EXCEPT !.after = PositionOf(rest[Limit])]
           next == IF gone \/ Len(rest) <= Limit THEN Done ELSE further
<1>1. /\ Asks("members") /\ cursor # Done
      /\ page' = [at |-> IF gone THEN "gone" ELSE "members", from |-> sent, next |-> next]
      /\ listed' = listed \o rows /\ cursor' = next /\ req' = req /\ UNCHANGED store
  BY DEF MemberPage
<1>2. /\ req = Idle /\ MembersAre(s, cursor, listed)
      /\ listed \in Seq(DOMAIN s) /\ Ascends(s, listed)
  BY <1>1 DEF Listings, MembersIs, MembersAre
<1>3. script \in Scripts /\ SessionsAre(s) /\ Retained \in SUBSET DOMAIN s
      /\ persisted \in Nat
  BY RetainedIs DEF StoreIs
<1>4. /\ sent.after \in PlaceOrNone
      /\ sent.after = None => listed = <<>>
      /\ sent.after # None => \A m \in DOMAIN listed : ~Precedes(sent.after, PlaceOf(s, listed[m]))
      /\ sent \in [at : {"members"}, snapshot : Int, after : PlaceOrNone]
  <2>1. CASE cursor # First
    BY <2>1, <1>1, <1>2, NoneIsNone DEF SentMembers, MembersAre, PlaceOrNone
  <2>2. CASE cursor = First
    <3> DEFINE n == IF script.asks.pinned THEN script.early ELSE Snapshot(Retained)
    <3>1. n \in Int
      BY <1>3, ScriptIs, SnapshotIs
    <3> HIDE DEF n
    <3>2. sent = [at |-> "members", after |-> None, snapshot |-> n]
      BY <2>2 DEF SentMembers, n
    <3> QED BY <1>2, <2>2, <3>1, <3>2 DEF MembersAre, PlaceOrNone
  <2> QED BY <2>1, <2>2
<1> HIDE DEF sent
<1>5. C \in SUBSET DOMAIN s
      /\ \A i \in C : sent.after = None \/ Precedes(sent.after, PlaceOf(s, i))
  <2>1. \A i \in C : i \in VisibleIn(s, Retained, sent.snapshot)
                     /\ (sent.after = None \/ Precedes(sent.after, PlaceOf(s, i)))
    BY Links DEF MembersAfter
  <2> HIDE DEF C
  <2> QED BY <1>3, <2>1 DEF VisibleIn
<1> HIDE DEF C
<1>6. /\ rows \in Seq(DOMAIN s) /\ Len(rows) \in Nat /\ Len(rows) <= Limit
      /\ RestIs(s, rows, sent.after)
      /\ Len(rest) \in Nat
      /\ Limit <= Len(rest) => Len(rows) = Limit
      /\ \A k \in DOMAIN rows : rows[k] = rest[k]
  <2>1. Limit \in Nat
    BY SizesAssumption
  <2>2. rows = Prefix(InOrder(C), Limit)
    OBVIOUS
  <2> HIDE DEF rows
  <2>3. /\ rows \in Seq(DOMAIN Sessions) /\ Len(rows) \in Nat /\ Len(rows) <= Limit
        /\ RestIs(Sessions, rows, sent.after)
        /\ Len(InOrder(C)) \in Nat
        /\ Limit <= Len(InOrder(C)) => Len(rows) = Limit
        /\ \A k \in DOMAIN rows : rows[k] = InOrder(C)[k]
    <3>1. C \in SUBSET DOMAIN Sessions
          /\ \A i \in C : sent.after = None \/ Precedes(sent.after, PlaceOf(Sessions, i))
      BY <1>5
    <3> HIDE DEF s, rest, gone, further, next
    <3> QED
      <4>1. script \in Scripts /\ C \in SUBSET DOMAIN Sessions
        BY <1>3, <3>1
      <4> PICK after : after = sent.after
        OBVIOUS
      <4>2. \A i \in C : after = None \/ Precedes(after, PlaceOf(Sessions, i))
        BY <3>1
      <4>3. /\ rows \in Seq(DOMAIN Sessions) /\ Len(rows) \in Nat /\ Len(rows) <= Limit
            /\ RestIs(Sessions, rows, after)
            /\ Len(InOrder(C)) \in Nat
            /\ Limit <= Len(InOrder(C)) => Len(rows) = Limit
            /\ \A k \in DOMAIN rows : rows[k] = InOrder(C)[k]
        <5>1. /\ rows \in Seq(DOMAIN Sessions) /\ Len(rows) \in Nat /\ Len(rows) <= Limit
              /\ RestIs(Sessions, rows, after)
          BY <2>1, <2>2, <4>1, <4>2, CandidatesAre
        <5>2. /\ Len(InOrder(C)) \in Nat
              /\ Limit <= Len(InOrder(C)) => Len(rows) = Limit
          BY <2>1, <2>2, <4>1, <4>2, CandidatesAre
        <5>3. \A k \in DOMAIN rows : rows[k] = InOrder(C)[k]
          BY <2>1, <2>2, <4>1, <4>2, CandidatesAre
        <5> QED BY <5>1, <5>2, <5>3
      <4> QED BY <4>3
  <2> QED BY <2>3
<1> HIDE DEF rest, rows
<1>7. /\ listed \o rows \in Seq(DOMAIN s) /\ Ascends(s, listed \o rows)
      /\ Len(rows) # 0 =>
           \A m \in DOMAIN (listed \o rows) :
             ~Precedes(PlaceOf(s, rows[Len(rows)]), PlaceOf(s, (listed \o rows)[m]))
  <2> HIDE DEF s
  <2> QED BY <1>2, <1>3, <1>4, <1>6, MembersExtend
<1>8. ASSUME next # Done
      PROVE  /\ ~gone
             /\ next \in [at : {"members"}, snapshot : Int, after : Place]
             /\ sent.after = None \/ Precedes(sent.after, next.after)
             /\ \A m \in DOMAIN (listed \o rows) :
                  ~Precedes(next.after, PlaceOf(s, (listed \o rows)[m]))
  <2> PICK limit \in Nat \ {0} : limit = Limit
    BY SizesAssumption
  <2>1. next = further /\ Len(rest) > Limit /\ ~gone
    BY <1>6, <1>8
  <2>2. Len(rows) = Limit /\ Limit \in DOMAIN rows
    BY <1>6, <2>1, LenProperties
  <2> DEFINE p == PlaceOf(s, rows[Limit])
  <2>3. PositionOf(rest[Limit]) = p
    BY <1>6, <2>2, Links
  <2>4. p \in Place
    BY <1>6, <2>2, ElementOfSeq, <1>3 DEF PlaceOf, Place, SessionsAre
  <2>5. sent.after = None \/ Precedes(sent.after, p)
    BY <1>6, <2>2 DEF RestIs
  <2>6. \A m \in DOMAIN (listed \o rows) : ~Precedes(p, PlaceOf(s, (listed \o rows)[m]))
    BY <1>7, <2>2, SizesAssumption
  <2> HIDE DEF p
  <2>7. next.after = p /\ next \in [at : {"members"}, snapshot : Int, after : Place]
    BY <1>4, <2>1, <2>3, <2>4
  <2> QED BY <2>1, <2>5, <2>6, <2>7
<1>9. next # First
  <2>1. CASE next = Done
    BY <2>1 DEF First, Done
  <2>2. CASE next # Done
    BY <1>8, <2>2 DEF First
  <2> QED BY <2>1, <2>2
<1> HIDE DEF next, gone
<1>10. MembersAre(s, next, listed \o rows)
  BY <1>7, <1>8, <1>9 DEF MembersAre
<1>11. /\ Sessions' = Sessions /\ script' = script
  BY <1>1, StoreKept
<1>12. Asks("members")' /\ ~Asks("chains")' /\ ~Asks("sessions")'
  BY <1>1, <1>11 DEF Asks
<1>13. MembersIs'
  BY <1>1, <1>2, <1>10, <1>11 DEF MembersIs
<1>14. EveryPageAdvances'
  <2> SUFFICES ASSUME page'.next # Done
               PROVE  Beyond(page.next, page.from)'
    BY DEF EveryPageAdvances
  <2>1. page'.next = next /\ page'.from = sent
    BY <1>1
  <2>2. page'.at = "members"
    BY <1>1, <1>8, <2>1
  <2> QED BY <1>8, <2>1, <2>2 DEF Beyond
<1> QED
  BY <1>12, <1>13, <1>14 DEF Listings, ChainsIs, SessionsIs

-----------------------------------------------------------------------------
(* The standalone pages. *)

LEMMA RowsPage ==
  ASSUME StoreIs, NEW below, NEW size \in Nat, NEW rows, rows = Prefix(Rows(below), size)
  PROVE  /\ rows \in Seq(DOMAIN Sessions) /\ Len(rows) \in Nat /\ Len(rows) <= size
         /\ Descends(rows)
         /\ below # None => \A m \in DOMAIN rows : rows[m] < below.id
<1> DEFINE S == RowsBelow(below)
           q == Rows(below)
           R == Downwards(S)
<1>1. script \in Scripts /\ Retained \in SUBSET DOMAIN Sessions
  BY RetainedIs DEF StoreIs
<1>2. Enumerates(q, R, S)
  BY <1>1, RowsIs
<1>3. S \subseteq DOMAIN Sessions /\ \A i \in S : below # None => i < below.id
  BY <1>1 DEF RowsBelow, Visible
<1> HIDE DEF S, q, R
<1>4. /\ q \in Seq(S) /\ Len(q) \in Nat /\ DOMAIN q = 1 .. Len(q)
      /\ \A m \in DOMAIN q : q[m] \in S
      /\ \A m, n \in DOMAIN q : m < n => <<q[m], q[n]>> \in R
  BY <1>2 DEF Enumerates
<1>5. rows = Prefix(q, size)
  BY DEF q
<1>6. /\ rows \in Seq(S) /\ Len(rows) \in Nat /\ DOMAIN rows = 1 .. Len(rows)
      /\ Len(rows) <= size
      /\ \A k \in DOMAIN rows : k \in DOMAIN q /\ rows[k] = q[k]
  BY <1>4, <1>5, PrefixIs
<1>7. rows \in Seq(DOMAIN Sessions)
  <2> PICK len \in Nat : len = Len(rows)
    BY <1>6, Zenon
  <2>1. rows = [k \in 1 .. len |-> rows[k]]
    BY <1>6
  <2>2. \A k \in 1 .. len : rows[k] \in DOMAIN Sessions
    BY <1>3, <1>4, <1>6
  <2>3. rows \in [1 .. len -> DOMAIN Sessions]
    BY <2>1, <2>2
  <2> QED BY <2>3
<1>8. Descends(rows)
  <2> SUFFICES ASSUME NEW m \in DOMAIN rows, NEW n \in DOMAIN rows, m < n
               PROVE  rows[m] > rows[n]
    BY DEF Descends
  <2>1. <<rows[m], rows[n]>> \in R
    BY <1>4, <1>6
  <2>2. \A x, y : <<x, y>> \in R => x > y
    BY DEF R, Downwards
  <2> QED BY <2>1, <2>2
<1>9. below # None => \A m \in DOMAIN rows : rows[m] < below.id
  BY <1>3, <1>4, <1>6
<1> QED BY <1>6, <1>7, <1>8, <1>9

\* More rows, below those that were listed.
LEMMA RowsExtend ==
  ASSUME NEW s, DOMAIN s \subseteq Int, NEW L, NEW below \in Belows \cup {None},
         DownTo(s, L, below), NEW A \in Seq(DOMAIN s), Descends(A),
         below # None => \A m \in DOMAIN A : A[m] < below.id
  PROVE  /\ L \o A \in Seq(DOMAIN s) /\ Descends(L \o A)
         /\ Len(A) # 0 => /\ A[Len(A)] \in DOMAIN s
                          /\ DownTo(s, L \o A, Below(A[Len(A)]))
                          /\ below # None => A[Len(A)] < below.id
<1> DEFINE q == L \o A
<1>1. L \in Seq(DOMAIN s) /\ Descends(L) /\ (below = None => L = <<>>)
      /\ (below # None => \A m \in DOMAIN L : L[m] >= below.id)
  BY DEF DownTo
<1> PICK len \in Nat, size \in Nat : len = Len(L) /\ size = Len(A)
  BY <1>1, LenProperties
<1>2. /\ q \in Seq(DOMAIN s) /\ DOMAIN q = 1 .. len + size
      /\ DOMAIN L = 1 .. len /\ DOMAIN A = 1 .. size
      /\ \A n \in DOMAIN q :
           \/ n \in DOMAIN L /\ q[n] = L[n]
           \/ n > len /\ n - len \in DOMAIN A /\ q[n] = A[n - len]
  BY <1>1, Concatenated
<1> HIDE DEF q
<1>3. /\ \A m \in DOMAIN L : L[m] \in Int
      /\ \A m \in DOMAIN A : A[m] \in DOMAIN s /\ A[m] \in Int
  BY <1>1, <1>2, ElementOfSeq
<1>4. ASSUME NEW m \in DOMAIN L, NEW n \in DOMAIN A
      PROVE  L[m] > A[n]
  BY <1>1, <1>4, <1>3 DEF Belows
<1>5. ASSUME NEW m \in DOMAIN q, NEW n \in DOMAIN q, m < n
      PROVE  q[m] > q[n]
  <2>1. m \in Nat /\ n \in Nat
    BY <1>2
  <2>2. CASE m \in DOMAIN L /\ n \in DOMAIN L /\ q[m] = L[m] /\ q[n] = L[n]
    BY <1>1, <1>5, <2>2 DEF Descends
  <2>3. CASE m \in DOMAIN L /\ q[m] = L[m] /\ n - len \in DOMAIN A /\ q[n] = A[n - len]
    BY <1>4, <2>3
  <2>4. CASE /\ m > len /\ m - len \in DOMAIN A /\ q[m] = A[m - len]
             /\ n > len /\ n - len \in DOMAIN A /\ q[n] = A[n - len]
    BY <1>5, <2>1, <2>4 DEF Descends
  <2>5. CASE m > len /\ n \in DOMAIN L
    BY <1>2, <1>5, <2>1, <2>5
  <2> QED BY <1>2, <2>2, <2>3, <2>4, <2>5
<1>6. Descends(q)
  BY <1>5 DEF Descends
<1>7. ASSUME size # 0
      PROVE  /\ A[size] \in DOMAIN s
             /\ DownTo(s, q, Below(A[size]))
             /\ below # None => A[size] < below.id
  <2>1. size \in DOMAIN A /\ A[size] \in DOMAIN s
    BY <1>2, <1>3, <1>7
  <2>2. ASSUME NEW m \in DOMAIN q
        PROVE  q[m] >= A[size]
    <3>1. CASE m \in DOMAIN L /\ q[m] = L[m]
      BY <1>3, <1>4, <2>1, <3>1
    <3>2. CASE m - len \in DOMAIN A /\ q[m] = A[m - len]
      <4>1. m - len = size \/ m - len < size
        BY <1>2, <3>2
      <4>2. q[m] = A[size] \/ q[m] > A[size]
        BY <2>1, <3>2, <4>1 DEF Descends
      <4> QED BY <1>3, <2>1, <3>2, <4>2
    <3> QED BY <1>2, <3>1, <3>2
  <2>3. Below(A[size]) # None /\ Below(A[size]).id = A[size]
    BY <1>3, <2>1, NoneIsNone DEF Below, Belows
  <2> QED BY <1>2, <1>6, <2>1, <2>2, <2>3 DEF DownTo
<1> QED BY <1>2, <1>6, <1>7 DEF q

LEMMA RowsFewer ==
  ASSUME NEW s, NEW L \in Seq(DOMAIN s), NEW A \in Seq(DOMAIN s), NEW B \in Seq(DOMAIN s),
         Within(A, B), Descends(L \o B)
  PROVE  /\ L \o A \in Seq(DOMAIN s) /\ Descends(L \o A)
         /\ \A below : below # None /\ DownTo(s, L \o B, below) => DownTo(s, L \o A, below)
<1>1. Within(L \o A, L \o B) /\ L \o A \in Seq(DOMAIN s)
  BY WithinConcat
<1>2. Descends(L \o A)
  <2> SUFFICES ASSUME NEW m \in DOMAIN (L \o A), NEW n \in DOMAIN (L \o A), m < n
               PROVE  (L \o A)[m] > (L \o A)[n]
    BY DEF Descends
  <2>1. PICK k \in DOMAIN (L \o B), l \in DOMAIN (L \o B) :
           k < l /\ (L \o A)[m] = (L \o B)[k] /\ (L \o A)[n] = (L \o B)[l]
    BY <1>1 DEF Within
  <2> QED BY <2>1 DEF Descends
<1>3. ASSUME NEW below, below # None, DownTo(s, L \o B, below)
      PROVE  DownTo(s, L \o A, below)
  <2>1. ASSUME NEW m \in DOMAIN (L \o A)
        PROVE  (L \o A)[m] >= below.id
    <3>1. PICK k \in DOMAIN (L \o B) : (L \o A)[m] = (L \o B)[k]
      BY <1>1 DEF Within
    <3> QED BY <1>3, <3>1 DEF DownTo
  <2> QED BY <1>1, <1>2, <1>3, <2>1 DEF DownTo
<1> QED BY <1>1, <1>2, <1>3

LEMMA SentBelowIs ==
  ASSUME StoreIs, Listings, Asks("sessions"), cursor # Done
  PROVE  /\ SentBelow \in Belows \cup {None}
         /\ DownTo(Sessions, listed, SentBelow)
<1>1. SessionsAreRows(Sessions, cursor, listed)
  BY DEF Listings, SessionsIs
<1> QED BY <1>1 DEF SessionsAreRows, SentBelow

\* The request for a page goes on.
LEMMA RowsOn ==
  ASSUME StoreIs, Listings, Asks("sessions"), cursor # Done,
         UNCHANGED <<store, cursor, listed, page>>,
         \/ RowsReq(Sessions, SentBelow, req', listed)
         \/ BucketReq(Sessions, SentBelow, req', listed)
  PROVE  Listings'
<1>1. /\ Sessions' = Sessions /\ script' = script /\ cursor' = cursor /\ listed' = listed
      /\ page' = page
  BY StoreKept
<1>2. Asks("sessions")' /\ ~Asks("members")' /\ ~Asks("chains")' /\ SentBelow' = SentBelow
  BY <1>1 DEF Asks, SentBelow
<1>3. SessionsIs'
  BY <1>1, <1>2 DEF Listings, SessionsIs
<1>4. EveryPageAdvances'
  BY <1>1 DEF Listings, EveryPageAdvances, Beyond
<1> QED BY <1>2, <1>3, <1>4 DEF Listings, MembersIs, ChainsIs

LEMMA BelowIs ==
  ASSUME NEW i \in Int
  PROVE  Below(i) \in Belows /\ Below(i) # Done /\ Below(i) # None /\ Below(i).id = i
<1>1. Below(i) \in Belows /\ Below(i).at = "below" /\ Below(i).id = i
  BY DEF Below, Belows
<1>2. Below(i) # Done
  BY <1>1 DEF Done
<1> QED BY <1>1, <1>2, NoneIsNone

LEMMA ListSessionsLists ==
  ASSUME StoreIs, Listings, ListSessions
  PROVE  Listings'
<1> DEFINE items == Prefix(Rows(SentBelow), Limit)
           next == IF Len(items) = Limit THEN Below(Last(items)) ELSE Done
<1>1. /\ Asks("sessions") /\ cursor # Done
      /\ req' = [at |-> "bucket", found |-> items, next |-> next, sent |-> SentBelow]
      /\ UNCHANGED <<store, cursor, listed, page>>
  BY DEF ListSessions, Collected
<1>2. SentBelow \in Belows \cup {None} /\ DownTo(Sessions, listed, SentBelow)
  BY <1>1, SentBelowIs
<1>3. /\ items \in Seq(DOMAIN Sessions) /\ Len(items) \in Nat
      /\ Descends(items)
      /\ SentBelow # None => \A m \in DOMAIN items : items[m] < SentBelow.id
  BY SizesAssumption, RowsPage
<1> HIDE DEF items
<1>4. /\ listed \o items \in Seq(DOMAIN Sessions) /\ Descends(listed \o items)
      /\ Len(items) # 0 =>
           /\ items[Len(items)] \in DOMAIN Sessions
           /\ DownTo(Sessions, listed \o items, Below(items[Len(items)]))
           /\ SentBelow # None => items[Len(items)] < SentBelow.id
  BY RetainedIs, <1>2, <1>3, RowsExtend DEF SessionsAre
<1>5. ASSUME next # Done
      PROVE  /\ next \in Belows /\ DownTo(Sessions, listed \o items, next)
             /\ SentBelow = None \/ next.id < SentBelow.id
  <2>1. Len(items) # 0 /\ next = Below(items[Len(items)])
    BY SizesAssumption, <1>5 DEF Last
  <2>2. items[Len(items)] \in Int
    BY <1>4, <2>1, RetainedIs DEF SessionsAre
  <2> QED BY <1>4, <2>1, <2>2, BelowIs
<1> HIDE DEF next
<1>6. /\ req' \in [at : {"bucket"}, found : Seq(DOMAIN Sessions), next : Belows \cup {Done},
                   sent : {SentBelow}]
      /\ req'.found = items /\ req'.next = next
  BY <1>1, <1>3, <1>5
<1>7. BucketReq(Sessions, SentBelow, req', listed)
  BY <1>4, <1>5, <1>6 DEF BucketReq
<1> QED BY <1>1, <1>7, RowsOn

LEMMA BeginSessionSearchLists ==
  ASSUME StoreIs, Listings, BeginSessionSearch
  PROVE  Listings'
<1>1. /\ Asks("sessions") /\ cursor # Done
      /\ req' = [at |-> "rows", found |-> <<>>, below |-> SentBelow, scanned |-> 0,
                 rest |-> <<>>]
      /\ UNCHANGED <<store, cursor, listed, page>>
  BY DEF BeginSessionSearch
<1>2. SentBelow \in Belows \cup {None} /\ DownTo(Sessions, listed, SentBelow)
  BY <1>1, SentBelowIs
<1>3. /\ req' \in [at : {"rows"}, found : Seq(DOMAIN Sessions), below : Belows \cup {None},
                   scanned : Nat, rest : Seq(DOMAIN Sessions)]
      /\ req'.found = <<>> /\ req'.below = SentBelow /\ req'.scanned = 0 /\ req'.rest = <<>>
  BY <1>1, <1>2
<1>4. listed \o <<>> = listed
  BY <1>2, ConcatEmptySeq DEF DownTo
<1>5. 0 + Len(<<>>) <= MaxCandidates
  BY SizesAssumption
<1>6. RowsReq(Sessions, SentBelow, req', listed)
  BY <1>2, <1>3, <1>4, <1>5 DEF RowsReq, Descends
<1> QED BY <1>1, <1>6, RowsOn

LEMMA RowsAsked ==
  ASSUME StoreIs, Listings, req.at = "rows" \/ req.at = "bucket"
  PROVE  /\ Asks("sessions") /\ cursor # Done
         /\ DOMAIN Sessions \subseteq Int
         /\ SentBelow \in Belows \cup {None} /\ DownTo(Sessions, listed, SentBelow)
         /\ req.at = "rows" => RowsReq(Sessions, SentBelow, req, listed)
         /\ req.at = "bucket" => BucketReq(Sessions, SentBelow, req, listed)
<1>1. req # Idle
  BY DEF Idle
<1>2. ~Asks("members")
  BY <1>1 DEF Listings, MembersIs
<1>3. ~Asks("chains")
  BY <1>1 DEF Listings, ChainsIs, SearchIs, Searches
<1>4. Asks("sessions")
  BY <1>2, <1>3, ScriptIs DEF Asks, StoreIs
<1>5. /\ cursor # Done
      /\ RowsReq(Sessions, SentBelow, req, listed) \/ BucketReq(Sessions, SentBelow, req, listed)
  BY <1>1, <1>4 DEF Listings, SessionsIs
<1>6. /\ req.at = "rows" => RowsReq(Sessions, SentBelow, req, listed)
      /\ req.at = "bucket" => BucketReq(Sessions, SentBelow, req, listed)
  BY <1>5 DEF RowsReq, BucketReq
<1>7. DOMAIN Sessions \subseteq Int
  BY RetainedIs DEF SessionsAre
<1> QED BY <1>4, <1>5, <1>6, <1>7, SentBelowIs

LEMMA FetchRowsLists ==
  ASSUME StoreIs, Listings, FetchRows
  PROVE  Listings'
<1> DEFINE rows == Prefix(Rows(req.below), Budget)
<1>1. /\ req.at = "rows" /\ req.rest = <<>>
      /\ IF req.scanned = MaxCandidates THEN Collected(req.found, req.below)
         ELSE IF rows = <<>> THEN Collected(req.found, Done)
         ELSE req' = [req EXCEPT !.rest = rows]
      /\ UNCHANGED <<store, cursor, listed, page>>
  BY DEF FetchRows, history
<1>2. /\ Asks("sessions") /\ cursor # Done /\ RowsReq(Sessions, SentBelow, req, listed)
  BY <1>1, RowsAsked
<1>3. /\ req \in [at : {"rows"}, found : Seq(DOMAIN Sessions), below : Belows \cup {None},
                  scanned : Nat, rest : Seq(DOMAIN Sessions)]
      /\ req.scanned + Len(req.rest) <= MaxCandidates
      /\ DownTo(Sessions, listed \o req.found, req.below)
      /\ req.scanned > 0 => req.below # None /\ (SentBelow = None \/ req.below.id < SentBelow.id)
  BY <1>2 DEF RowsReq
<1>4. CASE req.scanned = MaxCandidates
  BY <1>1, <1>4, <1>3, SizesAssumption, <1>2, RowsOn DEF Collected, BucketReq, DownTo
<1>5. CASE req.scanned # MaxCandidates /\ rows = <<>>
  BY <1>1, <1>5, <1>3, <1>2, RowsOn DEF Collected, BucketReq, DownTo
<1>6. CASE req.scanned # MaxCandidates /\ rows # <<>>
  <2>1. req' = [req EXCEPT !.rest = rows]
    BY <1>1, <1>6
  <2>2. req.scanned < MaxCandidates /\ req.scanned \in Nat
    BY <1>1, <1>3, <1>6, SizesAssumption
  <2>3. Budget \in Nat /\ req.scanned + Budget <= MaxCandidates
    BY <2>2, BudgetIs
  <2>4. /\ rows \in Seq(DOMAIN Sessions) /\ Len(rows) \in Nat /\ Len(rows) <= Budget
        /\ Descends(rows)
        /\ req.below # None => \A m \in DOMAIN rows : rows[m] < req.below.id
    BY <2>3, RowsPage
  <2> HIDE DEF rows
  <2>5. /\ req' \in [at : {"rows"}, found : Seq(DOMAIN Sessions), below : Belows \cup {None},
                     scanned : Nat, rest : Seq(DOMAIN Sessions)]
        /\ req'.found = req.found /\ req'.below = req.below /\ req'.scanned = req.scanned
        /\ req'.rest = rows
    BY <1>3, <2>1, <2>4
  <2>6. req.scanned + Len(rows) <= MaxCandidates
    BY <2>2, <2>3, <2>4, SizesAssumption
  <2>7. RowsReq(Sessions, SentBelow, req', listed)
    BY <1>2, <1>3, <2>4, <2>5, <2>6 DEF RowsReq
  <2> QED BY <1>1, <1>2, <2>7, RowsOn
<1> QED BY <1>4, <1>5, <1>6

LEMMA Joined ==
  ASSUME NEW S, NEW L \in Seq(S), NEW F \in Seq(S), NEW A \in Seq(S)
  PROVE  (L \o F) \o A = L \o (F \o A)
BY ConcatAssociative

LEMMA ScanRowLists ==
  ASSUME StoreIs, Listings, ScanRow
  PROVE  Listings'
<1> DEFINE i == Head(req.rest)
           hit == i \in Retained /\ Sessions[i].hits
           found == IF hit THEN Append(req.found, i) ELSE req.found
           rest == Tail(req.rest)
<1>1. /\ req.at = "rows" /\ req.rest # <<>>
      /\ IF Len(found) = Limit THEN Collected(found, Below(i))
         ELSE req' = [req EXCEPT !.found = found, !.below = Below(i), !.rest = rest,
                                 !.scanned = @ + 1]
      /\ UNCHANGED <<store, cursor, listed, page>>
  BY DEF ScanRow, history
<1>2. /\ Asks("sessions") /\ cursor # Done /\ RowsReq(Sessions, SentBelow, req, listed)
      /\ DOMAIN Sessions \subseteq Int /\ listed \in Seq(DOMAIN Sessions)
      /\ SentBelow \in Belows \cup {None}
  BY <1>1, RowsAsked DEF DownTo
<1>3. /\ req \in [at : {"rows"}, found : Seq(DOMAIN Sessions), below : Belows \cup {None},
                  scanned : Nat, rest : Seq(DOMAIN Sessions)]
      /\ req.scanned + Len(req.rest) <= MaxCandidates
      /\ DownTo(Sessions, listed \o req.found, req.below)
      /\ Descends(req.rest)
      /\ req.below # None => \A m \in DOMAIN req.rest : req.rest[m] < req.below.id
      /\ req.scanned = 0 => req.below = SentBelow
      /\ req.scanned > 0 => req.below # None /\ (SentBelow = None \/ req.below.id < SentBelow.id)
  BY <1>2 DEF RowsReq
<1>4. /\ rest \in Seq(DOMAIN Sessions) /\ Len(rest) = Len(req.rest) - 1
      /\ Len(req.rest) \in Nat \ {0} /\ i = req.rest[1] /\ i \in DOMAIN Sessions
      /\ \A k \in DOMAIN rest : k + 1 \in DOMAIN req.rest /\ rest[k] = req.rest[k + 1]
      /\ 1 \in DOMAIN req.rest /\ DOMAIN rest \subseteq Nat \ {0}
  BY <1>1, <1>3, TailOf, LenProperties
<1> HIDE DEF i, rest
<1>5. i \in Int /\ Below(i) \in Belows /\ Below(i) # Done /\ Below(i) # None /\ Below(i).id = i
  BY <1>2, <1>4, BelowIs
<1>6. (req.below # None => i < req.below.id) /\ (SentBelow = None \/ i < SentBelow.id)
  <2>1. req.below # None => i < req.below.id
    BY <1>3, <1>4
  <2>2. CASE req.scanned = 0
    BY <1>3, <2>1, <2>2
  <2>3. CASE req.scanned > 0
    BY <1>3, <2>1, <2>3, <1>2, <1>5 DEF Belows
  <2> QED BY <1>3, <2>1, <2>2, <2>3
<1>7. /\ found \in Seq(DOMAIN Sessions) /\ DownTo(Sessions, listed \o found, Below(i))
  <2> DEFINE A == <<i>>
  <2>1. A \in Seq(DOMAIN Sessions) /\ Len(A) = 1 /\ A[Len(A)] = i /\ Descends(A)
        /\ DOMAIN A = {1} /\ \A m \in DOMAIN A : A[m] = i
    BY <1>4 DEF Descends
  <2>2. req.found \in Seq(DOMAIN Sessions) /\ req.below \in Belows \cup {None}
    BY <1>3
  <2> HIDE DEF A
  <2>3. DownTo(Sessions, (listed \o req.found) \o A, Below(i))
    <3>1. req.below # None => \A m \in DOMAIN A : A[m] < req.below.id
      BY <1>6, <2>1
    <3>2. Len(A) # 0
      BY <2>1
    <3>3. DownTo(Sessions, (listed \o req.found) \o A, Below(A[Len(A)]))
      BY <1>2, <1>3, <2>1, <2>2, <3>1, <3>2, RowsExtend
    <3> QED BY <2>1, <3>3
  <2>4. CASE hit
    <3>1. found = req.found \o A
      BY <1>4, <2>2, <2>4, AppendIsConcat, ZenonT(20) DEF A
    <3>2. (listed \o req.found) \o A = listed \o (req.found \o A)
      <4>1. listed \in Seq(DOMAIN Sessions) /\ req.found \in Seq(DOMAIN Sessions)
            /\ A \in Seq(DOMAIN Sessions)
        BY <1>2, <2>1, <2>2
      <4> HIDE DEF hit, found
      <4>2. \A L, F, B \in Seq(DOMAIN Sessions) : (L \o F) \o B = L \o (F \o B)
        BY Joined
      <4> QED BY <4>1, <4>2
    <3>3. req.found \o A \in Seq(DOMAIN Sessions)
      BY <2>1, <2>2, ConcatProperties
    <3> QED BY <2>3, <3>1, <3>2, <3>3
  <2>5. CASE ~hit
    <3>1. found = req.found
      BY <2>5
    <3>2. \A m \in DOMAIN (listed \o req.found) : (listed \o req.found)[m] >= i
      <4> DEFINE q == listed \o req.found
      <4>1. DownTo(Sessions, q, req.below)
        BY <1>3
      <4> HIDE DEF q
      <4> SUFFICES ASSUME NEW m \in DOMAIN q
                   PROVE  q[m] >= i
        BY DEF q
      <4>2. q \in Seq(DOMAIN Sessions) /\ req.below # None /\ q[m] >= req.below.id
        BY <4>1 DEF DownTo
      <4>3. q[m] \in Int
        BY <4>2, ElementOfSeq, LenProperties, <1>2
      <4>4. req.below.id \in Int /\ i < req.below.id
        BY <1>3, <1>6, <4>2 DEF Belows
      <4> QED BY <1>5, <4>2, <4>3, <4>4
    <3> QED BY <1>3, <1>5, <2>2, <3>1, <3>2 DEF DownTo
  <2> QED BY <2>4, <2>5
<1> HIDE DEF hit, found
<1>8. CASE Len(found) = Limit
  <2>1. req' = [at |-> "bucket", found |-> found, next |-> Below(i), sent |-> SentBelow]
    BY <1>1, <1>8 DEF Collected
  <2>2. BucketReq(Sessions, SentBelow, req', listed)
    BY <1>5, <1>6, <1>7, <2>1 DEF BucketReq, DownTo
  <2> QED BY <1>1, <1>2, <2>2, RowsOn
<1>9. CASE Len(found) # Limit
  <2>1. req' = [req EXCEPT !.found = found, !.below = Below(i), !.rest = rest, !.scanned = @ + 1]
    BY <1>1, <1>9
  <2>2. /\ req' \in [at : {"rows"}, found : Seq(DOMAIN Sessions), below : Belows \cup {None},
                     scanned : Nat, rest : Seq(DOMAIN Sessions)]
        /\ req'.found = found /\ req'.below = Below(i) /\ req'.scanned = req.scanned + 1
        /\ req'.rest = rest
    <3>1. /\ found \in Seq(DOMAIN Sessions) /\ rest \in Seq(DOMAIN Sessions)
          /\ Below(i) \in Belows \cup {None}
      BY <1>4, <1>5, <1>7
    <3>2. req \in [at : {"rows"}, found : Seq(DOMAIN Sessions), below : Belows \cup {None},
                   scanned : Nat, rest : Seq(DOMAIN Sessions)]
      BY <1>3
    <3> DEFINE S == Seq(DOMAIN Sessions)
               B == Belows \cup {None}
               R == [at : {"rows"}, found : S, below : B, scanned : Nat, rest : S]
               b == Below(i)
    <3>3. found \in S /\ rest \in S /\ b \in B /\ req \in R
          /\ req' = [req EXCEPT !.found = found, !.below = b, !.rest = rest, !.scanned = @ + 1]
      BY <2>1, <3>1, <3>2
    <3> HIDE DEF S, B, b
    <3>4. req.scanned + 1 \in Nat
      BY <3>3
    <3> HIDE DEF found, rest
    <3>5. req' \in R
      BY <3>3, <3>4
    <3>6. req'.found = found /\ req'.below = b /\ req'.scanned = req.scanned + 1 /\ req'.rest = rest
      BY <3>3
    <3> QED BY <3>5, <3>6 DEF S, B, b
  <2>3. req.scanned \in Nat /\ (req.scanned + 1) + Len(rest) <= MaxCandidates
    BY <1>3, <1>4, SizesAssumption
  <2>4. Descends(rest) /\ \A m \in DOMAIN rest : rest[m] < i
    <3>1. \A k \in DOMAIN rest : rest[k] < i
      <4> TAKE k \in DOMAIN rest
      <4>1. 1 < k + 1 /\ k + 1 \in DOMAIN req.rest /\ rest[k] = req.rest[k + 1]
        BY <1>4
      <4>2. req.rest[1] > req.rest[k + 1] /\ req.rest[k + 1] \in Int
        BY <1>3, <4>1, ElementOfSeq, LenProperties, <1>2, <1>4 DEF Descends
      <4> QED BY <1>4, <1>5, <4>1, <4>2
    <3>2. \A k, l \in DOMAIN rest : k < l => rest[k] > rest[l]
      <4> TAKE k, l \in DOMAIN rest
      <4> HAVE k < l
      <4>1. /\ k + 1 < l + 1 /\ k + 1 \in DOMAIN req.rest /\ rest[k] = req.rest[k + 1]
            /\ l + 1 \in DOMAIN req.rest /\ rest[l] = req.rest[l + 1]
        BY <1>4
      <4> QED BY <1>3, <4>1 DEF Descends
    <3> QED BY <3>1, <3>2 DEF Descends
  <2>5. ~(req.scanned + 1 = 0) /\ req.scanned + 1 > 0
    BY <2>3
  <2>6. RowsReq(Sessions, SentBelow, req', listed)
    BY <1>5, <1>6, <1>7, <2>2, <2>3, <2>4, <2>5 DEF RowsReq
  <2> QED BY <1>1, <1>2, <2>6, RowsOn
<1> QED BY <1>8, <1>9

LEMMA BucketSessionsLists ==
  ASSUME StoreIs, Listings, BucketSessions
  PROVE  Listings'
<1> DEFINE found == req.found
           anchors == {found[n] : n \in {m \in DOMAIN found :
                                           Applies(rule, Sessions[found[m]].key)}}
           known(i) == IF Bucket = "any" \/ rule = None THEN <<>>
                       ELSE KnownOf(Retained, i, anchors)
           items == [n \in DOMAIN found |-> [session |-> found[n], known |-> known(found[n])]]
           places == {n \in DOMAIN found : Accepts(known(found[n]))}
           A == Picked(found, places)
           next == IF Bucket = "known" /\ rule = None THEN Done ELSE req.next
<1>1. /\ req.at = "bucket"
      /\ page' = [at |-> "sessions", seen |-> Retained, rule |-> rule, from |-> req.sent,
                  next |-> next, items |-> items]
      /\ listed' = listed \o A /\ cursor' = next /\ req' = Idle /\ UNCHANGED store
  BY DEF BucketSessions
<1>2. places \in SUBSET DOMAIN found
  OBVIOUS
<1> HIDE DEF items, places, anchors
<1>3. /\ Asks("sessions") /\ cursor # Done /\ BucketReq(Sessions, SentBelow, req, listed)
      /\ listed \in Seq(DOMAIN Sessions)
  BY <1>1, RowsAsked DEF DownTo
<1>4. /\ found \in Seq(DOMAIN Sessions) /\ req.sent = SentBelow
      /\ Descends(listed \o found)
      /\ next # Done => /\ next \in Belows /\ DownTo(Sessions, listed \o found, next)
                        /\ SentBelow = None \/ next.id < SentBelow.id
  BY <1>3 DEF BucketReq
<1>5. A \in Seq(DOMAIN Sessions) /\ Within(A, found)
  BY <1>2, <1>4, PickedIs
<1> HIDE DEF A, next, found
<1>6. /\ listed \o A \in Seq(DOMAIN Sessions) /\ Descends(listed \o A)
      /\ \A below : below # None /\ DownTo(Sessions, listed \o found, below)
                    => DownTo(Sessions, listed \o A, below)
  BY <1>3, <1>4, <1>5, RowsFewer
<1>7. next # Done => next # First /\ next # None
  BY <1>4, NoneIsNone DEF Belows, First
<1>8. SessionsAreRows(Sessions, next, listed \o A)
  BY <1>4, <1>6, <1>7 DEF First, Done, SessionsAreRows
<1>9. Sessions' = Sessions /\ script' = script
  BY <1>1, StoreKept
<1>10. Asks("sessions")' /\ ~Asks("chains")' /\ ~Asks("members")'
  BY <1>3, <1>9 DEF Asks
<1>11. SessionsIs'
  BY <1>1, <1>8, <1>9 DEF SessionsIs
<1>12. EveryPageAdvances'
  <2> SUFFICES ASSUME page'.next # Done
               PROVE  Beyond(page.next, page.from)'
    BY DEF EveryPageAdvances
  <2>1. page'.next = next /\ page'.from = SentBelow /\ page'.at = "sessions"
    BY <1>1, <1>4
  <2> QED BY <1>4, <2>1 DEF Beyond
<1> QED BY <1>10, <1>11, <1>12 DEF Listings, ChainsIs, MembersIs
-----------------------------------------------------------------------------
(* The invariant, and what it says of every listing. *)

LEMMA IInvStarts == Init => IInv
BY StoreStarts, ListingsStart DEF IInv

LEMMA StoreStepKeeps ==
  ASSUME StoreIs, [Next]_vars
  PROVE  StoreIs' /\ Sessions' = Sessions /\ script' = script
<1>1. CASE Persist
  BY <1>1, PersistStore
<1>2. CASE \E i \in Retained : Expire(i)
  <2>1. PICK e \in Retained : Expire(e)
    BY <1>2
  <2> QED BY <2>1, ExpireStore
<1>3. CASE UNCHANGED store
  BY <1>3, StoreKept
<1>4. CASE UNCHANGED vars
  BY <1>4, StoreKept DEF vars, store
<1> QED BY <1>1, <1>2, <1>3, <1>4, StoreSteps

LEMMA ListingsStep ==
  ASSUME StoreIs, Orderly, Listings, [Next]_vars
  PROVE  Listings'
<1>1. CASE UNCHANGED vars
  BY <1>1, ListingsFramed DEF vars, store
<1>2. ASSUME NEW i \in Retained, Expire(i)
      PROVE  Listings'
  BY <1>2, ExpireLists
<1>3. ASSUME NEW r, EditRule(r)
      PROVE  Listings'
  BY <1>3, ListingsFramed DEF EditRule, history
<1>4. ASSUME NEW item, NEW i, GetRuleHighlights(item, i)
      PROVE  Listings'
  BY <1>4, ListingsFramed DEF GetRuleHighlights
<1>5. CASE \/ Persist \/ NothingKnown \/ ListChains \/ BeginSearch \/ Lookup \/ NothingFound
  BY <1>5, PersistLists, NothingKnownLists, ListChainsLists, BeginSearchLists, LookupLists,
     NothingFoundLists
<1>6. CASE \/ Scan \/ ScanNothing \/ SearchInterrupted \/ ScanInterrupted \/ SearchFails
           \/ MemberPage
  BY <1>6, ScanLists, ScanNothingLists, SearchInterruptedLists, ScanInterruptedLists,
     SearchFailsLists, MemberPageLists
<1>7. CASE \/ ListSessions \/ BeginSessionSearch \/ FetchRows \/ ScanRow \/ BucketSessions
  BY <1>7, ListSessionsLists, BeginSessionSearchLists, FetchRowsLists, ScanRowLists,
     BucketSessionsLists
<1> QED BY <1>1, <1>2, <1>3, <1>4, <1>5, <1>6, <1>7 DEF Next

LEMMA IInvSteps == IInv /\ [Next]_vars => IInv'
<1> SUFFICES ASSUME IInv, [Next]_vars
             PROVE  IInv'
  OBVIOUS
<1>1. StoreIs /\ (Orderly => Listings)
  BY DEF IInv
<1>2. StoreIs' /\ script' = script
  BY <1>1, StoreStepKeeps
<1>3. Orderly' => Orderly
  BY <1>2 DEF Orderly, Asks, Searching
<1>4. Orderly' => Listings'
  BY <1>1, <1>3, ListingsStep
<1> QED BY <1>2, <1>4 DEF IInv

LEMMA EachOnce ==
  ASSUME StoreIs, Listings
  PROVE  NothingTwice
<1>1. CASE Asks("chains")
  BY <1>1 DEF Listings, ChainsIs, ListingIs, Disjoint, NothingTwice
<1>2. CASE Asks("members")
  <2>1. ~Asks("chains")
    BY <1>2 DEF Asks
  <2>2. listed \in Seq(DOMAIN Sessions) /\ Ascends(Sessions, listed)
    BY <1>2 DEF Listings, MembersIs, MembersAre
  <2> SUFFICES ASSUME NEW m \in DOMAIN listed, NEW n \in DOMAIN listed, m < n,
                      listed[m] = listed[n]
               PROVE  FALSE
    BY <2>1 DEF NothingTwice
  <2>3. Precedes(PlaceOf(Sessions, listed[m]), PlaceOf(Sessions, listed[n]))
    BY <2>2 DEF Ascends
  <2>4. PlaceOf(Sessions, listed[m]) \in Place
    BY <2>2, ElementOfSeq, LenProperties, RetainedIs DEF PlaceOf, Place, SessionsAre
  <2> QED BY <2>3, <2>4, PrecedesOrders
<1>3. CASE Asks("sessions")
  <2>1. ~Asks("chains")
    BY <1>3 DEF Asks
  <2>2. listed \in Seq(DOMAIN Sessions) /\ Descends(listed)
    BY <1>3 DEF Listings, SessionsIs, SessionsAreRows
  <2> SUFFICES ASSUME NEW m \in DOMAIN listed, NEW n \in DOMAIN listed, m < n,
                      listed[m] = listed[n]
               PROVE  FALSE
    BY <2>1 DEF NothingTwice
  <2>3. listed[m] > listed[n]
    BY <2>2 DEF Descends
  <2>4. listed[m] \in Int
    BY <2>2, ElementOfSeq, LenProperties, RetainedIs DEF SessionsAre
  <2> QED BY <2>3, <2>4
<1> QED BY <1>1, <1>2, <1>3, ScriptIs DEF StoreIs, Asks
-----------------------------------------------------------------------------
(* The matcher of attack rules against what it is meant to find. *)

RuleIs(r) ==
  /\ Len(r.steps) \in Nat \ {0} /\ DOMAIN r.steps = 1 .. Len(r.steps)
  /\ r.gap \in Nat

EventsAre(events) == Len(events) \in Nat /\ DOMAIN events = 1 .. Len(events)

\* What find makes of the first n events.
States(r, events, n, g) ==
  g = [k \in 0 .. n |-> IF k = 0 THEN NewMatch(r) ELSE Feed(r, g[k - 1], events[k])]

LEMMA StatesAre ==
  ASSUME NEW r, NEW events, NEW n \in Nat, NEW g, States(r, events, n, g)
  PROVE  /\ g[0] = NewMatch(r)
         /\ \A k \in 1 .. n : g[k] = Feed(r, g[k - 1], events[k])
<1>1. PICK h : h = g
  OBVIOUS
<1>2. g = [k \in 0 .. n |-> IF k = 0 THEN NewMatch(r) ELSE Feed(r, h[k - 1], events[k])]
  BY <1>1 DEF States
<1>3. g[0] = NewMatch(r)
  BY <1>2
<1>4. ASSUME NEW k \in 1 .. n
      PROVE  g[k] = Feed(r, g[k - 1], events[k])
  BY <1>1, <1>2
<1> QED BY <1>3, <1>4

LEMMA StatesExist ==
  ASSUME NEW r, NEW events, NEW n \in Nat
  PROVE  \E g : States(r, events, n, g)
<1> DEFINE Good == {m \in 0 .. n : \E g : States(r, events, m, g)}
<1>1. 0 \in Good
  <2> DEFINE g == [k \in 0 .. 0 |-> NewMatch(r)]
  <2>1. PICK h : h = g
    OBVIOUS
  <2>2. h = [k \in 0 .. 0 |-> IF k = 0 THEN NewMatch(r) ELSE Feed(r, h[k - 1], events[k])]
    BY <2>1
  <2> QED BY <2>2 DEF States
<1>2. ASSUME NEW m \in 0 .. (n - 1), m \in Good
      PROVE  m + 1 \in Good
  <2>1. PICK g : States(r, events, m, g)
    BY <1>2
  <2>2. g[0] = NewMatch(r) /\ \A k \in 1 .. m : g[k] = Feed(r, g[k - 1], events[k])
    BY <2>1, StatesAre
  <2>3. PICK h : h = [k \in 0 .. (m + 1) |->
                        IF k = 0 THEN NewMatch(r) ELSE Feed(r, g[k - 1], events[k])]
    OBVIOUS
  <2>4. \A k \in 0 .. m : h[k] = g[k]
    <3> TAKE k \in 0 .. m
    <3>1. k \in 0 .. (m + 1) /\ (k # 0 => k \in 1 .. m)
      OBVIOUS
    <3> QED BY <2>2, <2>3, <3>1
  <2>5. \A k \in 0 .. (m + 1) : k # 0 => h[k - 1] = g[k - 1]
    <3> TAKE k \in 0 .. (m + 1)
    <3>1. k # 0 => k - 1 \in 0 .. m
      OBVIOUS
    <3> QED BY <2>4, <3>1
  <2>6. h = [k \in 0 .. (m + 1) |->
               IF k = 0 THEN NewMatch(r) ELSE Feed(r, h[k - 1], events[k])]
    BY <2>3, <2>5
  <2>7. States(r, events, m + 1, h) /\ m + 1 \in 0 .. n
    BY <2>6 DEF States
  <2> QED BY <2>7
<1>3. \A k \in 0 .. n : k \in Good
  <2> HIDE DEF Good
  <2> QED BY <1>1, <1>2, Inductive
<1> QED BY <1>3

LEMMA FindIs ==
  ASSUME NEW r, NEW events, Len(events) \in Nat
  PROVE  \E g : States(r, events, Len(events), g) /\ Find(r, events) = g[Len(events)].matched
<1>1. PICK n \in Nat : n = Len(events)
  OBVIOUS
<1> DEFINE found == CHOOSE g : States(r, events, n, g)
<1>2. States(r, events, n, found)
  BY StatesExist
<1>3. Find(r, events) = found[n].matched
  BY <1>1 DEF Find, States
<1> QED BY <1>1, <1>2, <1>3

\* f places the first k steps.
Begun(r, events, k, f) ==
  /\ f \in [1 .. k -> DOMAIN events]
  /\ \A j \in 1 .. k : /\ StepMatches(r, j, events[f[j]])
                       /\ j > 1 => f[j] - f[j - 1] \in 1 .. (r.gap + 1)

Path(events, k, f) == [j \in 1 .. k |-> events[f[j]]]

Reached(r, events, n, k, prefix) ==
  prefix = NoPrefix \/ \E f : /\ Begun(r, events, k, f) /\ f[k] <= n
                              /\ prefix = [at |-> f[k], path |-> Path(events, k, f)]

\* The latest place of a step is kept as long as an event may continue it.
LatestKept(r, events, n, k, prefix) ==
  \A f : Begun(r, events, k, f) /\ f[k] <= n /\ n - f[k] <= r.gap =>
           prefix # NoPrefix /\ prefix.at >= f[k]

Scanning(r, events, n, state) ==
  LET last == Len(r.steps)
  IN  /\ state.index = n /\ DOMAIN state.active = 1 .. last
      /\ \A k \in 1 .. last : /\ Reached(r, events, n, k, state.active[k])
                              /\ LatestKept(r, events, n, k, state.active[k])
      /\ state.active[last] = NoPrefix
      /\ \A f : Begun(r, events, last, f) => f[last] > n

Matched(r, events, state) ==
  LET last == Len(r.steps)
  IN  \E f : /\ Begun(r, events, last, f)
             /\ \A g : Begun(r, events, last, g) => f[last] <= g[last]
             /\ state.matched = Path(events, last, f)

Matching(r, events, n, state) ==
  IF state.matched = <<>> THEN Scanning(r, events, n, state) ELSE Matched(r, events, state)

LEMMA PlacedIs ==
  ASSUME NEW r, NEW events, EventsAre(events), NEW k \in Nat \ {0}, NEW f, Begun(r, events, k, f)
  PROVE  /\ f[k] \in Nat \ {0} /\ f[k] <= Len(events) /\ StepMatches(r, k, events[f[k]])
         /\ k > 1 => f[k] - f[k - 1] \in 1 .. (r.gap + 1)
<1>1. k \in 1 .. k
  OBVIOUS
<1>2. f[k] \in 1 .. Len(events)
  BY <1>1 DEF Begun, EventsAre
<1> QED BY <1>1, <1>2 DEF Begun, EventsAre

LEMMA PathExtends ==
  ASSUME NEW r, NEW events, EventsAre(events), RuleIs(r), NEW l \in Nat, NEW f,
         NEW m \in 1 .. Len(events), NEW k, k = l + 1,
         l > 0 => Begun(r, events, l, f) /\ m - f[l] \in 1 .. (r.gap + 1),
         StepMatches(r, k, events[m])
  PROVE  \E h : /\ Begun(r, events, k, h) /\ h[k] = m
                /\ Path(events, k, h) =
                     Append(IF l = 0 THEN <<>> ELSE Path(events, l, f), events[m])
<1> DEFINE h == [j \in 1 .. k |-> IF j = k THEN m ELSE f[j]]
<1>1. k \in Nat \ {0} /\ h[k] = m /\ \A j \in 1 .. l : h[j] = f[j] /\ j \in 1 .. k
  OBVIOUS
<1>2. \A j \in 1 .. k : j = k \/ (j \in 1 .. l /\ l > 0)
  OBVIOUS
<1>3. h \in [1 .. k -> DOMAIN events]
  BY <1>2 DEF Begun, EventsAre
<1>4. ASSUME NEW j \in 1 .. k
      PROVE  /\ StepMatches(r, j, events[h[j]])
             /\ j > 1 => h[j] - h[j - 1] \in 1 .. (r.gap + 1)
  <2>1. CASE j = k
    <3>1. StepMatches(r, j, events[h[j]])
      BY <1>1, <2>1
    <3>2. ASSUME j > 1
          PROVE  h[j] - h[j - 1] \in 1 .. (r.gap + 1)
      BY <2>1, <3>2, <1>1
    <3> QED BY <3>1, <3>2
  <2>2. CASE j \in 1 .. l /\ l > 0
    <3>1. h[j] = f[j] /\ StepMatches(r, j, events[f[j]])
      BY <1>1, <2>2 DEF Begun
    <3>2. ASSUME j > 1
          PROVE  h[j] - h[j - 1] \in 1 .. (r.gap + 1)
      <4>1. j - 1 \in 1 .. l
        BY <2>2, <3>2
      <4>2. h[j - 1] = f[j - 1]
        BY <1>1, <4>1
      <4>3. f[j] - f[j - 1] \in 1 .. (r.gap + 1)
        BY <2>2, <3>2 DEF Begun
      <4> QED BY <3>1, <4>2, <4>3
    <3> QED BY <3>1, <3>2
  <2> QED BY <1>2, <2>1, <2>2
<1>5. Begun(r, events, k, h)
  BY <1>3, <1>4 DEF Begun
<1>6. Path(events, k, h) = Append(IF l = 0 THEN <<>> ELSE Path(events, l, f), events[m])
  <2>1. PICK p : p = IF l = 0 THEN <<>> ELSE Path(events, l, f)
    OBVIOUS
  <2>2. p = [j \in 1 .. l |-> events[f[j]]]
    <3>1. CASE l = 0
      BY <3>1, <2>1
    <3>2. CASE l # 0
      BY <2>1, <3>2 DEF Path
    <3> QED BY <3>1, <3>2
  <2>3. Append(p, events[m]) = [j \in 1 .. (l + 1) |-> IF j = l + 1 THEN events[m] ELSE p[j]]
    BY <2>2
  <2>4. \A j \in 1 .. k : (IF j = l + 1 THEN events[m] ELSE p[j]) = events[h[j]]
    <3> TAKE j \in 1 .. k
    <3>1. CASE j = k
      BY <1>1, <3>1
    <3>2. CASE j \in 1 .. l /\ l > 0
      BY <1>1, <2>2, <3>2
    <3> QED BY <1>2, <3>1, <3>2
  <2>5. Path(events, k, h) = [j \in 1 .. k |-> events[h[j]]]
    BY DEF Path
  <2> HIDE DEF h
  <2> QED BY <2>1, <2>3, <2>4, <2>5
<1> HIDE DEF h
<1> QED BY <1>1, <1>5, <1>6

\* The beginning of a partial occurrence is one.
LEMMA PartialBegins ==
  ASSUME NEW r, NEW events, EventsAre(events), NEW k \in Nat, k > 1, NEW f, Begun(r, events, k, f)
  PROVE  \E h : Begun(r, events, k - 1, h) /\ h[k - 1] = f[k - 1]
<1>1. PICK l \in Nat \ {0} : l = k - 1 /\ \A j \in 1 .. l : j \in 1 .. k /\ (j > 1 => j - 1 \in 1 .. l)
  OBVIOUS
<1>2. PICK h : h = [j \in 1 .. l |-> f[j]]
  OBVIOUS
<1>3. \A j \in 1 .. l : h[j] = f[j]
  BY <1>2
<1>4. h \in [1 .. l -> DOMAIN events]
  BY <1>1, <1>2 DEF Begun
<1>5. \A j \in 1 .. l : /\ StepMatches(r, j, events[h[j]])
                        /\ j > 1 => h[j] - h[j - 1] \in 1 .. (r.gap + 1)
  <2> TAKE j \in 1 .. l
  <2>1. h[j] = f[j] /\ (j > 1 => h[j - 1] = f[j - 1])
    BY <1>1, <1>3
  <2>2. /\ StepMatches(r, j, events[f[j]])
        /\ j > 1 => f[j] - f[j - 1] \in 1 .. (r.gap + 1)
    BY <1>1 DEF Begun
  <2> QED BY <2>1, <2>2
<1>6. l \in 1 .. l
  BY <1>1
<1>7. Begun(r, events, l, h) /\ h[l] = f[l]
  BY <1>3, <1>4, <1>5, <1>6 DEF Begun
<1> QED BY <1>1, <1>7

LEMMA FeedMatches ==
  ASSUME NEW r, RuleIs(r), NEW events, EventsAre(events),
         NEW n \in 0 .. (Len(events) - 1), NEW state, Matching(r, events, n, state)
  PROVE  Matching(r, events, n + 1, Feed(r, state, events[n + 1]))
<1> DEFINE last == Len(r.steps)
<1>1. PICK m \in 1 .. Len(events) : m = n + 1
  BY DEF EventsAre
<1>2. PICK e : e = events[m]
  OBVIOUS
<1>3. CASE state.matched # <<>>
  BY <1>3, <1>1, <1>2 DEF Feed, Matching
<1>4. CASE state.matched = <<>>
  <2>1. /\ state.index = n /\ DOMAIN state.active = 1 .. last
        /\ \A k \in 1 .. last : /\ Reached(r, events, n, k, state.active[k])
                                /\ LatestKept(r, events, n, k, state.active[k])
        /\ state.active[last] = NoPrefix
        /\ \A f : Begun(r, events, last, f) => f[last] > n
    BY <1>4 DEF Matching, Scanning
  <2>2. PICK a : a = state.active
    OBVIOUS
  <2>16. DOMAIN a = 1 .. last
    BY <2>1, <2>2
  <2>17. PICK v : v = Viable(r, a, m)
    OBVIOUS
  <2>18. v = [k \in 1 .. last |-> IF m - a[k].at > r.gap + 1 THEN NoPrefix ELSE a[k]]
    BY <2>16, <2>17 DEF Viable
  <2>3. \A k \in 1 .. last : v[k] = IF m - a[k].at > r.gap + 1 THEN NoPrefix ELSE a[k]
    BY <2>18
  <2>19. PICK b : b = Continuations(r, a, m, e)
    OBVIOUS
  <2>20. b = [k \in 1 .. last |->
                IF StepMatches(r, k, e) /\ (k = 1 \/ v[k - 1] # NoPrefix)
                THEN [at |-> m, path |-> Append(IF k = 1 THEN <<>> ELSE v[k - 1].path, e)]
                ELSE v[k]]
    BY <2>16, <2>17, <2>19 DEF Continuations
  <2>4. /\ b = Continuations(r, a, m, e) /\ DOMAIN b = 1 .. last
        /\ \A k \in 1 .. last :
             b[k] = IF StepMatches(r, k, e) /\ (k = 1 \/ v[k - 1] # NoPrefix)
                    THEN [at |-> m, path |-> Append(IF k = 1 THEN <<>> ELSE v[k - 1].path, e)]
                    ELSE v[k]
    BY <2>19, <2>20
  <2>5. Feed(r, state, e) =
          [active |-> b, index |-> m,
           matched |-> IF b[last] # NoPrefix THEN b[last].path ELSE <<>>]
    BY <1>1, <1>4, <2>1, <2>2, <2>4 DEF Feed
  <2>6. last \in Nat \ {0} /\ r.gap \in Nat /\ n \in Nat /\ m \in Nat
    BY DEF RuleIs, EventsAre
  <2>7. \A k \in 1 .. last : Reached(r, events, n, k, a[k]) /\ LatestKept(r, events, n, k, a[k])
    BY <2>1, <2>2
  \* What a place in active says.
  <2>8. ASSUME NEW k \in 1 .. last, a[k] # NoPrefix
        PROVE  \E f : /\ Begun(r, events, k, f) /\ f[k] <= n /\ f[k] \in Nat \ {0}
                      /\ a[k].at = f[k] /\ a[k].path = Path(events, k, f)
    <3>1. PICK f : /\ Begun(r, events, k, f) /\ f[k] <= n
                   /\ a[k] = [at |-> f[k], path |-> Path(events, k, f)]
      BY <2>7, <2>8 DEF Reached
    <3>2. f[k] \in Nat \ {0}
      BY <3>1, PlacedIs
    <3> QED BY <3>1, <3>2
  \* What it says of those still viable.
  <2>9. ASSUME NEW k \in 1 .. last, v[k] # NoPrefix
        PROVE  v[k] = a[k] /\ a[k] # NoPrefix /\ ~(m - a[k].at > r.gap + 1)
    BY <2>3, <2>9
  <2>10. ASSUME NEW k \in 1 .. last, NEW f, Begun(r, events, k, f), f[k] <= n, n - f[k] <= r.gap
         PROVE  v[k] # NoPrefix /\ v[k].at >= f[k]
    <3>1. a[k] # NoPrefix /\ a[k].at >= f[k]
      BY <2>7, <2>10 DEF LatestKept
    <3>2. PICK g : Begun(r, events, k, g) /\ g[k] \in Nat \ {0} /\ a[k].at = g[k]
      BY <2>8, <3>1
    <3>3. f[k] \in Nat \ {0}
      BY <2>10, PlacedIs
    <3>4. PICK p \in Nat, x \in Nat, gap \in Nat : p = a[k].at /\ x = f[k] /\ gap = r.gap
      BY <2>6, <3>2, <3>3
    <3>6. p >= x /\ n - x <= gap /\ n \in Nat /\ m = n + 1
      BY <1>1, <2>6, <2>10, <3>1, <3>4
    <3>5. ~(m - p > gap + 1)
      BY <3>6
    <3> QED BY <2>3, <3>1, <3>4, <3>5
  <2>11. ASSUME NEW k \in 1 .. last, StepMatches(r, k, e), k = 1 \/ v[k - 1] # NoPrefix
         PROVE  \E h : /\ Begun(r, events, k, h) /\ h[k] = m
                       /\ b[k] = [at |-> m, path |-> Path(events, k, h)]
    <3>1. b[k] = [at |-> m, path |-> Append(IF k = 1 THEN <<>> ELSE v[k - 1].path, e)]
      BY <2>4, <2>11
    <3>2. PICK l \in Nat : k = l + 1 /\ l = k - 1
      OBVIOUS
    <3>3. CASE k = 1
      <4>1. l = 0
        BY <3>2, <3>3
      <4>2. PICK h : h = [j \in 1 .. 1 |-> m]
        OBVIOUS
      <4>3. h \in [1 .. k -> DOMAIN events] /\ h[k] = m /\ \A j \in 1 .. k : j = k /\ ~(j > 1)
        BY <3>3, <4>2 DEF EventsAre
      <4>4. Begun(r, events, k, h)
        BY <1>2, <2>11, <4>3 DEF Begun
      <4>6. Path(events, k, h) = <<e>>
        BY <1>2, <3>3, <4>2 DEF Path
      <4>5. Append(<<>>, e) = <<e>>
        OBVIOUS
      <4> QED BY <3>1, <3>3, <4>3, <4>4, <4>5, <4>6
    <3>4. CASE k # 1
      <4>1. l \in 1 .. last /\ v[l] # NoPrefix
        BY <2>11, <3>2, <3>4
      <4>2. v[l] = a[l] /\ a[l] # NoPrefix /\ ~(m - a[l].at > r.gap + 1)
        BY <2>9, <4>1
      <4>3. PICK f : /\ Begun(r, events, l, f) /\ f[l] <= n /\ f[l] \in Nat \ {0}
                     /\ a[l].at = f[l] /\ a[l].path = Path(events, l, f)
        BY <2>8, <4>1, <4>2
      <4>4. m - f[l] \in 1 .. (r.gap + 1)
        BY <1>1, <2>6, <4>2, <4>3
      <4>5. PICK h : /\ Begun(r, events, k, h) /\ h[k] = m
                     /\ Path(events, k, h) = Append(IF l = 0 THEN <<>> ELSE Path(events, l, f), events[m])
        BY <1>2, <2>11, <3>2, <4>3, <4>4, PathExtends
      <4>6. l # 0
        BY <4>1
      <4> QED BY <1>2, <3>1, <3>2, <3>4, <4>2, <4>3, <4>5, <4>6
    <3> QED BY <3>3, <3>4
  <2>12. ASSUME NEW k \in 1 .. last
         PROVE  Reached(r, events, m, k, b[k])
    <3>1. CASE StepMatches(r, k, e) /\ (k = 1 \/ v[k - 1] # NoPrefix)
      <4>1. PICK h : /\ Begun(r, events, k, h) /\ h[k] = m
                     /\ b[k] = [at |-> m, path |-> Path(events, k, h)]
        BY <2>11, <3>1
      <4>2. h[k] <= m
        BY <2>6, <4>1
      <4> QED BY <4>1, <4>2 DEF Reached
    <3>2. CASE ~(StepMatches(r, k, e) /\ (k = 1 \/ v[k - 1] # NoPrefix))
      <4>1. b[k] = v[k]
        BY <2>4, <3>2
      <4>2. CASE v[k] = NoPrefix
        BY <4>1, <4>2 DEF Reached
      <4>3. CASE v[k] # NoPrefix
        <5>1. b[k] = a[k] /\ a[k] # NoPrefix
          BY <2>9, <4>1, <4>3
        <5>2. PICK f : /\ Begun(r, events, k, f) /\ f[k] <= n
                       /\ a[k] = [at |-> f[k], path |-> Path(events, k, f)]
          BY <2>7, <5>1 DEF Reached
        <5>3. f[k] \in Nat \ {0}
          BY <5>2, PlacedIs
        <5>4. f[k] <= m
          BY <1>1, <2>6, <5>2, <5>3
        <5> QED BY <5>1, <5>2, <5>4 DEF Reached
      <4> QED BY <4>2, <4>3
    <3> QED BY <3>1, <3>2
  <2>13. ASSUME NEW k \in 1 .. last, NEW f, Begun(r, events, k, f), f[k] <= m, m - f[k] <= r.gap
         PROVE  b[k] # NoPrefix /\ b[k].at >= f[k]
    <3>1. /\ f[k] \in Nat \ {0} /\ StepMatches(r, k, events[f[k]])
          /\ k > 1 => f[k] - f[k - 1] \in 1 .. (r.gap + 1)
      BY <2>13, PlacedIs
    <3>2. [at |-> m, path |-> <<>>] # NoPrefix /\ \A p : [at |-> m, path |-> p] # NoPrefix
      BY <1>1 DEF NoPrefix
    <3>3. CASE f[k] = m
      <4>1. StepMatches(r, k, e)
        BY <1>2, <3>1, <3>3
      <4>2. ASSUME k # 1
            PROVE  v[k - 1] # NoPrefix
        <5>1. k \in Nat /\ k > 1
          BY <4>2
        <5>2. PICK l \in 1 .. last : l = k - 1
          BY <5>1
        <5>3. PICK h : Begun(r, events, l, h) /\ h[l] = f[l]
          BY <2>13, <5>1, <5>2, PartialBegins
        <5>4. h[l] \in Nat \ {0}
          BY <5>3, PlacedIs
        <5>5. m - h[l] \in 1 .. (r.gap + 1)
          BY <3>1, <3>3, <5>1, <5>2, <5>3
        <5>6. h[l] <= n /\ n - h[l] <= r.gap
          BY <1>1, <2>6, <5>4, <5>5
        <5> QED BY <2>10, <5>2, <5>3, <5>6
      <4>3. PICK p : b[k] = [at |-> m, path |-> p]
        BY <2>4, <4>1, <4>2
      <4> QED BY <2>6, <3>2, <3>3, <4>3
    <3>4. CASE f[k] # m
      <4>1. f[k] <= n /\ n - f[k] <= r.gap
        BY <1>1, <2>6, <2>13, <3>1, <3>4
      <4>2. v[k] # NoPrefix /\ v[k].at >= f[k]
        BY <2>10, <2>13, <4>1
      <4>3. CASE b[k] = v[k]
        BY <4>2, <4>3
      <4>4. CASE b[k] # v[k]
        <5>1. PICK p : b[k] = [at |-> m, path |-> p]
          BY <2>4, <4>4
        <5> QED BY <2>6, <2>13, <3>1, <3>2, <5>1
      <4> QED BY <4>3, <4>4
    <3> QED BY <3>3, <3>4
  <2>14. CASE b[last] = NoPrefix
    <3>1. Feed(r, state, e).matched = <<>> /\ Feed(r, state, e).index = m /\ Feed(r, state, e).active = b
      BY <2>5, <2>14
    <3>2. ASSUME NEW f, Begun(r, events, last, f)
          PROVE  f[last] > m
      <4>1. f[last] > n
        BY <2>1, <3>2
      <4>2. f[last] \in Nat \ {0}
        BY <2>6, <3>2, PlacedIs
      <4>3. f[last] # m
        <5> SUFFICES ASSUME f[last] = m
                     PROVE  FALSE
          OBVIOUS
        <5>1. m - f[last] <= r.gap /\ f[last] <= m /\ last \in 1 .. last
          BY <2>6
        <5> QED BY <2>13, <2>14, <3>2, <5>1
      <4> QED BY <1>1, <2>6, <4>1, <4>2, <4>3
    <3>3. Scanning(r, events, m, Feed(r, state, e))
      BY <2>4, <2>12, <2>13, <2>14, <3>1, <3>2 DEF Scanning, LatestKept
    <3> QED BY <1>1, <1>2, <3>1, <3>3 DEF Matching
  <2>15. CASE b[last] # NoPrefix
    <3>1. Feed(r, state, e).matched = b[last].path
      BY <2>5, <2>15
    <3>2. last \in 1 .. last /\ v[last] = NoPrefix
      BY <2>6, <2>1, <2>2, <2>3
    <3>3. PICK h : /\ Begun(r, events, last, h) /\ h[last] = m
                   /\ b[last] = [at |-> m, path |-> Path(events, last, h)]
      BY <2>4, <2>11, <2>15, <3>2
    <3>4. \A g : Begun(r, events, last, g) => h[last] <= g[last]
      <4> SUFFICES ASSUME NEW g, Begun(r, events, last, g)
                   PROVE  h[last] <= g[last]
        OBVIOUS
      <4>1. g[last] > n /\ g[last] \in Nat \ {0}
        BY <2>1, <2>6, PlacedIs
      <4> QED BY <1>1, <2>6, <3>3, <4>1
    <3>5. Feed(r, state, e).matched = Path(events, last, h)
      BY <3>1, <3>3
    <3>6. Path(events, last, h) # <<>>
      BY <3>2 DEF Path
    <3>7. Matched(r, events, Feed(r, state, e))
      BY <3>3, <3>4, <3>5 DEF Matched
    <3> QED BY <1>1, <1>2, <3>5, <3>6, <3>7 DEF Matching
  <2> QED BY <2>14, <2>15
<1> QED BY <1>3, <1>4

\* For every rule and every sequence of events: what find returns is the
\* occurrence of the rule that is complete first, and nothing if there is
\* none (MatchState::feed keeps one prefix for each step only).
THEOREM FindsFirst ==
  ASSUME NEW r, RuleIs(r), NEW events, EventsAre(events)
  PROVE  Explains(r, events, Find(r, events))
<1> DEFINE last == Len(r.steps)
<1>1. PICK n \in Nat : n = Len(events) /\ DOMAIN events = 1 .. n
  BY Zenon DEF EventsAre
<1>2. PICK g : States(r, events, n, g) /\ Find(r, events) = g[n].matched
  BY <1>1, FindIs
<1>3. g[0] = NewMatch(r) /\ \A k \in 1 .. n : g[k] = Feed(r, g[k - 1], events[k])
  BY <1>2, StatesAre
<1>4. last \in Nat \ {0} /\ DOMAIN r.steps = 1 .. last
  BY DEF RuleIs
<1> DEFINE Good == {k \in 0 .. n : Matching(r, events, k, g[k])}
<1>5. 0 \in Good
  <2>1. /\ g[0].matched = <<>> /\ g[0].index = 0 /\ DOMAIN g[0].active = 1 .. last
        /\ \A k \in 1 .. last : g[0].active[k] = NoPrefix
    BY <1>3, <1>4 DEF NewMatch
  <2>2. \A k \in 1 .. last : \A f : Begun(r, events, k, f) => f[k] \in Nat /\ f[k] > 0
    <3> TAKE k \in 1 .. last
    <3>1. k \in Nat \ {0}
      BY <1>4
    <3> QED BY <3>1, PlacedIs
  <2>3. last \in 1 .. last
    BY <1>4
  <2>4. Scanning(r, events, 0, g[0])
    BY <2>1, <2>2, <2>3 DEF Reached, LatestKept, Scanning
  <2> QED BY <2>1, <2>4 DEF Matching
<1>6. ASSUME NEW k \in 0 .. (n - 1), k \in Good
      PROVE  k + 1 \in Good
  BY <1>1, <1>3, <1>6, FeedMatches
<1>7. \A k \in 0 .. n : k \in Good
  <2> HIDE DEF Good
  <2> QED BY <1>5, <1>6, Inductive
<1>8. Matching(r, events, n, g[n])
  BY <1>7
<1>9. \A f : f \in Occurrences(r, events) <=> Begun(r, events, last, f)
  <2> TAKE f
  <2>1. DOMAIN r.steps = 1 .. last
    BY <1>4
  <2> QED BY <2>1 DEF Occurrences, Begun
<1>10. CASE g[n].matched = <<>>
  <2>1. \A f : Begun(r, events, last, f) => f[last] > n
    BY <1>8, <1>10 DEF Matching, Scanning
  <2>2. \A f : Begun(r, events, last, f) => f[last] \in Nat /\ f[last] <= n
    BY <1>1, <1>4, PlacedIs
  <2>3. \A f : ~Begun(r, events, last, f)
    BY <2>1, <2>2
  <2>4. Occurrences(r, events) = {}
    BY <1>9, <2>3
  <2> QED BY <1>2, <1>10, <2>4 DEF Explains
<1>11. CASE g[n].matched # <<>>
  <2>1. PICK f : /\ Begun(r, events, last, f)
                 /\ \A h : Begun(r, events, last, h) => f[last] <= h[last]
                 /\ g[n].matched = Path(events, last, f)
    BY <1>8, <1>11 DEF Matching, Matched
  <2>2. f \in Occurrences(r, events) /\ \A h \in Occurrences(r, events) : f[last] <= h[last]
    BY <1>9, <2>1
  <2>3. Find(r, events) = [k \in 1 .. last |-> events[f[k]]]
    BY <1>2, <2>1 DEF Path
  <2> QED BY <2>2, <2>3 DEF Explains
<1> QED BY <1>10, <1>11, Zenon

-----------------------------------------------------------------------------
(* What a chain is meant to be. *)

\* No gap of more than the window lies between two starts.
Gapless(s, M, i, from, to) ==
  \A k \in M : SameIn(s, i, k) /\ from <= s[k].start /\ s[k].start < to =>
    \E l \in M : /\ SameIn(s, i, l) /\ s[k].start < s[l].start
                 /\ s[l].start <= s[k].start + Window

\* A boundary between two sessions is a gap, and a gap ends with a boundary.
LEMMA GapsSplit ==
  ASSUME NEW s, SessionsAre(s), NEW M \in SUBSET DOMAIN s, NEW i \in M, NEW j \in M,
         SameIn(s, i, j), BeforeIn(s, i, j)
  PROVE  StartIn(s, M, i) = StartIn(s, M, j) <=> Gapless(s, M, i, s[i].start, s[j].start)
<1>1. StartIn(s, M, i) = StartIn(s, M, j) <=> \A b \in M : ~Splits(s, M, i, j, b)
  BY NotSplit
<1>2. i \in DOMAIN s /\ j \in DOMAIN s /\ s[i].start <= s[j].start
      /\ \A k \in M : k \in DOMAIN s /\ s[k].start \in Int
  BY DEF SessionsAre, BeforeIn
<1>3. ASSUME \A b \in M : ~Splits(s, M, i, j, b),
             NEW k \in M, SameIn(s, i, k), s[i].start <= s[k].start, s[k].start < s[j].start
      PROVE  \E l \in M : /\ SameIn(s, i, l) /\ s[k].start < s[l].start
                          /\ s[l].start <= s[k].start + Window
  <2> DEFINE U == {l \in M : SameIn(s, i, l) /\ s[k].start < s[l].start}
  <2>1. j \in U /\ U \in SUBSET DOMAIN s
    BY <1>2, <1>3
  <2>2. PICK u \in U : \A l \in U : l = u \/ BeforeIn(s, u, l)
    <3> HIDE DEF U
    <3> QED BY <2>1, EarliestOf
  <2>3. u \in M /\ u \in DOMAIN s /\ SameIn(s, i, u) /\ s[k].start < s[u].start /\ s[u].start \in Int
        /\ s[k].start \in Int
    BY <1>2
  <2>4. BeforeIn(s, i, u) /\ ~BeforeIn(s, j, u)
    BY <1>2, <1>3, <2>3, <2>1, <2>2, BeforeOrders DEF BeforeIn
  <2>5. ~OpensIn(s, M, u)
    BY <1>3, <2>3, <2>4, SameIsEquivalence DEF Splits
  <2>6. PICK p \in M : SameIn(s, p, u) /\ BeforeIn(s, p, u) /\ ~(s[u].start - s[p].start > Window)
    BY <2>5 DEF OpensIn
  <2>7. p \in DOMAIN s /\ s[p].start \in Int /\ SameIn(s, i, p)
    BY <1>2, <2>3, <2>6, SameIsEquivalence
  <2>8. p \notin U
    BY <2>2, <2>3, <2>6, <2>7, BeforeOrders
  <2>9. s[p].start <= s[k].start
    BY <2>3, <2>7, <2>8
  <2> QED BY <2>3, <2>6, <2>7, <2>9, SizesAssumption
<1>4. ASSUME Gapless(s, M, i, s[i].start, s[j].start), NEW b \in M, Splits(s, M, i, j, b)
      PROVE  FALSE
  <2> DEFINE P == {l \in M : SameIn(s, i, l) /\ BeforeIn(s, l, b)}
  <2>1. /\ SameIn(s, i, b) /\ OpensIn(s, M, b) /\ BeforeIn(s, i, b) /\ ~BeforeIn(s, j, b)
        /\ b \in DOMAIN s /\ s[b].start \in Int /\ s[b].start <= s[j].start
        /\ s[i].start \in Int /\ s[j].start \in Int
    BY <1>2, <1>4, SameIsEquivalence, BeforeOrders DEF Splits
  <2>2. P \in SUBSET DOMAIN s /\ i \in P
    BY <1>2, <2>1, SameIsEquivalence
  <2>3. PICK p \in P : \A l \in P : s[l].start <= s[p].start
    <3> HIDE DEF P
    <3>1. P # {}
      BY <2>2
    <3>2. PICK p \in P : Max(StartsOf(s, P)) = s[p].start
      BY <2>2, <3>1, LastStart
    <3>3. \A l \in P : s[l].start <= Max(StartsOf(s, P))
      BY <2>2, <3>1, LastStart
    <3> QED BY <3>2, <3>3
  <2>4. p \in M /\ SameIn(s, i, p) /\ SameIn(s, p, b) /\ BeforeIn(s, p, b) /\ s[p].start \in Int
        /\ s[i].start <= s[p].start
    BY <1>2, <2>1, <2>2, <2>3, SameIsEquivalence
  <2>5. s[b].start - s[p].start > Window
    BY <2>1, <2>4 DEF OpensIn
  <2>6. s[p].start < s[j].start
    BY <2>1, <2>4, <2>5, SizesAssumption
  <2>7. PICK l \in M : /\ SameIn(s, i, l) /\ s[p].start < s[l].start
                       /\ s[l].start <= s[p].start + Window
    BY <1>4, <2>4, <2>6 DEF Gapless
  <2>8. s[l].start \in Int /\ s[l].start < s[b].start
    BY <1>2, <2>1, <2>4, <2>5, <2>7, SizesAssumption
  <2>9. l \in P
    BY <2>7, <2>8 DEF BeforeIn
  <2> QED BY <2>3, <2>4, <2>7, <2>8, <2>9
<1> QED BY <1>1, <1>3, <1>4 DEF Gapless

LEMMA Least ==
  ASSUME NEW a \in Int, NEW b \in Int, a <= b
  PROVE  Min({a, b}) = a /\ Max({a, b}) = b /\ Min({b, a}) = a /\ Max({b, a}) = b
<1>1. {a, b} = {b, a} /\ {a, b} \in SUBSET Int /\ IsFiniteSet({a, b}) /\ {a, b} # {}
  <2>1. IsFiniteSet({} \cup {a})
    BY FS_AddElement, FS_EmptySet
  <2>2. IsFiniteSet(({} \cup {a}) \cup {b})
    BY <2>1, FS_AddElement
  <2>3. ({} \cup {a}) \cup {b} = {a, b}
    OBVIOUS
  <2> QED BY <2>2, <2>3
<1>2. Min({a, b}) \in {a, b} /\ \A x \in {a, b} : Min({a, b}) <= x
  BY <1>1, MinIs
<1>3. Max({a, b}) \in {a, b} /\ \A x \in {a, b} : x <= Max({a, b})
  BY <1>1, MaxIs
<1> QED BY <1>1, <1>2, <1>3

\* chain_start puts together exactly what belongs together.
LEMMA ChainsCorrelate ==
  ASSUME script \in Scripts, NEW M \in SUBSET DOMAIN Sessions, NEW i \in M
  PROVE  Correlated(M, i) = ChainIn(Sessions, M, i)
<1> DEFINE s == Sessions
<1>1. SessionsAre(s) /\ \A k \in M : k \in DOMAIN s /\ s[k].start \in Int
  BY ScriptIs DEF SessionsAre
<1>2. ASSUME NEW j \in M, SameIn(s, i, j)
      PROVE  j \in Correlated(M, i)
               <=> Gapless(s, M, i, Min({s[i].start, s[j].start}), Max({s[i].start, s[j].start}))
  BY <1>2 DEF Correlated, Gapless, SameKey, SameIn
<1>3. ASSUME NEW j \in M
      PROVE  j \in Correlated(M, i) => SameIn(s, i, j)
  BY DEF Correlated, SameKey, SameIn
<1>4. ASSUME NEW j \in M, SameIn(s, i, j)
      PROVE  j \in Correlated(M, i) <=> StartIn(s, M, j) = StartIn(s, M, i)
  <2>1. s[i].start \in Int /\ s[j].start \in Int /\ i \in DOMAIN s /\ j \in DOMAIN s
    BY <1>1
  <2> HIDE DEF s
  <2>2. CASE i = j
    <3>3. PICK a \in Int : a = s[i].start
      BY <2>1
    <3>4. a <= a
      OBVIOUS
    <3>5. Min({a, a}) = a /\ Max({a, a}) = a
      BY <3>4, Least
    <3>1. Min({s[i].start, s[j].start}) = s[i].start /\ Max({s[i].start, s[j].start}) = s[i].start
      BY <2>2, <3>3, <3>5
    <3>2. Gapless(s, M, i, s[i].start, s[i].start)
      BY <1>1 DEF Gapless
    <3> QED BY <1>2, <1>4, <2>2, <3>1, <3>2
  <2>3. CASE BeforeIn(s, i, j)
    <3>1. s[i].start <= s[j].start
      BY <2>1, <2>3 DEF BeforeIn
    <3>2. Min({s[i].start, s[j].start}) = s[i].start /\ Max({s[i].start, s[j].start}) = s[j].start
      BY <2>1, <3>1, Least
    <3> QED BY <1>1, <1>2, <1>4, <2>3, <3>2, GapsSplit
  <2>4. CASE BeforeIn(s, j, i)
    <3>1. s[j].start <= s[i].start
      BY <2>1, <2>4 DEF BeforeIn
    <3>2. Min({s[i].start, s[j].start}) = s[j].start /\ Max({s[i].start, s[j].start}) = s[i].start
      BY <2>1, <3>1, Least
    <3>3. SameIn(s, j, i)
      BY <1>4, SameIsEquivalence
    <3>4. StartIn(s, M, j) = StartIn(s, M, i) <=> Gapless(s, M, j, s[j].start, s[i].start)
      BY <1>1, <2>4, <3>3, GapsSplit
    <3>5. \A k : SameIn(s, i, k) <=> SameIn(s, j, k)
      BY <1>4, <3>3, SameIsEquivalence
    <3>6. Gapless(s, M, j, s[j].start, s[i].start) <=> Gapless(s, M, i, s[j].start, s[i].start)
      BY <3>5 DEF Gapless
    <3> QED BY <1>2, <1>4, <3>2, <3>4, <3>6
  <2> QED BY <1>1, <2>1, <2>2, <2>3, <2>4, BeforeOrders
<1>5. \A j \in M : SameIn(s, i, j) <=> SameIn(s, j, i)
  BY SameIsEquivalence
<1>6. \A j : j \in Correlated(M, i) => j \in M
  BY DEF Correlated
<1> QED BY <1>3, <1>4, <1>5, <1>6 DEF ChainIn

\* The sessions in the range of a chain are its members.
LEMMA RangeIs ==
  ASSUME NEW s, SessionsAre(s), NEW M \in SUBSET DOMAIN s, NEW n, NEW c, IsSummary(s, M, n, c),
         NEW j \in M
  PROVE  j \in c.members <=> IF c.key = None THEN j = c.id
                             ELSE s[j].key = c.key /\ c.start <= s[j].start /\ s[j].start <= c.last
<1>1. PICK i \in M : c = SummaryIn(s, ChainIn(s, M, i), n)
  BY DEF IsSummary
<1> DEFINE C == ChainIn(s, M, i)
<1>2. C # {} /\ C \subseteq M /\ C \in SUBSET DOMAIN s
  BY ChainsPartition
<1>3. \A k \in M : k \in DOMAIN s /\ s[k].start \in Int
  BY DEF SessionsAre
<1>4. \A k \in M : k \in C <=> SameIn(s, k, i) /\ StartIn(s, M, k) = StartIn(s, M, i)
  BY DEF ChainIn
<1>5. /\ c.id = Min(C) /\ c.key = s[Min(C)].key /\ c.members = C
      /\ c.start = Min(StartsOf(s, C)) /\ c.last = Max(StartsOf(s, C))
  BY <1>1 DEF SummaryIn
<1> HIDE DEF C
<1>6. Min(C) \in C /\ (\A k \in C : c.start <= s[k].start) /\ (\E k \in C : c.start = s[k].start)
  <2>1. /\ Min(C) \in C /\ \A k \in C : PlaceIn(s, C).start <= s[k].start
        /\ \E k \in C : PlaceIn(s, C).start = s[k].start
    BY <1>2, PlaceIs
  <2>2. PlaceIn(s, C).start = c.start
    BY <1>5 DEF PlaceIn
  <2> QED BY <2>1, <2>2
<1>7. (\A k \in C : s[k].start <= c.last) /\ (\E k \in C : c.last = s[k].start)
  BY <1>2, <1>5, LastStart
<1>8. ASSUME j \in C
      PROVE  IF c.key = None THEN j = c.id
             ELSE s[j].key = c.key /\ c.start <= s[j].start /\ s[j].start <= c.last
  BY <1>2, <1>4, <1>6, <1>8, SameIsEquivalence, <1>5, <1>7 DEF SameIn
<1>9. ASSUME c.key = None, j = c.id
      PROVE  j \in C
  BY <1>5, <1>6, <1>9
<1>10. ASSUME c.key # None, s[j].key = c.key, c.start <= s[j].start, s[j].start <= c.last
       PROVE  j \in C
  <2>1. PICK a \in C : c.start = s[a].start
    BY <1>6
  <2>2. PICK b \in C : c.last = s[b].start
    BY <1>7
  <2>3. a \in M /\ b \in M /\ SameIn(s, j, Min(C)) /\ s[a].start \in Int /\ s[b].start \in Int
        /\ s[j].start \in Int /\ a \in DOMAIN s /\ b \in DOMAIN s /\ j \in DOMAIN s
    BY <1>2, <1>3, <1>5, <1>10 DEF SameIn
  <2>4. SameIn(s, j, i)
    BY <1>2, <1>4, <1>6, <2>3, SameIsEquivalence
  <2>5. SameIn(s, a, j) /\ SameIn(s, j, a) /\ SameIn(s, b, j) /\ SameIn(s, j, b) /\ SameIn(s, a, b)
    BY <1>4, <2>3, <2>4, SameIsEquivalence
  <2>6. StartIn(s, M, a) = StartIn(s, M, i) /\ StartIn(s, M, b) = StartIn(s, M, i)
    BY <1>4, <2>3
  <2>7. ASSUME NEW x \in M, SameIn(s, x, j), SameIn(s, j, x), StartIn(s, M, x) = StartIn(s, M, i),
               s[x].start = s[j].start
        PROVE  StartIn(s, M, j) = StartIn(s, M, i)
    BY <1>3, <2>3, <2>7, SizesAssumption, BeforeOrders, NeighbourIn
  <2>8. CASE s[j].start = s[a].start \/ s[j].start = s[b].start
    BY <2>3, <2>4, <2>5, <2>6, <2>7, <2>8, <1>4
  <2>9. CASE ~(s[j].start = s[a].start \/ s[j].start = s[b].start)
    <3>1. s[a].start < s[j].start /\ s[j].start < s[b].start
      BY <1>10, <2>1, <2>2, <2>3, <2>9
    <3>2. BeforeIn(s, a, j) /\ ~BeforeIn(s, b, j)
      BY <2>3, <3>1 DEF BeforeIn
    <3>3. StartIn(s, M, j) = StartIn(s, M, a)
      BY <2>3, <2>5, <2>6, <3>2, ChainIsConvex
    <3> QED BY <1>4, <2>4, <2>6, <3>3
  <2> QED BY <2>8, <2>9
<1> QED BY <1>5, <1>8, <1>9, <1>10

\* So the rows that are classified are those of the chain.
LEMMA ScopeIs ==
  ASSUME script \in Scripts, NEW V \in SUBSET DOMAIN Sessions, NEW n, NEW c,
         IsSummary(Sessions, VisibleIn(Sessions, V, n), n, c)
  PROVE  Scope(V, c) = c.members
<1> DEFINE M == VisibleIn(Sessions, V, n)
<1>1. SessionsAre(Sessions) /\ M \in SUBSET DOMAIN Sessions
  BY ScriptIs DEF VisibleIn
<1>2. c.snapshot = n /\ c.members \subseteq M
  BY <1>1, SummaryIs
<1>3. Visible(V, c.snapshot) = M
  BY <1>2, Links
<1>4. \A j : j \in Scope(V, c) <=>
        /\ j \in M
        /\ IF c.key = None THEN j = c.id
           ELSE Sessions[j].key = c.key
                /\ Sessions[j].start >= c.start /\ Sessions[j].start <= c.last
  BY <1>3 DEF Scope
<1>5. \A j \in M : j \in c.members <=>
        IF c.key = None THEN j = c.id
        ELSE Sessions[j].key = c.key
             /\ c.start <= Sessions[j].start /\ Sessions[j].start <= c.last
  BY <1>1, RangeIs
<1> HIDE DEF M
<1>6. \A j : c.start <= Sessions[j].start <=> Sessions[j].start >= c.start
  OBVIOUS
<1> QED BY <1>2, <1>4, <1>5, <1>6

-----------------------------------------------------------------------------
(* The events of a chain. *)

LEMMA FlattenIs ==
  ASSUME NEW seqs, Len(seqs) \in Nat
  PROVE  IF Len(seqs) = 0 THEN FlattenSeq(seqs) = seqs
         ELSE \E g : Flattened(seqs, Len(seqs), g) /\ FlattenSeq(seqs) = g[Len(seqs)]
<1>1. PICK n \in Nat : n = Len(seqs)
  OBVIOUS
<1> DEFINE flat == CHOOSE g : Flattened(seqs, n, g)
<1>2. Flattened(seqs, n, flat)
  BY FlattenedExists
<1>3. n # 0 => FlattenSeq(seqs) = flat[n]
  BY <1>1 DEF FlattenSeq, Flattened
<1>4. n = 0 => FlattenSeq(seqs) = seqs
  BY <1>1 DEF FlattenSeq
<1> QED BY <1>1, <1>2, <1>3, <1>4

\* A transaction of a session.
EventOf(e, i) ==
  \E n \in DOMAIN Sessions[i].events :
    e = [class |-> Sessions[i].events[n], session |-> i, transaction |-> n - 1]

AllEvents == UNION {{EventsOf(i)[n] : n \in DOMAIN EventsOf(i)} : i \in DOMAIN Sessions}

\* No transaction occurs twice.
Apart(q) == \A k, l \in DOMAIN q : k # l /\ q[k] = q[l] => q[k] = Barrier

LEMMA EventsOfAre ==
  ASSUME script \in Scripts, NEW i \in DOMAIN Sessions
  PROVE  /\ EventsOf(i) \in Seq(AllEvents) /\ Apart(EventsOf(i))
         /\ \A n \in DOMAIN EventsOf(i) : EventsOf(i)[n] = Barrier \/ EventOf(EventsOf(i)[n], i)
         /\ \A n \in DOMAIN Sessions[i].events :
              /\ n \in DOMAIN EventsOf(i)
              /\ EventsOf(i)[n] =
                   [class |-> Sessions[i].events[n], session |-> i, transaction |-> n - 1]
<1>1. /\ Len(Sessions[i].events) \in Nat
      /\ DOMAIN Sessions[i].events = 1 .. Len(Sessions[i].events)
  BY ScriptsAssumption DEF Sessions
<1>6. PICK w : w = Sessions[i].events
  OBVIOUS
<1>2. PICK len \in Nat : w = Sessions[i].events /\ len = Len(w) /\ DOMAIN w = 1 .. len
  BY <1>1, <1>6
<1>3. PICK q : q = EventsOf(i)
  OBVIOUS
<1>4. CASE w = <<>>
  <2>1. q = <<Barrier>>
    BY <1>2, <1>3, <1>4 DEF EventsOf
  <2>2. DOMAIN q = 1 .. 1 /\ q[1] = Barrier /\ q \in Seq({q[n] : n \in DOMAIN q})
    BY <2>1
  <2>3. {q[n] : n \in DOMAIN q} \subseteq AllEvents
    BY <1>3 DEF AllEvents
  <2>4. q \in Seq(AllEvents)
    BY <2>2, <2>3
  <2>5. \A n \in DOMAIN q : n = 1
    BY <2>2
  <2>6. DOMAIN w = {}
    BY <1>4
  <2> QED BY <1>2, <1>3, <2>2, <2>4, <2>5, <2>6 DEF Apart
<1>5. CASE w # <<>>
  <2>1. q = [n \in 1 .. len |-> [class |-> w[n], session |-> i, transaction |-> n - 1]]
    BY <1>2, <1>3, <1>5 DEF EventsOf
  <2>2. DOMAIN q = 1 .. len
        /\ \A n \in 1 .. len : q[n] = [class |-> w[n], session |-> i, transaction |-> n - 1]
    BY <2>1
  <2>3. \A n \in 1 .. len : q[n] \in AllEvents
    BY <1>3, <2>2 DEF AllEvents
  <2>4. q \in [1 .. len -> AllEvents]
    BY <2>1, <2>3
  <2>5. q \in Seq(AllEvents)
    BY <2>4
  <2>6. \A k, l \in 1 .. len : q[k] = q[l] => k = l
    <3> TAKE k, l \in 1 .. len
    <3>1. q[k].transaction = k - 1 /\ q[l].transaction = l - 1
      BY <2>2
    <3> QED BY <3>1
  <2>7. Apart(q)
    BY <2>2, <2>6 DEF Apart
  <2>8. \A n \in DOMAIN q : EventOf(q[n], i)
    BY <1>2, <2>2 DEF EventOf
  <2> QED BY <1>2, <1>3, <2>2, <2>5, <2>7, <2>8
<1> QED BY <1>4, <1>5

\* Events of the first k sessions, and no other.
OfFirst(q, members, k) ==
  \A p \in DOMAIN q : q[p] = Barrier \/ \E m \in 1 .. k : EventOf(q[p], members[m])

\* The sequence that is classified has each transaction of the sessions in one
\* place, and barriers.
LEMMA EventsInAre ==
  ASSUME script \in Scripts, NEW M \in SUBSET DOMAIN Sessions
  PROVE  /\ EventsAre(EventsIn(M)) /\ Apart(EventsIn(M))
         /\ \A p \in DOMAIN EventsIn(M) :
              EventsIn(M)[p] = Barrier \/ \E i \in M : EventOf(EventsIn(M)[p], i)
<1>1. PICK members : members = InOrder(M)
  OBVIOUS
<1>2. PICK len \in Nat : len = Len(members) /\ DOMAIN members = 1 .. len
  BY <1>1, InOrderIs DEF Enumerates
<1>3. /\ \A m \in 1 .. len : members[m] \in M
      /\ \A m, n \in 1 .. len : m < n => members[m] # members[n]
  <2>1. \A m, n \in 1 .. len : m < n => <<members[m], members[n]>> \in Pairs(Sessions, M)
    BY <1>1, <1>2, InOrderIs DEF Enumerates
  <2>2. \A x : <<x, x>> \notin Pairs(Sessions, M)
    BY ScriptIs, BeforeOrders DEF Pairs
  <2> QED BY <1>1, <1>2, <2>1, <2>2, InOrderIs DEF Enumerates
<1>4. PICK seqs : seqs = [m \in 1 .. len |-> EventsOf(members[m])]
  OBVIOUS
<1>5. DOMAIN seqs = 1 .. len /\ Len(seqs) = len /\ \A m \in 1 .. len : seqs[m] = EventsOf(members[m])
  BY <1>4
<1>6. EventsIn(M) = FlattenSeq(seqs)
  BY <1>1, <1>2, <1>4 DEF EventsIn
<1>7. CASE len = 0
  BY <1>5, <1>6, <1>7, FlattenIs DEF EventsAre, Apart
<1>8. CASE len # 0
  <2>1. PICK g : Flattened(seqs, len, g) /\ EventsIn(M) = g[len]
    BY <1>5, <1>6, <1>8, FlattenIs
  <2>2. \A k \in 1 .. len : g[k] = IF k = 1 THEN seqs[k] ELSE g[k - 1] \o seqs[k]
    BY <2>1, FlattenedIs
  <2> DEFINE Good == {k \in 0 .. len :
                        k = 0 \/ (g[k] \in Seq(AllEvents) /\ Apart(g[k]) /\ OfFirst(g[k], members, k))}
  <2>3. 0 \in Good
    OBVIOUS
  <2>4. ASSUME NEW k \in 0 .. (len - 1), k \in Good
        PROVE  k + 1 \in Good
    <3>1. PICK l \in 1 .. len : l = k + 1
      OBVIOUS
    <3>2. PICK i \in M : i = members[l]
      BY <1>3
    <3>3. PICK v : v = EventsOf(i)
      OBVIOUS
    <3>4. /\ v \in Seq(AllEvents) /\ Apart(v)
          /\ \A n \in DOMAIN v : v[n] = Barrier \/ EventOf(v[n], i)
      BY <3>3, EventsOfAre
    <3>5. seqs[l] = v
      BY <1>5, <3>2, <3>3
    <3>6. CASE k = 0
      BY <2>2, <3>1, <3>5, <3>6, <3>2, <3>4 DEF OfFirst
    <3>7. CASE k # 0
      <4>9. l # 1 /\ l - 1 = k
        BY <3>1, <3>7
      <4>10. g[l] = g[l - 1] \o seqs[l]
        BY <2>2, <4>9
      <4>1. g[l] = g[k] \o v
        BY <3>5, <4>9, <4>10
      <4>2. g[k] \in Seq(AllEvents) /\ Apart(g[k]) /\ OfFirst(g[k], members, k)
        BY <2>4, <3>7
      <4>3. PICK u : u = g[k]
        OBVIOUS
      <4>4. PICK w : w = u \o v
        OBVIOUS
      <4>5. /\ w \in Seq(AllEvents)
            /\ \A n \in DOMAIN w :
                 \/ n \in DOMAIN u /\ w[n] = u[n]
                 \/ n > Len(u) /\ n - Len(u) \in DOMAIN v /\ w[n] = v[n - Len(u)]
            /\ DOMAIN u = 1 .. Len(u) /\ Len(u) \in Nat /\ DOMAIN w \subseteq Nat
            /\ DOMAIN v \subseteq Nat
        BY <3>4, <4>2, <4>3, <4>4, Concatenated
      <4>6. OfFirst(w, members, l)
        <5> SUFFICES ASSUME NEW n \in DOMAIN w, w[n] # Barrier
                     PROVE  \E m \in 1 .. l : EventOf(w[n], members[m])
          BY DEF OfFirst
        <5>1. CASE n \in DOMAIN u /\ w[n] = u[n]
          <6>1. PICK m \in 1 .. k : EventOf(u[n], members[m])
            BY <4>2, <4>3, <5>1 DEF OfFirst
          <6>2. m \in 1 .. l
            BY <3>1
          <6> QED BY <5>1, <6>1, <6>2
        <5>2. CASE n - Len(u) \in DOMAIN v /\ w[n] = v[n - Len(u)]
          BY <3>2, <3>4, <5>2, <3>1
        <5> QED BY <4>5, <5>1, <5>2
      <4>7. ASSUME NEW a \in DOMAIN u, NEW b \in DOMAIN v, u[a] = v[b], u[a] # Barrier
            PROVE  FALSE
        <5>1. PICK m \in 1 .. k : EventOf(u[a], members[m])
          BY <4>2, <4>3, <4>7 DEF OfFirst
        <5>2. EventOf(u[a], i)
          BY <3>4, <4>7
        <5>3. u[a].session = i /\ u[a].session = members[m]
          BY <5>1, <5>2 DEF EventOf
        <5>4. m \in 1 .. len /\ m < l
          BY <3>1
        <5>5. members[m] # members[l]
          BY <1>3, <5>4
        <5> QED BY <3>2, <5>3, <5>5
      <4>8. Apart(w)
        <5> SUFFICES ASSUME NEW a \in DOMAIN w, NEW b \in DOMAIN w, a # b, w[a] = w[b], w[a] # Barrier
                     PROVE  FALSE
          BY ZenonT(20) DEF Apart
        <5> PICK c \in Nat : c = Len(u)
          BY <4>5
        <5>1. CASE a \in DOMAIN u /\ w[a] = u[a] /\ b \in DOMAIN u /\ w[b] = u[b]
          BY <4>2, <4>3, <5>1 DEF Apart
        <5>2. CASE a \in DOMAIN u /\ w[a] = u[a] /\ b - c \in DOMAIN v /\ w[b] = v[b - c]
          BY <4>7, <5>2
        <5>3. CASE b \in DOMAIN u /\ w[b] = u[b] /\ a - c \in DOMAIN v /\ w[a] = v[a - c]
          BY <4>7, <5>3
        <5>4. CASE a - c \in DOMAIN v /\ w[a] = v[a - c] /\ b - c \in DOMAIN v /\ w[b] = v[b - c]
          <6>1. a \in Nat /\ b \in Nat
            BY <4>5
          <6>2. a - c # b - c
            BY <6>1
          <6> QED BY <3>4, <5>4, <6>2 DEF Apart
        <5> QED BY <4>5, <5>1, <5>2, <5>3, <5>4
      <4>11. g[l] = w /\ l \in 0 .. len
        BY <4>1, <4>3, <4>4
      <4>12. g[l] \in Seq(AllEvents) /\ Apart(g[l]) /\ OfFirst(g[l], members, l)
        BY <4>5, <4>6, <4>8, <4>11
      <4> QED BY <3>1, <4>11, <4>12
    <3> QED BY <3>6, <3>7
  <2>5. \A k \in 0 .. len : k \in Good
    <3> HIDE DEF Good
    <3> QED BY <2>3, <2>4, Inductive
  <2>6. g[len] \in Seq(AllEvents) /\ Apart(g[len]) /\ OfFirst(g[len], members, len)
    BY <1>8, <2>5
  <2>7. Len(g[len]) \in Nat /\ DOMAIN g[len] = 1 .. Len(g[len])
    BY <2>6, LenProperties
  <2> QED BY <1>3, <2>1, <2>6, <2>7 DEF EventsAre, OfFirst
<1> QED BY <1>7, <1>8

-----------------------------------------------------------------------------
(* The bucket of a chain. *)

Rules == script.rules \cup {None}

LEMMA RulesAre ==
  ASSUME script \in Scripts, NEW r \in Rules, r # None
  PROVE  RuleIs(r)
<1>1. r \in script.rules \ {None}
  BY DEF Rules
<1> QED BY <1>1, ScriptsAssumption DEF RuleIs

\* known is the first complete occurrence in the sessions C of this key.
Exact(r, C, key, known) ==
  IF Applies(r, key) THEN Explains(r, EventsIn(C), known) ELSE known = <<>>

LEMMA ClassifyIs ==
  ASSUME script \in Scripts, NEW V \in SUBSET DOMAIN Sessions, NEW n, NEW c,
         IsSummary(Sessions, VisibleIn(Sessions, V, n), n, c), NEW r \in Rules
  PROVE  Exact(r, c.members, c.key, Classify(V, r, c))
<1>1. Scope(V, c) = c.members
  BY ScopeIs
<1>2. c.members \in SUBSET DOMAIN Sessions
  <2>1. VisibleIn(Sessions, V, n) \in SUBSET DOMAIN Sessions
    BY DEF VisibleIn
  <2>2. c.members \subseteq VisibleIn(Sessions, V, n)
    BY <2>1, ScriptIs, SummaryIs
  <2> QED BY <2>1, <2>2
<1>3. ASSUME Applies(r, c.key)
      PROVE  Explains(r, EventsIn(c.members), Find(r, EventsIn(c.members)))
  BY <1>3, RulesAre, <1>2, EventsInAre, FindsFirst DEF Applies
<1> QED BY <1>1, <1>3 DEF Exact, Classify

LEMMA SummaryKey ==
  ASSUME NEW s, SessionsAre(s), NEW M \in SUBSET DOMAIN s, NEW n, NEW c, IsSummary(s, M, n, c)
  PROVE  /\ \A j \in c.members : s[j].key = c.key /\ ChainIn(s, M, j) = c.members /\ j \in M
         /\ c.id \in c.members
<1>1. PICK i \in M : c = SummaryIn(s, ChainIn(s, M, i), n)
  BY DEF IsSummary
<1> DEFINE C == ChainIn(s, M, i)
<1>2. /\ C \in SUBSET DOMAIN s /\ C # {} /\ C \subseteq M
      /\ \A j \in C : ChainIn(s, M, j) = C /\ SameIn(s, j, i)
  BY ChainsPartition DEF ChainIn
<1>3. c.id = Min(C) /\ c.key = s[Min(C)].key /\ c.members = C
  BY <1>1 DEF SummaryIn
<1> HIDE DEF C
<1>4. Min(C) \in C
  BY <1>2, PlaceIs
<1>5. \A j \in C : s[j].key = s[Min(C)].key
  BY <1>2, <1>4 DEF SameIn
<1> QED BY <1>2, <1>3, <1>4, <1>5

\* A row has the bucket of its chain, whichever of the page it was found by.
LEMMA KnownOfIs ==
  ASSUME StoreIs, rule \in Rules, NEW i, NEW M,
         M = VisibleIn(Sessions, Retained, Snapshot(Retained)), i \in M,
         NEW anchors \in SUBSET DOMAIN Sessions,
         Applies(rule, Sessions[i].key) => i \in anchors,
         \A j \in anchors : Applies(rule, Sessions[j].key)
  PROVE  Exact(rule, ChainIn(Sessions, M, i), Sessions[i].key, KnownOf(Retained, i, anchors))
<1> DEFINE s == Sessions
           n == Snapshot(Retained)
           chains == {SummaryIn(s, ChainIn(s, M, j), n) : j \in anchors \cap M}
           containing == {c \in chains : ContainsSession(c, i)}
<1>1. /\ SessionsAre(s) /\ n \in Int /\ M \in SUBSET DOMAIN s /\ Retained \in SUBSET DOMAIN s
      /\ script \in Scripts /\ i <= n /\ i \in DOMAIN s
  BY RetainedIs, SnapshotIs DEF VisibleIn, StoreIs
<1>2. KnownOf(Retained, i, anchors)
        = IF containing = {} THEN <<>>
          ELSE Classify(Retained, rule, CHOOSE c \in containing : TRUE)
  <2>1. Visible(Retained, n) = M
    BY Links
  <2>2. chains = {Summary(ChainOf(M, j), n) : j \in anchors \cap M}
    BY Links
  <2> HIDE DEF chains
  <2> QED BY <2>1, <2>2 DEF KnownOf
<1>3. \A c \in chains : IsSummary(s, M, n, c) /\ \E j \in anchors : j \in c.members
  <2> TAKE c \in chains
  <2>1. PICK j \in anchors \cap M : c = SummaryIn(s, ChainIn(s, M, j), n)
    OBVIOUS
  <2>2. j \in ChainIn(s, M, j) /\ c.members = ChainIn(s, M, j)
    BY <2>1, ChainsPartition DEF SummaryIn
  <2> QED BY <2>1, <2>2 DEF IsSummary
<1> HIDE DEF chains
<1>4. ASSUME NEW c \in chains
      PROVE  ContainsSession(c, i) <=> i \in c.members
  <2>1. IsSummary(s, M, n, c)
    BY <1>3
  <2>2. c \in SummariesOf(s) /\ c.snapshot = n
    BY <1>1, <2>1, SummaryIs
  <2>3. i \in c.members <=> IF c.key = None THEN i = c.id
                            ELSE s[i].key = c.key /\ c.start <= s[i].start /\ s[i].start <= c.last
    BY <1>1, <2>1, RangeIs
  <2>4. c.start \in Int /\ c.last \in Int /\ s[i].start \in Int
    BY <1>1, <2>2 DEF SummariesOf, SessionsAre
  <2>5. s[i].start \in c.start .. c.last <=> c.start <= s[i].start /\ s[i].start <= c.last
    BY <2>4
  <2> QED BY <1>1, <2>2, <2>3, <2>5 DEF ContainsSession
<1>5. ASSUME NEW c \in containing
      PROVE  /\ IsSummary(s, M, n, c) /\ c.members = ChainIn(s, M, i) /\ c.key = s[i].key
             /\ Applies(rule, s[i].key)
  <2>1. c \in chains /\ i \in c.members
    BY <1>4
  <2>2. IsSummary(s, M, n, c)
    BY <1>3, <2>1
  <2>3. PICK j \in anchors : j \in c.members
    BY <1>3, <2>1
  <2>4. s[i].key = c.key /\ ChainIn(s, M, i) = c.members /\ s[j].key = c.key
    <3>1. \A k \in c.members : s[k].key = c.key /\ ChainIn(s, M, k) = c.members
      <4>1. SessionsAre(s) /\ M \in SUBSET DOMAIN s /\ IsSummary(s, M, n, c)
        BY <1>1, <2>2
      <4> HIDE DEF s, n, containing
      <4>2. /\ \A k \in c.members : s[k].key = c.key /\ ChainIn(s, M, k) = c.members /\ k \in M
            /\ c.id \in c.members
        BY ONLY <4>1, SummaryKey
      <4> QED BY <4>2
    <3> QED BY <2>1, <2>3, <3>1
  <2> QED BY <2>2, <2>3, <2>4
<1>6. ASSUME Applies(rule, s[i].key)
      PROVE  containing # {}
  <2> DEFINE c == SummaryIn(s, ChainIn(s, M, i), n)
  <2>1. c \in chains
    BY <1>6 DEF chains
  <2>2. i \in ChainIn(s, M, i)
    BY ChainsPartition
  <2>3. i \in c.members
    BY <2>2 DEF SummaryIn
  <2> HIDE DEF c
  <2>4. ContainsSession(c, i)
    BY <1>4, <2>1, <2>3
  <2> QED BY <2>1, <2>4
<1> HIDE DEF containing
<1>7. CASE Applies(rule, s[i].key)
  <2>1. PICK c \in containing : c = CHOOSE d \in containing : TRUE
    BY <1>6, <1>7
  <2>2. /\ KnownOf(Retained, i, anchors) = Classify(Retained, rule, c)
    BY <1>2, <1>6, <1>7, <2>1
  <2>3. IsSummary(s, M, n, c) /\ c.members = ChainIn(s, M, i) /\ c.key = s[i].key
    BY <1>5
  <2>4. Exact(rule, c.members, c.key, Classify(Retained, rule, c))
    BY <1>1, <2>3, ClassifyIs
  <2> QED BY <2>2, <2>3, <2>4
<1>8. CASE ~Applies(rule, s[i].key)
  BY <1>5, <1>8, <1>2 DEF Exact
<1> QED BY <1>7, <1>8

-----------------------------------------------------------------------------
(* What was listed can be explained. *)

LEMMA OccurrenceRises ==
  ASSUME NEW r, RuleIs(r), NEW events, EventsAre(events), NEW f \in Occurrences(r, events)
  PROVE  \A k, l \in 1 .. Len(r.steps) : k # l => f[k] # f[l]
<1>1. PICK last \in Nat : last = Len(r.steps) /\ DOMAIN r.steps = 1 .. last
  BY DEF RuleIs
<1>2. /\ f \in [1 .. last -> DOMAIN events]
      /\ \A k \in 1 .. last : k > 1 => f[k] - f[k - 1] \in 1 .. (r.gap + 1)
  BY <1>1 DEF Occurrences
<1>3. \A k \in 1 .. last : f[k] \in Nat
  BY <1>2 DEF EventsAre
<1> DEFINE Good == {n \in 0 .. last : \A k, l \in 1 .. n : k < l => f[k] < f[l]}
<1>4. 0 \in Good
  OBVIOUS
<1>5. ASSUME NEW n \in 0 .. (last - 1), n \in Good
      PROVE  n + 1 \in Good
  <2>1. PICK m \in 1 .. last : m = n + 1
    OBVIOUS
  <2>2. ASSUME NEW k \in 1 .. m, NEW l \in 1 .. m, k < l
        PROVE  f[k] < f[l]
    <3>1. CASE l # m
      BY <2>1, <2>2, <3>1, <1>5
    <3>2. CASE l = m
      <4>1. m > 1 /\ m - 1 = n /\ n \in 1 .. last /\ k \in 1 .. n /\ n \in 1 .. n /\ k \in 1 .. last
        BY <2>1, <2>2, <3>2
      <4>2. f[m] - f[n] \in 1 .. (r.gap + 1)
        BY <1>2, <4>1
      <4>3. f[m] \in Nat /\ f[n] \in Nat /\ f[k] \in Nat
        BY <1>3, <4>1
      <4>4. f[n] < f[m]
        BY <4>2, <4>3 DEF RuleIs
      <4>5. k = n \/ f[k] < f[n]
        BY <4>1, <1>5
      <4> QED BY <3>2, <4>3, <4>4, <4>5
    <3> QED BY <3>1, <3>2
  <2>3. m \in Good
    BY <2>1, <2>2
  <2> QED BY <2>1, <2>3
<1>6. \A n \in 0 .. last : n \in Good
  <2> HIDE DEF Good
  <2> QED BY <1>4, <1>5, Inductive
<1>7. \A k, l \in 1 .. last : k < l => f[k] < f[l]
  BY <1>6
<1>8. \A k, l \in 1 .. last : k # l => k < l \/ l < k
  OBVIOUS
<1> QED BY <1>1, <1>3, <1>7, <1>8

\* The steps a match has in one session are told apart, and met, by the
\* transactions the client names: it is marked exactly if the rule is what it
\* was and the session is there.
LEMMA ExplanationIs ==
  ASSUME script \in Scripts, NEW r \in Rules, NEW C \in SUBSET DOMAIN Sessions, NEW known,
         NEW i \in C, Exact(r, C, Sessions[i].key, known), Selection(known, i) # {},
         NEW current
  PROVE  Explanation(current, r, known, i) = "marked" <=> current = r /\ i \in Retained
<1> DEFINE steps == Selection(known, i)
           chosen == {known[k].transaction : k \in steps}
<1>1. known # <<>>
  <2> SUFFICES ASSUME known = <<>> PROVE FALSE
    OBVIOUS
  <2>1. DOMAIN known = {}
    OBVIOUS
  <2> QED BY <2>1 DEF Selection
<1>2. Applies(r, Sessions[i].key) /\ Explains(r, EventsIn(C), known)
  BY <1>1 DEF Exact
<1>3. PICK events : events = EventsIn(C)
  OBVIOUS
<1>4. RuleIs(r) /\ EventsAre(events) /\ Apart(events)
      /\ \A p \in DOMAIN events : events[p] = Barrier \/ \E j \in C : EventOf(events[p], j)
  BY <1>2, <1>3, RulesAre, EventsInAre DEF Applies
<1>5. PICK last \in Nat : last = Len(r.steps) /\ DOMAIN r.steps = 1 .. last
  BY <1>4 DEF RuleIs
<1>6. PICK f \in Occurrences(r, events) : known = [k \in 1 .. last |-> events[f[k]]]
  BY <1>1, <1>2, <1>3, <1>5 DEF Explains
<1>7. /\ DOMAIN known = 1 .. last
      /\ \A k \in 1 .. last : /\ f[k] \in DOMAIN events /\ known[k] = events[f[k]]
                              /\ StepMatches(r, k, events[f[k]])
  BY <1>5, <1>6 DEF Occurrences
<1>8. \A k, l \in 1 .. last : k # l => f[k] # f[l]
  BY <1>4, <1>5, OccurrenceRises
<1>9. \A k \in steps : k \in 1 .. last /\ known[k].session = i
  BY <1>7 DEF Selection
<1>10. ASSUME NEW k \in steps
       PROVE  /\ EventOf(known[k], i) /\ EventsOf(i)[known[k].transaction + 1] = known[k]
              /\ known[k] # Barrier
  <2>1. i \in DOMAIN Sessions /\ i \in 1 .. Len(Sessions)
    BY ScriptIs DEF SessionsAre
  <2>2. known[k] # Barrier
    BY <1>9, <2>1 DEF Barrier
  <2>3. PICK j \in C : EventOf(known[k], j)
    BY <1>4, <1>7, <1>9, <2>2
  <2>4. j = i
    BY <1>9, <2>3 DEF EventOf
  <2>5. PICK n \in DOMAIN Sessions[i].events :
          known[k] = [class |-> Sessions[i].events[n], session |-> i, transaction |-> n - 1]
    BY <2>3, <2>4 DEF EventOf
  <2>6. n \in Nat
    BY <2>1, ScriptsAssumption DEF Sessions
  <2>7. known[k].transaction + 1 = n
    BY <2>5, <2>6
  <2>8. EventsOf(i)[n] = known[k]
    BY <2>1, <2>5, EventsOfAre
  <2> QED BY <2>2, <2>3, <2>4, <2>7, <2>8
<1>11. \A k \in steps : k \in DOMAIN r.steps
                        /\ StepMatches(r, k, EventsOf(i)[known[k].transaction + 1])
  BY <1>5, <1>7, <1>9, <1>10
<1>12. \A k, l \in steps : known[k].transaction = known[l].transaction => k = l
  <2> SUFFICES ASSUME NEW k \in steps, NEW l \in steps, k # l,
                      known[k].transaction = known[l].transaction
               PROVE  FALSE
    OBVIOUS
  <2>1. known[k] = known[l] /\ known[k] # Barrier
    BY <1>10
  <2>2. f[k] # f[l] /\ f[k] \in DOMAIN events /\ f[l] \in DOMAIN events
    BY <1>7, <1>8, <1>9
  <2> QED BY <1>4, <1>7, <1>9, <2>1, <2>2 DEF Apart
<1>13. Cardinality(chosen) = Cardinality(steps)
  <2>1. IsFiniteSet(steps)
    <3>1. IsFiniteSet(1 .. last)
      BY FS_Interval
    <3>2. steps \in SUBSET (1 .. last)
      BY <1>9
    <3> QED BY <3>1, <3>2, FS_Subset
  <2> DEFINE g == [k \in steps |-> known[k].transaction]
  <2>2. g \in Bijection(steps, chosen)
    <3>1. g \in [steps -> chosen] /\ \A k \in steps : g[k] = known[k].transaction
      OBVIOUS
    <3>2. \A y \in chosen : \E k \in steps : g[k] = y
      BY <3>1
    <3>3. \A k, l \in steps : g[k] = g[l] => k = l
      BY <3>1, <1>12
    <3> HIDE DEF g, chosen, steps
    <3> QED BY <3>1, <3>2, <3>3 DEF Bijection, Injection, Surjection, IsInjective
  <2> HIDE DEF g, chosen, steps
  <2> QED BY <2>1, <2>2, FS_Bijection DEF ExistsBijection
<1> HIDE DEF steps, chosen
<1>14. Explanation(current, r, known, i) =
         IF \/ i \notin Retained \/ current # r \/ ~Applies(current, Sessions[i].key)
            \/ \E k \in steps : \/ k \notin DOMAIN current.steps
                                \/ ~StepMatches(current, k, EventsOf(i)[known[k].transaction + 1])
         THEN "stale" ELSE "marked"
  BY <1>13 DEF Explanation, steps, chosen
<1> QED BY <1>2, <1>11, <1>14

-----------------------------------------------------------------------------
(* The buckets of the last page, and the request they come from, with the   *)
(* sessions as a parameter.                                                 *)

EventsFor(s, M) ==
  LET members == Sorted(M, LAMBDA i, j : BeforeIn(s, i, j))
      eventsOf(i) ==
        IF s[i].events = <<>> THEN <<Barrier>>
        ELSE [n \in DOMAIN s[i].events |->
                [class |-> s[i].events[n], session |-> i, transaction |-> n - 1]]
  IN  FlattenSeq([n \in DOMAIN members |-> eventsOf(members[n])])

ExactIn(s, r, C, key, known) ==
  IF Applies(r, key) THEN Explains(r, EventsFor(s, C), known) ELSE known = <<>>

LEMMA ExactLinks ==
  /\ \A M : EventsIn(M) = EventsFor(Sessions, M)
  /\ \A r, C, key, known : Exact(r, C, key, known) <=> ExactIn(Sessions, r, C, key, known)
<1>1. \A M : EventsIn(M) = EventsFor(Sessions, M)
  BY DEF EventsIn, EventsFor, InOrder, Sorted, EventsOf, Earlier, BeforeIn
<1> QED BY <1>1 DEF Exact, ExactIn

IsCursor(c) ==
  /\ c = [at |-> "list", snapshot |-> c.snapshot, before |-> c.before, search |-> c.search]
  /\ c.snapshot \in Int /\ c.before \in PlaceOrNone

ChainsFound(s, V, n, found) ==
  /\ found \in Seq(SummariesOf(s))
  /\ \A m \in DOMAIN found : IsSummary(s, VisibleIn(s, V, n), n, found[m])

\* A request for a page of chains has found chains of what it sees.
Sought(s, known, q) ==
  /\ q = [at |-> q.at, seen |-> q.seen, rule |-> q.rule, sent |-> q.sent, cursor |-> q.cursor,
          found |-> q.found, scanned |-> q.scanned, chain |-> q.chain, rest |-> q.rest,
          last |-> q.last, more |-> q.more]
  /\ q.at \in {"lookup", "scan"} /\ q.seen \in SUBSET DOMAIN s /\ q.rule \in known
  /\ IsCursor(q.cursor) /\ q.sent.snapshot = q.cursor.snapshot
  /\ ChainsFound(s, q.seen, q.cursor.snapshot, q.found)
  /\ q.at = "scan" =>
       IsSummary(s, VisibleIn(s, q.seen, q.cursor.snapshot), q.cursor.snapshot, q.chain)

Requests ==
  Asks("chains") =>
    /\ cursor \notin {First, Done} => IsCursor(cursor)
    /\ req # Idle => Sought(Sessions, Rules, req)

ChainItem(s, bucket, p, item) ==
  /\ IsSummary(s, VisibleIn(s, p.seen, p.from.snapshot), p.from.snapshot, item.chain)
  /\ IF bucket = "any" THEN item.known = <<>>
     ELSE ExactIn(s, p.rule, item.chain.members, item.chain.key, item.known)

RowItem(s, p, item) ==
  LET M == VisibleIn(s, p.seen, Snapshot(p.seen))
  IN  item.session \in M =>
        ExactIn(s, p.rule, ChainIn(s, M, item.session), s[item.session].key, item.known)

PageExact(s, known, bucket, p) ==
  /\ p.at = "chains" =>
       /\ p.rule \in known /\ p.seen \in SUBSET DOMAIN s
       /\ \A n \in DOMAIN p.items : ChainItem(s, bucket, p, p.items[n])
  /\ p.at = "sessions" =>
       /\ p.seen \in SUBSET DOMAIN s
       /\ bucket # "any" => \A n \in DOMAIN p.items : RowItem(s, p, p.items[n])

Buckets ==
  /\ rule \in Rules
  /\ Requests
  /\ PageExact(Sessions, Rules, Bucket, page)
  /\ ExplainedIfCurrent

-----------------------------------------------------------------------------
(* Every step keeps them. *)

LEMMA ScriptKept ==
  ASSUME script' = script
  PROVE  /\ Sessions' = Sessions /\ Rules' = Rules /\ Bucket' = Bucket
         /\ (Asks("chains") <=> Asks("chains")') /\ (Asks("sessions") <=> Asks("sessions")')
         /\ (Asks("members") <=> Asks("members")')
BY DEF Sessions, Rules, Bucket, Asks

\* A step that makes no page.
LEMMA NoPageMade ==
  ASSUME Buckets, script' = script, rule' \in Rules, UNCHANGED <<page, explained>>,
         Requests'
  PROVE  Buckets'
<1>1. Sessions' = Sessions /\ Rules' = Rules /\ Bucket' = Bucket
  BY ScriptKept
<1>2. PageExact(Sessions, Rules, Bucket, page)'
  BY <1>1 DEF Buckets
<1>3. ExplainedIfCurrent'
  BY DEF Buckets, ExplainedIfCurrent
<1> QED BY <1>1, <1>2, <1>3 DEF Buckets

\* A step that leaves the request alone.
LEMMA NothingMoves ==
  ASSUME Buckets, script' = script, rule' \in Rules, UNCHANGED <<cursor, req, page, explained>>
  PROVE  Buckets'
<1>1. Sessions' = Sessions /\ Rules' = Rules /\ (Asks("chains") <=> Asks("chains")')
  BY ScriptKept
<1>2. Requests'
  BY <1>1 DEF Buckets, Requests
<1> QED BY <1>2, NoPageMade

LEMMA AnswerExact ==
  ASSUME StoreIs, Buckets, Asks("chains"), NEW V \in SUBSET DOMAIN Sessions, NEW r \in Rules,
         NEW sent, NEW chains, ChainsFound(Sessions, V, sent.snapshot, chains),
         NEW next, next = Done \/ IsCursor(next),
         Answer(V, r, sent, chains, next)
  PROVE  Buckets'
<1> DEFINE known(t) == IF Bucket = "any" THEN <<>> ELSE Classify(V, r, t)
           items == [n \in DOMAIN chains |-> [chain |-> chains[n], known |-> known(chains[n])]]
<1>1. /\ page' = [at |-> "chains", seen |-> V, rule |-> r, from |-> sent, next |-> next,
                  items |-> items]
      /\ cursor' = next /\ req' = Idle /\ script' = script /\ rule' = rule
      /\ explained' = explained
  BY Zenon DEF Answer, store, rules
<1>2. DOMAIN items = DOMAIN chains
      /\ \A n \in DOMAIN chains : items[n].chain = chains[n] /\ items[n].known = known(chains[n])
  OBVIOUS
<1> HIDE DEF items
<1>3. Sessions' = Sessions /\ Rules' = Rules /\ Bucket' = Bucket
      /\ (Asks("chains") <=> Asks("chains")')
  BY <1>1, ScriptKept
<1>4. script \in Scripts
  BY DEF StoreIs
<1>5. /\ page'.at = "chains" /\ page'.rule = r /\ page'.seen = V /\ page'.from = sent
      /\ page'.items = items
  BY <1>1
<1>6. ASSUME NEW n \in DOMAIN items
      PROVE  ChainItem(Sessions, Bucket, page', items[n])
  BY <1>2, <1>4, ClassifyIs, ExactLinks, <1>5 DEF ChainsFound, ChainItem
<1>7. PageExact(Sessions, Rules, Bucket, page')
  BY <1>5, <1>6 DEF PageExact
<1>8. Requests'
  BY <1>1, <1>3 DEF Requests
<1>9. ExplainedIfCurrent'
  BY <1>1 DEF Buckets, ExplainedIfCurrent
<1>10. rule \in Rules
  BY DEF Buckets
<1> QED BY <1>1, <1>3, <1>7, <1>8, <1>9, <1>10, Zenon DEF Buckets

\* A cursor moved on.
LEMMA CursorMoved ==
  ASSUME NEW c, IsCursor(c), NEW p \in PlaceOrNone, NEW t
  PROVE  /\ IsCursor([c EXCEPT !.before = p, !.search = t])
         /\ IsCursor([c EXCEPT !.search = t])
         /\ [c EXCEPT !.before = p, !.search = t].snapshot = c.snapshot
         /\ [c EXCEPT !.search = t].snapshot = c.snapshot
<1>1. PICK n \in Int, b \in PlaceOrNone : n = c.snapshot /\ b = c.before
  BY DEF IsCursor
<1>2. PICK u : u = c.search
  OBVIOUS
<1>3. c = [at |-> "list", snapshot |-> n, before |-> b, search |-> u]
  BY <1>1, <1>2 DEF IsCursor
<1>4. PICK d : d = [c EXCEPT !.before = p, !.search = t]
  OBVIOUS
<1>5. PICK e : e = [c EXCEPT !.search = t]
  OBVIOUS
<1>6. d = [at |-> "list", snapshot |-> n, before |-> p, search |-> t]
  BY <1>3, <1>4
<1>7. e = [at |-> "list", snapshot |-> n, before |-> b, search |-> t]
  BY <1>3, <1>5
<1>8. IsCursor(d) /\ d.snapshot = n
  BY <1>6 DEF IsCursor
<1>9. IsCursor(e) /\ e.snapshot = n
  BY <1>7 DEF IsCursor
<1> QED BY <1>1, <1>4, <1>5, <1>8, <1>9

\* The cursor of a request.
LEMMA SentIsCursor ==
  ASSUME StoreIs, Buckets, Asks("chains"), cursor # Done
  PROVE  IsCursor(SentCursor)
<1>1. CASE cursor = First
  <2>1. PICK n \in Int : n = Snapshot(Retained)
    BY SnapshotIs
  <2>2. SentCursor = [at |-> "list", snapshot |-> n, before |-> None, search |-> None]
    BY <1>1, <2>1 DEF SentCursor
  <2> QED BY <2>2 DEF IsCursor, PlaceOrNone
<1>2. CASE cursor # First
  BY <1>2 DEF SentCursor, Buckets, Requests
<1> QED BY <1>1, <1>2

LEMMA NothingKnownExact ==
  ASSUME StoreIs, Buckets, NothingKnown
  PROVE  Buckets'
<1>1. Asks("chains") /\ Answer(Retained, rule, SentCursor, <<>>, Done)
  BY DEF NothingKnown
<1>2. ChainsFound(Sessions, Retained, SentCursor.snapshot, <<>>)
  BY DEF ChainsFound
<1>3. rule \in Rules /\ Retained \in SUBSET DOMAIN Sessions
  BY RetainedIs DEF Buckets
<1> QED BY <1>1, <1>2, <1>3, AnswerExact

\* The chains of a page.
LEMMA FoundAre ==
  ASSUME script \in Scripts, NEW V \in SUBSET DOMAIN Sessions, NEW c, IsCursor(c),
         NEW found, found = Summaries(V, c.snapshot, c.before)
  PROVE  ChainsFound(Sessions, V, c.snapshot, found)
<1>1. c.snapshot \in Int /\ c.before \in PlaceOrNone
  BY DEF IsCursor
<1>2. /\ found \in Seq(SummariesOf(Sessions))
      /\ \A m \in DOMAIN found :
           IsSummary(Sessions, VisibleIn(Sessions, V, c.snapshot), c.snapshot, found[m])
  BY <1>1, SummariesSorted
<1> QED BY <1>2 DEF ChainsFound

\* A chain that is found has a place in the list.
LEMMA HasPlace ==
  ASSUME script \in Scripts, NEW V \in SUBSET DOMAIN Sessions, NEW n, NEW c,
         IsSummary(Sessions, VisibleIn(Sessions, V, n), n, c)
  PROVE  Position(c) \in PlaceOrNone
<1>1. SessionsAre(Sessions) /\ VisibleIn(Sessions, V, n) \in SUBSET DOMAIN Sessions
  BY ScriptIs DEF VisibleIn
<1>2. Position(c) \in Place
  BY <1>1, SummaryIs
<1> QED BY <1>2 DEF PlaceOrNone

LEMMA ListChainsExact ==
  ASSUME StoreIs, Buckets, ListChains
  PROVE  Buckets'
<1> DEFINE sent == SentCursor
           found == Summaries(Retained, sent.snapshot, sent.before)
           chains == Prefix(found, Limit)
           further == [sent EXCEPT !.before = Position(Last(chains)), !.search = None]
           next == IF Len(found) > Limit THEN further ELSE Done
<1>1. Asks("chains") /\ cursor # Done /\ Answer(Retained, rule, sent, chains, next)
  BY DEF ListChains
<1>2. Retained \in SUBSET DOMAIN Sessions /\ script \in Scripts /\ rule \in Rules /\ IsCursor(sent)
  BY <1>1, RetainedIs, SentIsCursor DEF StoreIs, Buckets
<1> HIDE DEF sent
<1>3. ChainsFound(Sessions, Retained, sent.snapshot, found)
  BY <1>2, FoundAre
<1> HIDE DEF found
<1>4. /\ chains \in Seq(SummariesOf(Sessions)) /\ Len(chains) \in Nat
      /\ DOMAIN chains = 1 .. Len(chains)
      /\ Limit <= Len(found) => Len(chains) = Limit
      /\ \A k \in DOMAIN chains : k \in DOMAIN found /\ chains[k] = found[k]
  BY <1>3, SizesAssumption, PrefixIs DEF ChainsFound
<1>5. ChainsFound(Sessions, Retained, sent.snapshot, chains)
  BY <1>3, <1>4 DEF ChainsFound
<1> HIDE DEF chains
<1>6. ASSUME Len(found) > Limit
      PROVE  IsCursor(further)
  <2>1. Len(found) \in Nat /\ Limit \in Nat \ {0}
    BY <1>3, SizesAssumption, LenProperties DEF ChainsFound
  <2>2. Len(chains) \in DOMAIN chains
    BY <1>4, <1>6, <2>1
  <2>3. PICK m \in DOMAIN chains : Last(chains) = chains[m]
    BY <2>2 DEF Last
  <2>4. PICK p \in PlaceOrNone : p = Position(Last(chains))
    BY <1>2, <1>5, <2>3, HasPlace DEF ChainsFound
  <2>5. IsCursor([sent EXCEPT !.before = p, !.search = None])
    BY <1>2, CursorMoved
  <2> QED BY <2>4, <2>5
<1>7. next = Done \/ IsCursor(next)
  BY <1>6
<1> HIDE DEF next
<1>8. Answer(Retained, rule, sent, chains, next)
  BY <1>1 DEF sent, found, chains, next
<1> QED BY <1>1, <1>2, <1>5, <1>7, <1>8, AnswerExact

\* A search belongs to a listing of chains.
LEMMA SearchRuns ==
  ASSUME IInv, Buckets, req.at = "lookup" \/ req.at = "scan"
  PROVE  /\ Asks("chains") /\ Sought(Sessions, Rules, req) /\ script \in Scripts /\ StoreIs
         /\ SessionsAre(Sessions)
<1>1. StoreIs /\ script \in Scripts /\ SessionsAre(Sessions) /\ (Orderly => Listings)
  BY RetainedIs DEF IInv, StoreIs
<1>2. req # Idle
  BY DEF Idle
<1>3. Asks("chains")
  <2> SUFFICES ASSUME ~Asks("chains")
               PROVE  FALSE
    OBVIOUS
  <2>1. Listings
    BY <1>1 DEF Orderly
  <2>2. ~Asks("members")
    BY <1>2, <2>1 DEF Listings, MembersIs
  <2>3. ~Asks("sessions")
    BY <1>2, <2>1 DEF Listings, SessionsIs, RowsReq, BucketReq
  <2> QED BY <1>1, <2>2, <2>3, ScriptIs DEF Asks
<1>4. Sought(Sessions, Rules, req)
  BY <1>2, <1>3 DEF Buckets, Requests
<1> QED BY <1>1, <1>3, <1>4

\* The search goes on.
LEMMA SearchGoesOn ==
  ASSUME Buckets, script' = script, rule' = rule, UNCHANGED <<cursor, page, explained>>,
         Asks("chains"), req' = Idle \/ Sought(Sessions, Rules, req')
  PROVE  Buckets'
<1>1. Sessions' = Sessions /\ Rules' = Rules /\ (Asks("chains") <=> Asks("chains")')
  BY ScriptKept
<1>2. Requests'
  BY <1>1 DEF Buckets, Requests
<1>3. rule' \in Rules
  BY DEF Buckets
<1> QED BY <1>2, <1>3, NoPageMade

LEMMA BeginSearchExact ==
  ASSUME IInv, Buckets, BeginSearch
  PROVE  Buckets'
<1> DEFINE sent == SentCursor
<1>1. /\ Asks("chains") /\ cursor # Done
      /\ req' = [at |-> "lookup", seen |-> Retained, rule |-> rule, sent |-> sent,
                 cursor |-> sent, found |-> <<>>, scanned |-> 0, chain |-> None,
                 rest |-> <<>>, last |-> None, more |-> FALSE]
      /\ script' = script /\ rule' = rule /\ UNCHANGED <<cursor, page, explained>>
  BY DEF BeginSearch, store, rules, history
<1>2. Retained \in SUBSET DOMAIN Sessions /\ rule \in Rules /\ IsCursor(sent)
  BY <1>1, RetainedIs, SentIsCursor DEF IInv, Buckets
<1> HIDE DEF sent
<1>3. ChainsFound(Sessions, Retained, sent.snapshot, <<>>)
  BY DEF ChainsFound
<1>4. PICK q : q = req'
  OBVIOUS
<1>5. /\ q.at = "lookup" /\ q.seen = Retained /\ q.rule = rule /\ q.sent = sent /\ q.cursor = sent
      /\ q.found = <<>>
      /\ q = [at |-> q.at, seen |-> q.seen, rule |-> q.rule, sent |-> q.sent, cursor |-> q.cursor,
              found |-> q.found, scanned |-> q.scanned, chain |-> q.chain, rest |-> q.rest,
              last |-> q.last, more |-> q.more]
  BY <1>1, <1>4
<1>6. Sought(Sessions, Rules, q)
  BY <1>2, <1>3, <1>5 DEF Sought
<1> QED BY <1>1, <1>4, <1>6, SearchGoesOn

LEMMA SearchFailsExact ==
  ASSUME Buckets, SearchFails
  PROVE  Buckets'
<1>1. /\ req' = Idle /\ script' = script /\ rule' = rule /\ UNCHANGED <<cursor, page, explained>>
  BY DEF SearchFails, store, rules, history
<1>2. Sessions' = Sessions /\ Rules' = Rules /\ (Asks("chains") <=> Asks("chains")')
  BY <1>1, ScriptKept
<1>3. Requests'
  BY <1>1, <1>2 DEF Buckets, Requests
<1>4. rule' \in Rules
  BY <1>1 DEF Buckets
<1> QED BY <1>1, <1>3, <1>4, NoPageMade

LEMMA LookupExact ==
  ASSUME IInv, Buckets, Lookup
  PROVE  Buckets'
<1> DEFINE pending == req.cursor.search
           n == req.cursor.snapshot
           M == VisibleIn(Sessions, req.seen, n)
           found == Summaries(req.seen, n, req.cursor.before)
           chain == IF pending # None THEN SummaryOf(req.seen, pending.chain, n)
                    ELSE IF found = <<>> THEN None ELSE Head(found)
           after == IF pending # None THEN pending.after ELSE None
           C == {i \in MembersAfter(req.seen, chain.id, n, after) : Sessions[i].meets}
           rest == Prefix(InOrder(C), Budget)
           more == Len(InOrder(C)) > Budget
<1>1. /\ req.at = "lookup" /\ chain # None
      /\ req' = [req EXCEPT !.at = "scan", !.chain = chain, !.last = after, !.rest = rest,
                            !.more = more]
      /\ script' = script /\ rule' = rule /\ UNCHANGED <<cursor, page, explained>>
  BY DEF Lookup, store, rules, history
<1>2. Asks("chains") /\ Sought(Sessions, Rules, req) /\ script \in Scripts
  BY <1>1, SearchRuns
<1> HIDE DEF C, rest, more, found, after
<1>3. IsSummary(Sessions, M, n, chain)
  <2>1. CASE pending # None
    <3>1. chain = SummaryOf(req.seen, pending.chain, n)
      BY <2>1
    <3>2. chain = IF pending.chain \in M
                  THEN SummaryIn(Sessions, ChainIn(Sessions, M, pending.chain), n) ELSE None
      BY <3>1, Links DEF SummaryOf
    <3> HIDE DEF chain, M
    <3> QED BY <1>1, <3>2 DEF IsSummary
  <2>2. CASE pending = None
    <3>1. found # <<>> /\ chain = Head(found)
      BY <1>1, <2>2
    <3>2. ChainsFound(Sessions, req.seen, n, found)
      BY <1>2, FoundAre DEF Sought, found
    <3>3. chain = found[1] /\ 1 \in DOMAIN found
      BY <3>2, <3>1, TailOf, LenProperties DEF ChainsFound
    <3> QED BY <3>2, <3>3 DEF ChainsFound
  <2> QED BY <2>1, <2>2
<1> HIDE DEF chain, M
<1>4. PICK q : q = req'
  OBVIOUS
<1>5. /\ q.at = "scan" /\ q.seen = req.seen /\ q.rule = req.rule /\ q.sent = req.sent
      /\ q.cursor = req.cursor /\ q.found = req.found /\ q.chain = chain
      /\ q = [at |-> q.at, seen |-> q.seen, rule |-> q.rule, sent |-> q.sent, cursor |-> q.cursor,
              found |-> q.found, scanned |-> q.scanned, chain |-> q.chain, rest |-> q.rest,
              last |-> q.last, more |-> q.more]
  BY <1>1, <1>2, <1>4 DEF Sought
<1>6. Sought(Sessions, Rules, q)
  BY <1>2, <1>3, <1>5 DEF Sought, M
<1> QED BY <1>1, <1>2, <1>4, <1>6, SearchGoesOn

LEMMA NothingFoundExact ==
  ASSUME IInv, Buckets, NothingFound
  PROVE  Buckets'
<1>1. req.at = "lookup"
  BY DEF NothingFound
<1>2. Asks("chains") /\ Sought(Sessions, Rules, req) /\ StoreIs
  BY <1>1, SearchRuns
<1>3. CASE req.cursor.search # None
  <2>1. /\ req' = [req EXCEPT !.cursor.search = None]
        /\ script' = script /\ rule' = rule /\ UNCHANGED <<cursor, page, explained>>
    BY <1>3 DEF NothingFound, store, rules, history
  <2>2. PICK c : c = [req.cursor EXCEPT !.search = None]
    OBVIOUS
  <2>3. IsCursor(c) /\ c.snapshot = req.cursor.snapshot
    BY <1>2, <2>2, CursorMoved DEF Sought, PlaceOrNone
  <2>4. PICK q : q = req'
    OBVIOUS
  <2>5. q = [req EXCEPT !.cursor = c]
    BY <2>1, <2>2, <2>4
  <2>6. /\ q.at = req.at /\ q.seen = req.seen /\ q.rule = req.rule /\ q.sent = req.sent
        /\ q.cursor = c /\ q.found = req.found
        /\ q = [at |-> q.at, seen |-> q.seen, rule |-> q.rule, sent |-> q.sent,
                cursor |-> q.cursor, found |-> q.found, scanned |-> q.scanned,
                chain |-> q.chain, rest |-> q.rest, last |-> q.last, more |-> q.more]
    BY <1>2, <2>5 DEF Sought
  <2>7. Sought(Sessions, Rules, q)
    BY <1>1, <1>2, <2>3, <2>6 DEF Sought
  <2> QED BY <1>2, <2>1, <2>4, <2>7, SearchGoesOn
<1>4. CASE req.cursor.search = None
  BY <1>4, <1>2, AnswerExact DEF NothingFound, Sought
<1> QED BY <1>3, <1>4

\* The page ends where the search got to.
LEMMA SearchAnswered ==
  ASSUME IInv, Buckets, req.at = "lookup" \/ req.at = "scan", NEW next, IsCursor(next),
         NEW found, ChainsFound(Sessions, req.seen, req.sent.snapshot, found),
         Answer(req.seen, req.rule, req.sent, found, next)
  PROVE  Buckets'
<1>1. Asks("chains") /\ StoreIs /\ Sought(Sessions, Rules, req)
  BY SearchRuns
<1>2. req.seen \in SUBSET DOMAIN Sessions /\ req.rule \in Rules
  BY <1>1 DEF Sought
<1> QED BY <1>1, <1>2, AnswerExact

LEMMA SearchInterruptedExact ==
  ASSUME IInv, Buckets, SearchInterrupted
  PROVE  Buckets'
<1>1. req.at = "lookup" /\ Answer(req.seen, req.rule, req.sent, req.found, req.cursor)
  BY DEF SearchInterrupted
<1>2. Sought(Sessions, Rules, req)
  BY <1>1, SearchRuns
<1>3. IsCursor(req.cursor) /\ ChainsFound(Sessions, req.seen, req.sent.snapshot, req.found)
  BY <1>2 DEF Sought
<1> QED BY <1>1, <1>3, SearchAnswered

LEMMA ScanInterruptedExact ==
  ASSUME IInv, Buckets, ScanInterrupted
  PROVE  Buckets'
<1> DEFINE next == [req.cursor EXCEPT !.search = Pending]
<1>1. req.at = "scan" /\ Answer(req.seen, req.rule, req.sent, req.found, next)
  BY DEF ScanInterrupted
<1>2. Sought(Sessions, Rules, req)
  BY <1>1, SearchRuns
<1>3. IsCursor(req.cursor) /\ ChainsFound(Sessions, req.seen, req.sent.snapshot, req.found)
  BY <1>2 DEF Sought
<1>4. IsCursor(next)
  BY <1>3, CursorMoved DEF PlaceOrNone
<1> HIDE DEF next
<1> QED BY <1>1, <1>3, <1>4, SearchAnswered

LEMMA ChainSettledExact ==
  ASSUME IInv, Buckets, req.at = "scan", NEW hit, NEW last, NEW scanned,
         ChainSettled(hit, last, scanned)
  PROVE  Buckets'
<1> DEFINE settled == [req.cursor EXCEPT !.before = Position(req.chain), !.search = None]
           partial == [req.cursor EXCEPT !.search = [chain |-> req.chain.id, after |-> last]]
           next == IF hit \/ ~req.more THEN settled ELSE partial
           found == IF hit THEN Append(req.found, req.chain) ELSE req.found
<1>1. IF Len(found) = Limit \/ scanned = MaxCandidates
      THEN Answer(req.seen, req.rule, req.sent, found, next)
      ELSE /\ req' = [req EXCEPT !.at = "lookup", !.cursor = next, !.found = found,
                                 !.scanned = scanned, !.chain = None, !.rest = <<>>,
                                 !.last = None, !.more = FALSE]
           /\ script' = script /\ rule' = rule /\ UNCHANGED <<cursor, page, explained>>
  BY DEF ChainSettled, store, rules, history
<1>2. /\ Asks("chains") /\ Sought(Sessions, Rules, req) /\ script \in Scripts
      /\ SessionsAre(Sessions)
  BY SearchRuns
<1>3. /\ IsCursor(req.cursor) /\ req.seen \in SUBSET DOMAIN Sessions
      /\ req.sent.snapshot = req.cursor.snapshot
      /\ ChainsFound(Sessions, req.seen, req.cursor.snapshot, req.found)
      /\ IsSummary(Sessions, VisibleIn(Sessions, req.seen, req.cursor.snapshot),
                   req.cursor.snapshot, req.chain)
      /\ req.cursor.snapshot \in Int
  BY <1>2 DEF Sought, IsCursor
<1>4. IsCursor(next) /\ next.snapshot = req.cursor.snapshot
  <2>1. PICK p \in PlaceOrNone : p = Position(req.chain)
    BY <1>2, <1>3, HasPlace
  <2>2. IsCursor(settled) /\ settled.snapshot = req.cursor.snapshot
    <3>1. settled = [req.cursor EXCEPT !.before = p, !.search = None]
      BY <2>1
    <3> HIDE DEF settled
    <3> QED BY <1>3, <3>1, CursorMoved, ZenonT(60)
  <2>3. IsCursor(partial) /\ partial.snapshot = req.cursor.snapshot
    <3>1. PICK t : t = [chain |-> req.chain.id, after |-> last]
      OBVIOUS
    <3>2. partial = [req.cursor EXCEPT !.search = t]
      BY <3>1
    <3> HIDE DEF partial
    <3> QED BY <1>3, <2>1, <3>2, CursorMoved
  <2> HIDE DEF settled, partial
  <2> QED BY <2>2, <2>3
<1> HIDE DEF next
<1>5. ChainsFound(Sessions, req.seen, req.cursor.snapshot, found)
  <2>1. VisibleIn(Sessions, req.seen, req.cursor.snapshot) \in SUBSET DOMAIN Sessions
    BY <1>3 DEF VisibleIn
  <2>2. req.chain \in SummariesOf(Sessions)
    BY <1>2, <1>3, <2>1, SummaryIs
  <2>3. req.found \in Seq(SummariesOf(Sessions))
    BY <1>3 DEF ChainsFound
  <2>4. PICK w : w = Append(req.found, req.chain)
    OBVIOUS
  <2>5. /\ w \in Seq(SummariesOf(Sessions)) /\ DOMAIN w = 1 .. Len(req.found) + 1
        /\ DOMAIN req.found = 1 .. Len(req.found) /\ Len(req.found) \in Nat
        /\ \A i \in DOMAIN req.found : w[i] = req.found[i]
        /\ w[Len(req.found) + 1] = req.chain
    BY <2>2, <2>3, <2>4, AppendedIs
  <2>6. \A i \in DOMAIN w : i \in DOMAIN req.found \/ i = Len(req.found) + 1
    BY <2>5
  <2>7. ChainsFound(Sessions, req.seen, req.cursor.snapshot, w)
    BY <1>3, <2>5, <2>6 DEF ChainsFound
  <2> QED BY <1>3, <2>4, <2>7
<1> HIDE DEF found
<1>6. CASE Len(found) = Limit \/ scanned = MaxCandidates
  BY <1>1, <1>6, <1>3, <1>4, <1>5, SearchAnswered
<1>7. CASE ~(Len(found) = Limit \/ scanned = MaxCandidates)
  <2>1. PICK q : q = req'
    OBVIOUS
  <2>2. q = [req EXCEPT !.at = "lookup", !.cursor = next, !.found = found,
                        !.scanned = scanned, !.chain = None, !.rest = <<>>,
                        !.last = None, !.more = FALSE]
        /\ script' = script /\ rule' = rule /\ UNCHANGED <<cursor, page, explained>>
    BY <1>1, <1>7, <2>1
  <2>3. /\ q.at = "lookup" /\ q.seen = req.seen /\ q.rule = req.rule /\ q.sent = req.sent
        /\ q.cursor = next /\ q.found = found
        /\ q = [at |-> q.at, seen |-> q.seen, rule |-> q.rule, sent |-> q.sent,
                cursor |-> q.cursor, found |-> q.found, scanned |-> q.scanned,
                chain |-> q.chain, rest |-> q.rest, last |-> q.last, more |-> q.more]
    BY <1>2, <2>2 DEF Sought
  <2>4. Sought(Sessions, Rules, q)
    BY <1>2, <1>4, <1>5, <2>3 DEF Sought
  <2> QED BY <1>2, <2>1, <2>2, <2>4, SearchGoesOn
<1> QED BY <1>6, <1>7

LEMMA ScanExact ==
  ASSUME IInv, Buckets, Scan
  PROVE  Buckets'
<1> DEFINE i == Head(req.rest)
<1>1. /\ req.at = "scan" /\ req.rest # <<>>
      /\ IF Sessions[i].hits \/ Len(req.rest) = 1
         THEN ChainSettled(Sessions[i].hits, PositionOf(i), req.scanned + 1)
         ELSE /\ req' = [req EXCEPT !.rest = Tail(@), !.scanned = @ + 1, !.last = PositionOf(i)]
              /\ script' = script /\ rule' = rule /\ UNCHANGED <<cursor, page, explained>>
  BY DEF Scan, store, rules, history
<1>2. Asks("chains") /\ Sought(Sessions, Rules, req)
  BY <1>1, SearchRuns
<1> HIDE DEF i
<1>3. CASE Sessions[i].hits \/ Len(req.rest) = 1
  <2>1. PICK hit : hit = Sessions[i].hits
    OBVIOUS
  <2>2. ChainSettled(hit, PositionOf(i), req.scanned + 1)
    BY <1>1, <1>3, <2>1
  <2> QED BY <1>1, <2>2, ChainSettledExact
<1>4. CASE ~(Sessions[i].hits \/ Len(req.rest) = 1)
  <2>1. PICK q : q = req'
    OBVIOUS
  <2>2. q = [req EXCEPT !.rest = Tail(@), !.scanned = @ + 1, !.last = PositionOf(i)]
        /\ script' = script /\ rule' = rule /\ UNCHANGED <<cursor, page, explained>>
    BY <1>1, <1>4, <2>1
  <2>3. /\ q.at = req.at /\ q.seen = req.seen /\ q.rule = req.rule /\ q.sent = req.sent
        /\ q.cursor = req.cursor /\ q.found = req.found /\ q.chain = req.chain
        /\ q = [at |-> q.at, seen |-> q.seen, rule |-> q.rule, sent |-> q.sent,
                cursor |-> q.cursor, found |-> q.found, scanned |-> q.scanned,
                chain |-> q.chain, rest |-> q.rest, last |-> q.last, more |-> q.more]
    BY <1>2, <2>2 DEF Sought
  <2>4. Sought(Sessions, Rules, q)
    BY <1>2, <2>3 DEF Sought
  <2> QED BY <1>2, <2>1, <2>2, <2>4, SearchGoesOn
<1> QED BY <1>3, <1>4

LEMMA ScanNothingExact ==
  ASSUME IInv, Buckets, ScanNothing
  PROVE  Buckets'
<1>1. req.at = "scan" /\ ChainSettled(FALSE, req.last, req.scanned)
  BY DEF ScanNothing
<1> QED BY <1>1, ChainSettledExact

LEMMA ListsRows ==
  ASSUME IInv, ~Asks("chains")
  PROVE  StoreIs /\ Listings
BY DEF IInv, Orderly

\* The rows of a page get their buckets.
LEMMA BucketSessionsExact ==
  ASSUME IInv, Buckets, BucketSessions
  PROVE  Buckets'
<1> DEFINE found == req.found
           anchors == {found[n] : n \in {m \in DOMAIN found :
                                           Applies(rule, Sessions[found[m]].key)}}
           known(i) == IF Bucket = "any" \/ rule = None THEN <<>>
                       ELSE KnownOf(Retained, i, anchors)
           items == [n \in DOMAIN found |-> [session |-> found[n], known |-> known(found[n])]]
           next == IF Bucket = "known" /\ rule = None THEN Done ELSE req.next
           M == VisibleIn(Sessions, Retained, Snapshot(Retained))
<1>1. /\ req.at = "bucket"
      /\ page' = [at |-> "sessions", seen |-> Retained, rule |-> rule, from |-> req.sent,
                  next |-> next, items |-> items]
      /\ script' = script /\ rule' = rule /\ explained' = explained
      /\ req' = Idle
  BY DEF BucketSessions, store, rules
<1>2. ~Asks("chains")
  <2> SUFFICES ASSUME Asks("chains")
               PROVE  FALSE
    OBVIOUS
  <2>1. req # Idle
    BY <1>1 DEF Idle
  <2>2. Sought(Sessions, Rules, req)
    BY <2>1 DEF Buckets, Requests
  <2> QED BY <1>1, <2>2 DEF Sought
<1>3. StoreIs /\ Listings /\ script \in Scripts /\ Retained \in SUBSET DOMAIN Sessions
  BY <1>2, ListsRows, RetainedIs DEF StoreIs
<1>4. found \in Seq(DOMAIN Sessions)
  BY <1>1, <1>3, RowsAsked DEF BucketReq
<1>5. /\ \A n \in DOMAIN found : found[n] \in DOMAIN Sessions
      /\ anchors \in SUBSET DOMAIN Sessions
      /\ \A j \in anchors : Applies(rule, Sessions[j].key)
      /\ \A n \in DOMAIN found : Applies(rule, Sessions[found[n]].key) => found[n] \in anchors
  BY <1>4, LenProperties, ElementOfSeq
<1>6. DOMAIN items = DOMAIN found
      /\ \A n \in DOMAIN found : items[n].session = found[n] /\ items[n].known = known(found[n])
  OBVIOUS
<1> HIDE DEF items, anchors
<1>7. /\ page'.at = "sessions" /\ page'.rule = rule /\ page'.seen = Retained /\ page'.items = items
  BY <1>1
<1>8. ASSUME Bucket # "any", NEW n \in DOMAIN items
      PROVE  RowItem(Sessions, page', items[n])
  <2>1. PICK i : i = found[n]
    OBVIOUS
  <2>2. i \in DOMAIN Sessions /\ items[n].session = i /\ items[n].known = known(i)
        /\ (Applies(rule, Sessions[i].key) => i \in anchors)
    BY <1>5, <1>6, <1>8, <2>1
  <2> SUFFICES ASSUME i \in M
               PROVE  ExactIn(Sessions, rule, ChainIn(Sessions, M, i), Sessions[i].key,
                              items[n].known)
    BY <1>7, <2>2 DEF RowItem
  <2>3. CASE rule = None
    BY <2>2, <2>3 DEF Applies, ExactIn
  <2>4. CASE rule # None
    <3>1. items[n].known = KnownOf(Retained, i, anchors)
      BY <1>8, <2>2, <2>4
    <3>2. PICK N : N = M
      OBVIOUS
    <3>3. rule \in Rules
      BY DEF Buckets
    <3>4. Exact(rule, ChainIn(Sessions, N, i), Sessions[i].key, KnownOf(Retained, i, anchors))
      BY <1>3, <1>5, <2>2, <3>2, <3>3, KnownOfIs
    <3> QED BY <3>1, <3>2, <3>4, ExactLinks
  <2> QED BY <2>3, <2>4
<1>9. PageExact(Sessions, Rules, Bucket, page')
  BY <1>3, <1>7, <1>8 DEF PageExact
<1>10. Sessions' = Sessions /\ Rules' = Rules /\ Bucket' = Bucket /\ ~Asks("chains")'
  BY <1>1, <1>2, ScriptKept
<1>11. ExplainedIfCurrent'
  BY <1>1 DEF Buckets, ExplainedIfCurrent
<1>12. Requests' /\ rule' \in Rules'
  BY <1>1, <1>10 DEF Buckets, Requests
<1> QED BY <1>9, <1>10, <1>11, <1>12 DEF Buckets

\* The other steps of the session list.
LEMMA RowsExact ==
  ASSUME IInv, Buckets, ListSessions \/ BeginSessionSearch \/ FetchRows \/ ScanRow
  PROVE  Buckets'
<1>1. script' = script /\ rule' = rule /\ UNCHANGED <<cursor, page, explained>>
  BY DEF ListSessions, BeginSessionSearch, FetchRows, ScanRow, store, rules, history
<1>2. ~Asks("chains")
  <2>1. CASE ListSessions \/ BeginSessionSearch
    BY <2>1 DEF ListSessions, BeginSessionSearch, Asks
  <2>2. CASE FetchRows \/ ScanRow
    BY <2>2 DEF FetchRows, ScanRow, Idle, Buckets, Requests, Sought
  <2> QED BY <2>1, <2>2
<1>3. Requests' /\ rule' \in Rules
  BY <1>1, <1>2, ScriptKept DEF Requests, Buckets
<1> QED BY <1>1, <1>3, NoPageMade

LEMMA MemberPageExact ==
  ASSUME Buckets, MemberPage
  PROVE  Buckets'
<1>1. /\ Asks("members") /\ script' = script /\ rule' = rule /\ explained' = explained
      /\ page'.at = "gone" \/ page'.at = "members"
  BY DEF MemberPage, store, rules
<1>2. Sessions' = Sessions /\ Rules' = Rules /\ Bucket' = Bucket /\ ~Asks("chains")'
  BY <1>1, ScriptKept DEF Asks
<1>3. PageExact(Sessions, Rules, Bucket, page')
  BY <1>1 DEF PageExact
<1>4. Requests' /\ rule' \in Rules'
  BY <1>1, <1>2 DEF Buckets, Requests
<1>5. ExplainedIfCurrent'
  BY <1>1 DEF Buckets, ExplainedIfCurrent
<1> QED BY <1>2, <1>3, <1>4, <1>5 DEF Buckets

\* The match of a chain in one of its sessions is explained.
LEMMA ExplainedExact ==
  ASSUME IInv, Buckets, NEW item, page.at = "chains", item \in ToSet(page.items),
         NEW i \in item.chain.members, GetRuleHighlights(item, i)
  PROVE  Buckets'
<1>1. /\ Selection(item.known, i) # {}
      /\ explained' = [session |-> i, version |-> page.rule, current |-> rule,
                       retained |-> i \in Retained,
                       outcome |-> Explanation(rule, page.rule, item.known, i)]
      /\ script' = script /\ rule' = rule /\ UNCHANGED <<cursor, req, page>>
  BY DEF GetRuleHighlights, store, rules
<1>2. /\ page.rule \in Rules /\ page.seen \in SUBSET DOMAIN Sessions
      /\ ChainItem(Sessions, Bucket, page, item)
  BY DEF Buckets, PageExact, ToSet
<1>3. script \in Scripts /\ SessionsAre(Sessions)
  BY RetainedIs DEF IInv, StoreIs
<1> DEFINE n == page.from.snapshot
           M == VisibleIn(Sessions, page.seen, n)
           C == item.chain.members
<1>4. IsSummary(Sessions, M, n, item.chain) /\ M \in SUBSET DOMAIN Sessions
  BY <1>2 DEF ChainItem, VisibleIn
<1>5. Bucket # "any"
  <2> SUFFICES ASSUME Bucket = "any"
               PROVE  FALSE
    OBVIOUS
  <2>1. item.known = <<>>
    BY <1>2 DEF ChainItem
  <2>2. DOMAIN item.known = {}
    BY <2>1
  <2> QED BY <1>1, <2>2 DEF Selection
<1>6. Exact(page.rule, C, item.chain.key, item.known)
  BY <1>2, <1>5, ExactLinks DEF ChainItem
<1>7. C \subseteq M /\ C \in SUBSET DOMAIN Sessions /\ Sessions[i].key = item.chain.key
  <2>1. \A j \in C : Sessions[j].key = item.chain.key /\ j \in M
    <3> HIDE DEF M
    <3> QED BY <1>3, <1>4, SummaryKey
  <2> QED BY <1>4, <2>1
<1> HIDE DEF M, n
<1>8. Explanation(rule, page.rule, item.known, i) = "marked" <=> rule = page.rule /\ i \in Retained
  BY <1>1, <1>2, <1>3, <1>6, <1>7, ExplanationIs
<1>9. /\ explained'.outcome = Explanation(rule, page.rule, item.known, i)
      /\ explained'.current = rule /\ explained'.version = page.rule
      /\ explained'.retained <=> i \in Retained
  BY <1>1
<1>10. ExplainedIfCurrent'
  BY <1>8, <1>9 DEF ExplainedIfCurrent
<1>11. Sessions' = Sessions /\ Rules' = Rules /\ Bucket' = Bucket
       /\ (Asks("chains") <=> Asks("chains")')
  BY <1>1, ScriptKept
<1>12. Requests' /\ rule' \in Rules'
  BY <1>1, <1>11 DEF Buckets, Requests
<1>13. PageExact(Sessions, Rules, Bucket, page)'
  BY <1>1, <1>11 DEF Buckets
<1> QED BY <1>10, <1>12, <1>13 DEF Buckets

LEMMA BucketsStart ==
  ASSUME Init
  PROVE  Buckets
<1>1. rule \in Rules /\ cursor = First /\ req = Idle /\ page.at = "none" /\ explained = None
  BY DEF Init, Rules, NoPage
<1> QED BY <1>1 DEF Buckets, Requests, PageExact, ExplainedIfCurrent

LEMMA BucketsStep ==
  ASSUME IInv, Buckets, [Next]_vars
  PROVE  Buckets'
<1>1. StoreIs /\ script' = script
  BY StoreStepKeeps DEF IInv
<1>2. rule \in Rules
  BY DEF Buckets
<1>3. CASE UNCHANGED vars
  BY <1>2, <1>3, NothingMoves DEF vars
<1>4. CASE Persist
  BY <1>2, <1>4, NothingMoves DEF Persist, rules, history
<1>5. ASSUME NEW i \in Retained, Expire(i)
      PROVE  Buckets'
  BY <1>2, <1>5, NothingMoves DEF Expire, rules, history
<1>6. ASSUME NEW r \in script.rules \cup {None}, EditRule(r)
      PROVE  Buckets'
  BY <1>6, <1>1, NothingMoves DEF EditRule, history, Rules
<1>7. ASSUME NEW item \in (IF page.at = "chains" THEN ToSet(page.items) ELSE {}),
             NEW i \in item.chain.members, GetRuleHighlights(item, i)
      PROVE  Buckets'
  BY <1>7, ExplainedExact
<1>8. CASE \/ NothingKnown \/ ListChains \/ BeginSearch \/ Lookup \/ NothingFound
  BY <1>1, <1>8, NothingKnownExact, ListChainsExact, BeginSearchExact, LookupExact,
     NothingFoundExact
<1>9. CASE \/ Scan \/ ScanNothing \/ SearchInterrupted \/ ScanInterrupted \/ SearchFails
           \/ MemberPage
  BY <1>9, ScanExact, ScanNothingExact, SearchInterruptedExact, ScanInterruptedExact,
     SearchFailsExact, MemberPageExact
<1>10. CASE \/ ListSessions \/ BeginSessionSearch \/ FetchRows \/ ScanRow \/ BucketSessions
  BY <1>10, RowsExact, BucketSessionsExact
<1> QED BY <1>3, <1>4, <1>5, <1>6, <1>7, <1>8, <1>9, <1>10 DEF Next

\* What the pages say is what the buckets are meant to be.
LEMMA BucketsAreExact ==
  ASSUME StoreIs, Buckets
  PROVE  BucketExact
<1>1. script \in Scripts /\ SessionsAre(Sessions)
  BY RetainedIs DEF StoreIs
<1>2. ASSUME Bucket # "any", page.at = "chains", NEW n \in DOMAIN page.items,
             NEW M, M = Visible(page.seen, page.from.snapshot), page.items[n].chain.id \in M
      PROVE  IF Applies(page.rule, Sessions[page.items[n].chain.id].key)
             THEN Explains(page.rule, EventsIn(Correlated(M, page.items[n].chain.id)),
                           page.items[n].known)
             ELSE page.items[n].known = <<>>
  <2>1. PICK c : c = page.items[n].chain
    OBVIOUS
  <2>2. M = VisibleIn(Sessions, page.seen, page.from.snapshot) /\ page.seen \in SUBSET DOMAIN Sessions
    BY <1>2, Links DEF Buckets, PageExact
  <2>3. M \in SUBSET DOMAIN Sessions
    BY <2>2 DEF VisibleIn
  <2>4. /\ IsSummary(Sessions, M, page.from.snapshot, c)
        /\ Exact(page.rule, c.members, c.key, page.items[n].known)
    BY <1>2, <2>1, <2>2, ExactLinks DEF Buckets, PageExact, ChainItem
  <2>5. Sessions[c.id].key = c.key /\ ChainIn(Sessions, M, c.id) = c.members
    BY <1>1, <2>3, <2>4, SummaryKey
  <2>6. Correlated(M, c.id) = c.members
    BY <1>1, <1>2, <2>1, <2>3, <2>5, ChainsCorrelate
  <2> QED BY <2>1, <2>4, <2>5, <2>6 DEF Exact
<1>3. ASSUME Bucket # "any", page.at = "sessions", NEW n \in DOMAIN page.items,
             NEW M, M = Visible(page.seen, Snapshot(page.seen)), page.items[n].session \in M
      PROVE  IF Applies(page.rule, Sessions[page.items[n].session].key)
             THEN Explains(page.rule, EventsIn(Correlated(M, page.items[n].session)),
                           page.items[n].known)
             ELSE page.items[n].known = <<>>
  <2>1. PICK i : i = page.items[n].session
    OBVIOUS
  <2>2. M = VisibleIn(Sessions, page.seen, Snapshot(page.seen)) /\ page.seen \in SUBSET DOMAIN Sessions
    BY <1>3, Links DEF Buckets, PageExact
  <2>3. M \in SUBSET DOMAIN Sessions
    BY <2>2 DEF VisibleIn
  <2>4. Exact(page.rule, ChainIn(Sessions, M, i), Sessions[i].key, page.items[n].known)
    BY <1>3, <2>1, <2>2, ExactLinks DEF Buckets, PageExact, RowItem
  <2>5. Correlated(M, i) = ChainIn(Sessions, M, i)
    BY <1>1, <1>3, <2>1, <2>3, ChainsCorrelate
  <2> QED BY <2>1, <2>4, <2>5 DEF Exact
<1>4. ExplainedIfCurrent
  BY DEF Buckets
<1> QED BY <1>2, <1>3, <1>4 DEF BucketExact

-----------------------------------------------------------------------------
(* What a listing has to contain.                                          *)

\* No session up to n is new in W.
Follows(V, W, n) == \A i \in W : i <= n => i \in V

WantsIn(s, searching, i) == s[i].meets /\ (searching => s[i].hits)

InBucket(s, bucket, r, C) ==
  bucket # "any" =>
    (bucket = "known") = (Applies(r, s[Min(C)].key) /\ Occurs(r, EventsFor(s, C)))

\* The chains of the first page that have lost no session.
KeptIn(s, V, R) ==
  LET M == VisibleIn(s, V, Snapshot(V))
  IN  {C \in {ChainIn(s, M, i) : i \in M} : C \subseteq R}

\* And those of them the client asked for.
Due(s, searching, bucket, r, K) ==
  {C \in K : (\E i \in C : WantsIn(s, searching, i)) /\ InBucket(s, bucket, r, C)}

\* Of the chain that is to be searched on, what is wanted lies behind the
\* saved position, and what else is due lies below it.
PendingLeft(s, searching, G, V, c) ==
  LET M == VisibleIn(s, V, c.snapshot)
      C == ChainIn(s, M, c.search.chain)
  IN  c.search # None /\ c.search.chain \in M =>
        /\ \A i \in C : WantsIn(s, searching, i) =>
                          c.search.after = None \/ Precedes(c.search.after, PlaceOf(s, i))
        /\ \A D \in G : Lower(PlaceIn(s, D), c.before) =>
                          D = C \/ Precedes(PlaceIn(s, D), PlaceIn(s, C))

\* What is due above the cursor, or, at the end, at all.
Passed(s, G, c) == IF c = Done THEN G ELSE {C \in G : ~Lower(PlaceIn(s, C), c.before)}

\* It is listed or found, and nothing else is listed.
CompleteTo(s, K, G, c, L, found) ==
  /\ ToSet(L) \cap K \subseteq G
  /\ Passed(s, G, c) \subseteq ToSet(L) \cup ToSet(MembersOf(found))

Budgeted(q) ==
  /\ q.scanned \in Nat /\ q.rest \in Seq(Int)
  /\ q.at = "lookup" => q.scanned < MaxCandidates
  /\ q.at = "scan" => q.scanned + Len(q.rest) <= MaxCandidates

\* What is left of the chain that is being searched.
ScanLeft(s, G, q) ==
  /\ \A C \in G : Lower(PlaceIn(s, C), q.cursor.before) =>
                    C = q.chain.members \/ Precedes(PlaceIn(s, C), Position(q.chain))
  /\ \A m \in DOMAIN q.rest : q.rest[m] \in q.chain.members /\ s[q.rest[m]].meets
  /\ Ascends(s, q.rest)
  /\ \A i \in q.chain.members : WantsIn(s, TRUE, i) =>
       /\ q.last = None \/ Precedes(q.last, PlaceOf(s, i))
       /\ \/ i \in ToSet(q.rest)
          \/ q.more /\ q.rest # <<>> /\ Precedes(PlaceOf(s, q.rest[Len(q.rest)]), PlaceOf(s, i))

SearchLeft(s, K, G, V, R, n, q, L) ==
  /\ q.cursor.snapshot = n /\ Follows(V, q.seen, n) /\ Follows(q.seen, R, n)
  /\ Budgeted(q)
  /\ CompleteTo(s, K, G, q.cursor, L, q.found)
  /\ \A C \in K \cap ToSet(MembersOf(q.found)) : \E i \in C : WantsIn(s, TRUE, i)
  /\ q.at = "lookup" => PendingLeft(s, TRUE, G, q.seen, q.cursor)
  /\ q.at = "scan" => ScanLeft(s, G, q)

\* The sessions the first page is, or was, made from.
Source == IF cursor = First /\ req # Idle THEN req.seen ELSE view

ListingLeft(s, K, G, V, R, c, L) ==
  /\ c # First => CompleteTo(s, K, G, c, L, <<>>)
  /\ c \notin {First, Done} =>
       c.snapshot = Snapshot(V) /\ Follows(V, R, c.snapshot) /\ PendingLeft(s, TRUE, G, R, c)

ChainsLeft ==
  LET K == KeptIn(Sessions, Source, Retained)
      G == Due(Sessions, Searching, Bucket, rule, K)
  IN  Asks("chains") =>
        /\ listed \in Seq(SUBSET Int) /\ (cursor = First => listed = <<>>)
        /\ Source \in SUBSET (1 .. persisted)
        /\ ListingLeft(Sessions, K, G, view, Retained, cursor, listed)
        /\ req # Idle =>
             /\ Searching /\ cursor # Done /\ req.rule = rule
             /\ SearchLeft(Sessions, K, G, Source, Retained, Snapshot(Source), req, listed)

\* The rows of V that the client asked for, at a number or above it.
RowsDue(s, searching, V, below) ==
  {i \in V : s[i].shown /\ WantsIn(s, searching, i) /\ (below = Done \/ (below # None /\ i >= below.id))}

RowsTo(s, searching, V, below, L) ==
  /\ RowsDue(s, searching, V, below) \subseteq ToSet(L)
  /\ \A i \in ToSet(L) \cap V : s[i].shown /\ WantsIn(s, searching, i)

\* Of the rows that were fetched, none that is due is passed over.
RestLeft(s, V, q) ==
  /\ \A m \in DOMAIN q.rest : s[q.rest[m]].shown /\ s[q.rest[m]].meets
  /\ q.rest # <<>> =>
       \A i \in V : /\ s[i].shown /\ s[i].meets
                    /\ q.below = None \/ i < q.below.id
                    /\ i >= q.rest[Len(q.rest)]
                    => i \in ToSet(q.rest)

RowsLeft ==
  LET V == view \cap Retained
  IN  Asks("sessions") /\ Bucket = "any" =>
        /\ RowsTo(Sessions, Searching, V, IF cursor = First THEN None ELSE cursor, listed)
        /\ req.at = "rows" =>
             /\ Searching
             /\ RowsTo(Sessions, Searching, V, req.below, listed \o req.found)
             /\ RestLeft(Sessions, V, req)
        /\ req.at = "bucket" => RowsTo(Sessions, Searching, V, req.next, listed \o req.found)

\* The members of the chain up to a position.
MembersTo(s, C, after) == {i \in C : after = Done \/ ~Precedes(after, PlaceOf(s, i))}

MembersLeft ==
  LET C == IF script.asks.anchor \in view THEN ChainIn(Sessions, view, script.asks.anchor) ELSE {}
  IN  Asks("members") =>
        /\ cursor = First => listed = <<>>
        /\ cursor # First /\ C \subseteq Retained =>
             ToSet(listed) = MembersTo(Sessions, C, IF cursor = Done THEN Done ELSE cursor.after)
        /\ cursor \notin {First, Done} =>
             /\ cursor.snapshot \in 0 .. persisted
             /\ VisibleIn(Sessions, Retained, cursor.snapshot) = view \cap Retained

Left == view \in SUBSET (1 .. persisted) /\ ChainsLeft /\ RowsLeft /\ MembersLeft

Complete == edits \in Nat /\ script.early <= persisted /\ (edits = 0 => Left)

\* The newest id of a set of sessions bounds them.
LEMMA SnapshotOf ==
  ASSUME NEW V \in SUBSET Int, IsFiniteSet(V)
  PROVE  Snapshot(V) \in Int /\ \A i \in V : i <= Snapshot(V)
<1>1. CASE V = {}
  BY <1>1 DEF Snapshot
<1>2. CASE V # {}
  BY <1>2, MaxIs DEF Snapshot
<1> QED BY <1>1, <1>2

\* Sets of sessions are finite, and numbers.
LEMMA SessionSets ==
  ASSUME NEW s, SessionsAre(s), NEW V \in SUBSET DOMAIN s
  PROVE  /\ IsFiniteSet(V) /\ V \in SUBSET Int /\ Snapshot(V) \in Int
         /\ \A n : VisibleIn(s, V, n) \in SUBSET DOMAIN s
<1>1. IsFiniteSet(DOMAIN s) /\ DOMAIN s \subseteq Int
  BY FS_Interval DEF SessionsAre
<1>2. IsFiniteSet(V) /\ V \in SUBSET Int
  BY <1>1, FS_Subset
<1> QED BY <1>2, SnapshotOf DEF VisibleIn

\* What nothing was taken from is a chain wherever it is looked for.
LEMMA KeptStays ==
  ASSUME NEW s, SessionsAre(s), NEW V \in SUBSET DOMAIN s, NEW R, NEW C \in KeptIn(s, V, R),
         NEW U, Follows(V, U, Snapshot(V)), C \subseteq U
  PROVE  /\ C \in SUBSET DOMAIN s /\ C # {}
         /\ PlaceIn(s, C) \in Place
         /\ C \subseteq R /\ \A i \in C : i <= Snapshot(V)
         /\ \A i \in C : /\ i \in VisibleIn(s, U, Snapshot(V))
                         /\ ChainIn(s, VisibleIn(s, U, Snapshot(V)), i) = C
<1> DEFINE n == Snapshot(V)
           M == VisibleIn(s, V, n)
           N == VisibleIn(s, U, n)
<1>1. M \in SUBSET DOMAIN s
  BY SessionSets
<1>2. N \in SUBSET M
  BY DEF Follows, VisibleIn
<1>3. PICK j \in M : C = ChainIn(s, M, j)
  BY DEF KeptIn
<1>4. C \subseteq M /\ j \in C /\ \A i \in C : ChainIn(s, M, i) = C
  BY <1>3, ChainsPartition
<1>5. C \subseteq N
  BY <1>4 DEF VisibleIn
<1>6. ASSUME NEW i \in C
      PROVE  ChainIn(s, N, i) = C
  <2>1. i \in N /\ ChainIn(s, M, i) \subseteq N
    BY <1>4, <1>5
  <2> HIDE DEF N, M
  <2> QED BY <1>1, <1>2, <1>4, <2>1, ChainKept
<1>7. C \in SUBSET DOMAIN s /\ C # {}
  BY <1>1, <1>4
<1>8. C \subseteq R /\ \A i \in C : i <= n
  BY <1>4 DEF KeptIn, VisibleIn
<1> HIDE DEF M, N
<1> QED BY <1>5, <1>6, <1>7, <1>8, PlaceIs DEF N

\* What retention removes later only takes chains out.
LEMMA KeptShrinks ==
  ASSUME NEW s, NEW V, NEW R, NEW W, Follows(R, W, Snapshot(V))
  PROVE  KeptIn(s, V, W) \subseteq KeptIn(s, V, R)
<1> SUFFICES ASSUME NEW C \in KeptIn(s, V, W)
             PROVE  C \in KeptIn(s, V, R)
  OBVIOUS
<1> DEFINE M == VisibleIn(s, V, Snapshot(V))
<1>1. PICK i \in M : C = ChainIn(s, M, i) /\ C \subseteq W
  BY DEF KeptIn
<1>2. C \subseteq M
  BY <1>1, ChainsPartition
<1>3. C \subseteq R
  BY <1>1, <1>2 DEF VisibleIn, Follows
<1> QED BY <1>1, <1>3 DEF KeptIn

\* What is due of fewer chains.
LEMMA DueAre ==
  ASSUME NEW s, NEW searching, NEW bucket, NEW r, NEW K, NEW J \in SUBSET K
  PROVE  /\ Due(s, searching, bucket, r, K) \subseteq K
         /\ Due(s, searching, bucket, r, J) = Due(s, searching, bucket, r, K) \cap J
BY DEF Due

\* A later store follows what an earlier one followed.
LEMMA FollowsOn ==
  ASSUME NEW V, NEW R, NEW W, NEW n, Follows(V, R, n), Follows(R, W, n)
  PROVE  Follows(V, W, n)
BY DEF Follows

\* What is left of the chain that is searched on, when sessions go.
LEMMA PendingShrinks ==
  ASSUME NEW s, SessionsAre(s), NEW V \in SUBSET DOMAIN s, NEW R, NEW W,
         Follows(V, R, Snapshot(V)), Follows(R, W, Snapshot(V)), NEW searching, NEW G,
         NEW H \in SUBSET G, H \subseteq KeptIn(s, V, W), NEW c, c.snapshot = Snapshot(V),
         PendingLeft(s, searching, G, R, c)
  PROVE  PendingLeft(s, searching, H, W, c)
<1> DEFINE n == c.snapshot
           M == VisibleIn(s, R, n)
           N == VisibleIn(s, W, n)
           i == c.search.chain
           C == ChainIn(s, M, i)
           D == ChainIn(s, N, i)
<1> SUFFICES ASSUME c.search # None, i \in N
             PROVE  /\ \A j \in D : WantsIn(s, searching, j) =>
                                 c.search.after = None \/ Precedes(c.search.after, PlaceOf(s, j))
                    /\ \A E \in H : Lower(PlaceIn(s, E), c.before) =>
                                      E = D \/ Precedes(PlaceIn(s, E), PlaceIn(s, D))
  BY DEF PendingLeft
<1>1. N \in SUBSET M
  BY DEF Follows, VisibleIn
<1>2. M \in SUBSET DOMAIN s
  BY DEF Follows, VisibleIn
<1>3. i \in M /\ i \in N
  BY <1>1
<1> HIDE DEF M, N, i
<1>4. D \subseteq C /\ D # {} /\ C \in SUBSET DOMAIN s /\ D \subseteq N
  BY <1>1, <1>2, <1>3, ChainsShrink, ChainsPartition
<1>5. /\ \A j \in C : WantsIn(s, searching, j) =>
                        c.search.after = None \/ Precedes(c.search.after, PlaceOf(s, j))
      /\ \A E \in G : Lower(PlaceIn(s, E), c.before) =>
                        E = C \/ Precedes(PlaceIn(s, E), PlaceIn(s, C))
  BY <1>3 DEF PendingLeft, M, i
<1> HIDE DEF C, D
<1>6. ASSUME NEW E \in H, Lower(PlaceIn(s, E), c.before)
      PROVE  E = D \/ Precedes(PlaceIn(s, E), PlaceIn(s, D))
  <2>1. E \in KeptIn(s, V, W) /\ E \subseteq W
    BY DEF KeptIn
  <2>2. Follows(V, W, n)
    BY FollowsOn
  <2>3. PlaceIn(s, E) \in Place /\ \A j \in E : ChainIn(s, N, j) = E
    BY <2>1, <2>2, KeptStays DEF N
  <2>4. CASE E = C
    <3>1. E = ChainIn(s, N, i)
      BY <1>3, ChainsPartition, <2>3, <2>4 DEF C
    <3> QED BY <3>1 DEF D
  <2>5. CASE Precedes(PlaceIn(s, E), PlaceIn(s, C))
    BY <1>4, PlaceRises, PlaceIs, <2>3, <2>5, PrecedesOrders
  <2> QED BY <1>5, <1>6, <2>4, <2>5
<1> QED BY <1>4, <1>5, <1>6

\* With fewer chains to list, the listing still is complete so far.
LEMMA CompleteShrinks ==
  ASSUME NEW s, NEW K, NEW G, NEW c, NEW L, NEW found, CompleteTo(s, K, G, c, L, found),
         NEW J \in SUBSET K
  PROVE  CompleteTo(s, J, G \cap J, c, L, found)
BY DEF CompleteTo, Passed

\* The same for the cursor the client holds ...
LEMMA ListingShrinks ==
  ASSUME NEW s, SessionsAre(s), NEW V \in SUBSET DOMAIN s, NEW R, NEW W,
         Follows(R, W, Snapshot(V)), NEW K, K = KeptIn(s, V, R), NEW J, J = KeptIn(s, V, W),
         NEW G \in SUBSET K, NEW c, NEW L, ListingLeft(s, K, G, V, R, c, L)
  PROVE  ListingLeft(s, J, G \cap J, V, W, c, L)
<1>1. J \in SUBSET K
  BY KeptShrinks
<1>2. c # First => CompleteTo(s, J, G \cap J, c, L, <<>>)
  BY <1>1, CompleteShrinks DEF ListingLeft
<1>3. ASSUME c \notin {First, Done}
      PROVE  c.snapshot = Snapshot(V) /\ Follows(V, W, c.snapshot)
             /\ PendingLeft(s, TRUE, G \cap J, W, c)
  BY <1>3, FollowsOn, PendingShrinks DEF ListingLeft
<1> QED BY <1>2, <1>3 DEF ListingLeft

\* ... and for a search in progress.
LEMMA SearchShrinks ==
  ASSUME NEW s, NEW V, NEW R, NEW W, NEW n,
         Follows(R, W, n), NEW K, NEW J \in SUBSET K, NEW G \in SUBSET K,
         NEW q, NEW L, SearchLeft(s, K, G, V, R, n, q, L)
  PROVE  SearchLeft(s, J, G \cap J, V, W, n, q, L)
<1>1. q.cursor.snapshot = n /\ Follows(V, q.seen, n) /\ Follows(q.seen, W, n) /\ Budgeted(q)
  BY FollowsOn DEF SearchLeft
<1>2. CompleteTo(s, J, G \cap J, q.cursor, L, q.found)
  BY CompleteShrinks DEF SearchLeft
<1>3. q.at = "lookup" => PendingLeft(s, TRUE, G \cap J, q.seen, q.cursor)
  BY DEF SearchLeft, PendingLeft
<1>4. q.at = "scan" => ScanLeft(s, G \cap J, q)
  BY DEF SearchLeft, ScanLeft
<1>5. \A C \in J \cap ToSet(MembersOf(q.found)) : \E i \in C : WantsIn(s, TRUE, i)
  BY DEF SearchLeft
<1> QED BY <1>1, <1>2, <1>3, <1>4, <1>5 DEF SearchLeft

\* The client asks for the same throughout.
LEMMA AskedStays ==
  ASSUME script' = script
  PROVE  /\ Sessions' = Sessions /\ Bucket' = Bucket /\ Searching' = Searching
         /\ (Asks("chains") <=> Asks("chains")') /\ (Asks("sessions") <=> Asks("sessions")')
         /\ (Asks("members") <=> Asks("members")')
BY ScriptKept DEF Searching

\* A listing of chains when late sessions come and old ones go.
LEMMA ChainsLeftOn ==
  ASSUME StoreIs, StoreIs', ChainsLeft, UNCHANGED <<script, rule, cursor, req, view, listed>>,
         persisted <= persisted', Follows(Retained, Retained', persisted)
  PROVE  ChainsLeft'
<1> SUFFICES ASSUME Asks("chains")
             PROVE  ChainsLeft'
  BY AskedStays DEF ChainsLeft
<1> DEFINE V == Source
           K == KeptIn(Sessions, V, Retained)
           J == KeptIn(Sessions, V, Retained')
           G == Due(Sessions, Searching, Bucket, rule, K)
           H == Due(Sessions, Searching, Bucket, rule, J)
<1>1. /\ cursor = First => listed = <<>>
      /\ V \in SUBSET (1 .. persisted)
      /\ ListingLeft(Sessions, K, G, view, Retained, cursor, listed)
      /\ req # Idle =>
           /\ Searching /\ cursor # Done /\ req.rule = rule
           /\ SearchLeft(Sessions, K, G, V, Retained, Snapshot(V), req, listed)
  BY DEF ChainsLeft
<1>2. Source' = V
  BY DEF Source
<1>3. /\ SessionsAre(Sessions) /\ V \in SUBSET DOMAIN Sessions /\ persisted \in Nat
      /\ persisted' \in Nat
  BY <1>1, RetainedIs DEF StoreIs, SessionsAre
<1>4. Follows(Retained, Retained', Snapshot(V))
  <2>1. V = {} => Snapshot(V) = 0
    BY DEF Snapshot
  <2>2. V # {} => Snapshot(V) \in V
    BY <1>3, SessionSets, MaxIs DEF Snapshot
  <2>3. Snapshot(V) \in Int /\ Snapshot(V) <= persisted
    <3> HIDE DEF V
    <3>1. \A i \in V : i \in Int /\ i <= persisted
      BY <1>1, <1>3
    <3> QED BY <1>3, <2>1, <2>2, <3>1
  <2>4. Retained' \in SUBSET Int
    BY RetainedIs, <1>3 DEF Retained
  <2> QED BY <1>3, <2>3, <2>4 DEF Follows
<1>5. J \in SUBSET K
  BY <1>4, KeptShrinks
<1>6. G \in SUBSET K /\ H = G \cap J
  BY <1>5, DueAre
<1> HIDE DEF K, J, G, H, V
<1>7. ListingLeft(Sessions, J, H, view, Retained', cursor, listed)
  <2>1. CASE cursor = First
    BY <2>1 DEF ListingLeft
  <2>2. CASE cursor # First
    BY <2>2, <1>1, <1>3, <1>4, <1>6, ListingShrinks DEF Source, V, K, J
  <2> QED BY <2>1, <2>2
<1>8. req # Idle =>
        /\ Searching /\ cursor # Done /\ req.rule = rule
        /\ SearchLeft(Sessions, J, H, V, Retained', Snapshot(V), req, listed)
  BY <1>1, <1>4, <1>5, <1>6, SearchShrinks
<1>9. V \in SUBSET (1 .. persisted')
  BY <1>1, <1>3
<1>10. Sessions' = Sessions /\ Bucket' = Bucket /\ Searching' = Searching
  BY AskedStays
<1>11. J = KeptIn(Sessions, Source, Retained)' /\ rule' = rule
  BY <1>2, <1>10 DEF J
<1> QED BY <1>1, <1>2, <1>7, <1>8, <1>9, <1>10, <1>11 DEF ChainsLeft, H

\* With fewer rows to list, too.
LEMMA RowsFewerLeft ==
  ASSUME NEW s, NEW searching, NEW V, NEW W \in SUBSET V, NEW below, NEW L,
         RowsTo(s, searching, V, below, L)
  PROVE  RowsTo(s, searching, W, below, L)
BY DEF RowsTo, RowsDue

\* Persisting and retention leave nothing out.
LEMMA StoreLeft ==
  ASSUME StoreIs, StoreIs', Left, UNCHANGED <<script, rules, cursor, req, view, listed>>,
         persisted <= persisted', Follows(Retained, Retained', persisted)
  PROVE  Left'
<1>1. /\ Sessions' = Sessions /\ Bucket' = Bucket /\ Searching' = Searching
      /\ (Asks("chains") <=> Asks("chains")') /\ (Asks("sessions") <=> Asks("sessions")')
      /\ (Asks("members") <=> Asks("members")')
  BY AskedStays
<1>2. view \in SUBSET (1 .. persisted)
  BY DEF Left
<1>3. persisted \in Nat /\ persisted' \in Nat
  BY DEF StoreIs
<1>4. view' \in SUBSET (1 .. persisted')
  BY <1>2, <1>3
<1>5. view \cap Retained' \subseteq view \cap Retained
  <2>1. \A i \in view : i \in Int /\ i <= persisted
    BY <1>2, <1>3
  <2> QED BY <2>1 DEF Follows
<1>6. ChainsLeft'
  BY ChainsLeftOn DEF Left, rules
<1>7. RowsLeft'
  BY <1>1, <1>5, RowsFewerLeft DEF Left, RowsLeft, RestLeft
<1>8. MembersLeft'
  <2>1. MembersLeft
    BY DEF Left
  <2> DEFINE C == IF script.asks.anchor \in view THEN ChainIn(Sessions, view, script.asks.anchor) ELSE {}
  <2>2. C \subseteq view
    BY ChainsPartition
  <2>3. C \subseteq Retained' => C \subseteq Retained
    BY <1>5, <2>2
  <2>4. ASSUME Asks("members"), cursor \notin {First, Done}
        PROVE  VisibleIn(Sessions, Retained', cursor.snapshot) = view \cap Retained'
    <3>1. /\ cursor.snapshot \in 0 .. persisted
          /\ VisibleIn(Sessions, Retained, cursor.snapshot) = view \cap Retained
      BY <2>1, <2>4 DEF MembersLeft
    <3> PICK n : n = cursor.snapshot
      OBVIOUS
    <3>2. Retained' \subseteq Int
      BY DEF Retained, StoreIs
    <3>3. \A i \in Retained' : i <= n => i \in Retained
      BY <1>3, <3>1, <3>2 DEF Follows
    <3>4. view \cap Retained' \subseteq Retained
      BY <1>5
    <3>5. VisibleIn(Sessions, Retained', n) \subseteq view \cap Retained'
      BY <3>1, <3>3 DEF VisibleIn
    <3>6. view \cap Retained' \subseteq VisibleIn(Sessions, Retained', n)
      BY <3>1, <3>4 DEF VisibleIn
    <3> QED BY <3>5, <3>6
  <2>5. cursor \notin {First, Done} /\ Asks("members") => cursor.snapshot \in 0 .. persisted'
    BY <2>1, <1>3 DEF MembersLeft
  <2> QED BY <1>1, <2>1, <2>3, <2>4, <2>5 DEF MembersLeft
<1> QED BY <1>4, <1>6, <1>7, <1>8 DEF Left

\* Nor does a step that touches none of it.
LEMMA NothingLeftOut ==
  ASSUME Left, UNCHANGED <<store, rules, cursor, req, view, listed>>
  PROVE  Left'
<1>1. /\ Sessions' = Sessions /\ Bucket' = Bucket /\ Searching' = Searching
      /\ (Asks("chains") <=> Asks("chains")') /\ (Asks("sessions") <=> Asks("sessions")')
      /\ (Asks("members") <=> Asks("members")')
  BY AskedStays DEF store
<1>2. Retained' = Retained /\ Source' = Source
  BY DEF Retained, Source, store
<1>3. UNCHANGED <<script, persisted, rule, edits, cursor, req, view, listed>>
  BY DEF store, rules
<1>4. ChainsLeft => ChainsLeft'
  BY <1>1, <1>2, <1>3 DEF ChainsLeft
<1>5. RowsLeft => RowsLeft'
  BY <1>1, <1>2, <1>3 DEF RowsLeft
<1>6. MembersLeft => MembersLeft'
  BY <1>1, <1>2, <1>3 DEF MembersLeft
<1> QED BY <1>3, <1>4, <1>5, <1>6 DEF Left

\* After an edit nothing is claimed.
LEMMA EditLeft ==
  ASSUME Complete, NEW r, EditRule(r)
  PROVE  Complete'
BY DEF Complete, EditRule, store, history

\* A failed request leaves the client its cursor.
LEMMA SearchFailsLeft ==
  ASSUME Left, SearchFails
  PROVE  Left'
<1>1. /\ req # Idle /\ req' = Idle
      /\ UNCHANGED <<script, persisted, expired, rule, edits, cursor, view, listed>>
  BY DEF SearchFails, store, rules, history
<1>2. /\ Sessions' = Sessions /\ Bucket' = Bucket /\ Searching' = Searching
      /\ (Asks("chains") <=> Asks("chains")') /\ (Asks("sessions") <=> Asks("sessions")')
      /\ (Asks("members") <=> Asks("members")')
  BY <1>1, AskedStays
<1>3. Retained' = Retained
  BY <1>1 DEF Retained
<1>4. view \in SUBSET (1 .. persisted)
  BY DEF Left
<1>5. ChainsLeft => ChainsLeft'
  <2> SUFFICES ASSUME ChainsLeft, Asks("chains")
               PROVE  ChainsLeft'
    BY <1>2 DEF ChainsLeft
  <2>1. Source' = view
    BY <1>1 DEF Source
  <2>2. CASE cursor = First
    BY <1>1, <1>2, <1>4, <2>1, <2>2 DEF ChainsLeft, ListingLeft
  <2>3. CASE cursor # First
    BY <2>3, <1>1, <1>2, <1>3, <1>4, <2>1 DEF Source, ChainsLeft
  <2> QED BY <2>2, <2>3
<1>6. RowsLeft => RowsLeft'
  BY <1>1, <1>2, <1>3 DEF Idle, RowsLeft
<1>7. MembersLeft => MembersLeft'
  BY <1>1, <1>2, <1>3 DEF MembersLeft
<1> QED BY <1>1, <1>4, <1>5, <1>6, <1>7 DEF Left

\* At first nothing is listed, and nothing is due.
LEMMA CompleteStarts ==
  ASSUME Init
  PROVE  Complete
<1>1. /\ persisted = script.early /\ edits = 0 /\ cursor = First /\ req = Idle /\ view = {}
      /\ listed = <<>> /\ script \in Scripts
  BY DEF Init
<1>2. ToSet(listed) = {} /\ req.at = "idle"
  BY <1>1 DEF ToSet, Idle
<1>3. ChainsLeft
  BY <1>1 DEF ChainsLeft, ListingLeft, Source
<1>4. RowsLeft
  BY <1>1, <1>2 DEF RowsLeft, RowsTo, RowsDue
<1>5. MembersLeft
  BY <1>1 DEF MembersLeft
<1> QED BY <1>1, <1>3, <1>4, <1>5, ScriptIs DEF Complete, Left

-----------------------------------------------------------------------------
(* The answer to a request for chains. *)

\* A chain is accepted when its bucket is the one asked for.
LEMMA AcceptsIs ==
  ASSUME script \in Scripts, NEW V \in SUBSET DOMAIN Sessions, NEW n, NEW c,
         IsSummary(Sessions, VisibleIn(Sessions, V, n), n, c), NEW r \in Rules
  PROVE  Accepts(IF Bucket = "any" THEN <<>> ELSE Classify(V, r, c))
           <=> InBucket(Sessions, Bucket, r, c.members)
<1> DEFINE known == Classify(V, r, c)
           M == VisibleIn(Sessions, V, n)
<1>1. SessionsAre(Sessions)
  BY ScriptIs
<1>2. M \in SUBSET DOMAIN Sessions
  BY DEF VisibleIn
<1>3. Exact(r, c.members, c.key, known)
  BY ClassifyIs
<1>4. Sessions[Min(c.members)].key = c.key
  BY DEF IsSummary, SummaryIn
<1>5. EventsIn(c.members) = EventsFor(Sessions, c.members)
  BY ExactLinks
<1>6. ASSUME Applies(r, c.key)
      PROVE  known # <<>> <=> Occurs(r, EventsFor(Sessions, c.members))
  <2>1. RuleIs(r)
    BY <1>6, RulesAre DEF Applies
  <2>2. Explains(r, EventsFor(Sessions, c.members), known)
    BY <1>3, <1>5, <1>6 DEF Exact
  <2>3. Len(r.steps) \in Nat \ {0}
    BY <2>1 DEF RuleIs
  <2> DEFINE E == EventsFor(Sessions, c.members)
             F == Occurrences(r, E)
  <2>4. F # {} => known # <<>>
    <3> SUFFICES ASSUME F # {}
                 PROVE  known # <<>>
      OBVIOUS
    <3> PICK len \in Nat \ {0} : len = Len(r.steps)
      BY <2>3
    <3>1. PICK f \in F : known = [k \in 1 .. len |-> E[f[k]]]
      BY <2>2 DEF Explains
    <3>2. DOMAIN known = 1 .. len
      BY <3>1
    <3>3. 1 \in DOMAIN known
      BY <3>2
    <3> QED BY <3>3
  <2>5. F = {} => known = <<>>
    BY <2>2 DEF Explains
  <2> HIDE DEF F, known, E
  <2> QED BY <2>4, <2>5 DEF Occurs, F, E
<1>7. ~Applies(r, c.key) => known = <<>>
  BY <1>3 DEF Exact
<1> HIDE DEF known
<1>8. known # <<>> <=> Applies(r, c.key) /\ Occurs(r, EventsFor(Sessions, c.members))
  BY <1>6, <1>7
<1>9. Accepts(known) <=> Bucket = "any" \/ ((Bucket = "known") = (known # <<>>))
  BY DEF Accepts
<1>10. CASE Bucket = "any"
  BY <1>10 DEF Accepts, InBucket
<1>11. CASE Bucket # "any"
  BY <1>4, <1>8, <1>9, <1>11 DEF InBucket, known
<1> QED BY <1>10, <1>11

\* The chains that a search has found.
LEMMA MembersFound ==
  ASSUME NEW found, NEW C
  PROVE  C \in ToSet(MembersOf(found)) <=> \E m \in DOMAIN found : C = found[m].members
BY DEF ToSet, MembersOf

\* A new search has found none.
LEMMA NoneFound == ToSet(MembersOf(<<>>)) = {}
BY DEF ToSet, MembersOf

\* What is in two lists one behind the other.
LEMMA ToSetConcat ==
  ASSUME NEW S, NEW p \in Seq(S), NEW q \in Seq(S), NEW x
  PROVE  x \in ToSet(p \o q) <=> x \in ToSet(p) \/ x \in ToSet(q)
<1>1. /\ Len(p) \in Nat /\ DOMAIN (p \o q) = 1 .. Len(p) + Len(q)
      /\ DOMAIN p = 1 .. Len(p) /\ DOMAIN q = 1 .. Len(q) /\ Len(q) \in Nat
      /\ \A n \in DOMAIN p : (p \o q)[n] = p[n]
      /\ \A n \in DOMAIN q : (p \o q)[Len(p) + n] = q[n]
      /\ \A n \in DOMAIN (p \o q) :
           \/ n \in DOMAIN p /\ (p \o q)[n] = p[n]
           \/ n > Len(p) /\ n - Len(p) \in DOMAIN q /\ (p \o q)[n] = q[n - Len(p)]
  BY Concatenated
<1>2. x \in ToSet(p \o q) => x \in ToSet(p) \/ x \in ToSet(q)
  BY <1>1 DEF ToSet
<1>3. ASSUME x \in ToSet(p)
      PROVE  x \in ToSet(p \o q)
  <2>1. PICK n \in DOMAIN p : x = p[n]
    BY <1>3 DEF ToSet
  <2>2. n \in DOMAIN (p \o q) /\ (p \o q)[n] = x
    BY <1>1, <2>1
  <2> QED BY <2>2 DEF ToSet
<1>4. ASSUME x \in ToSet(q)
      PROVE  x \in ToSet(p \o q)
  <2>1. PICK n \in DOMAIN q : x = q[n]
    BY <1>4 DEF ToSet
  <2>2. Len(p) + n \in DOMAIN (p \o q) /\ (p \o q)[Len(p) + n] = x
    BY <1>1, <2>1
  <2> QED BY <2>2 DEF ToSet
<1> QED BY <1>2, <1>3, <1>4

\* What an answer adds to the listing.
LEMMA AnswerLists ==
  ASSUME StoreIs, NEW V \in SUBSET DOMAIN Sessions, NEW r \in Rules, NEW sent, NEW n,
         NEW chains, ChainsFound(Sessions, V, n, chains), NEW next,
         listed \in Seq(SUBSET Int), Answer(V, r, sent, chains, next)
  PROVE  /\ listed' \in Seq(SUBSET Int)
         /\ \A C : C \in ToSet(listed') <=>
              \/ C \in ToSet(listed)
              \/ C \in ToSet(MembersOf(chains)) /\ InBucket(Sessions, Bucket, r, C)
<1> DEFINE known(t) == IF Bucket = "any" THEN <<>> ELSE Classify(V, r, t)
           items == [m \in DOMAIN chains |-> [chain |-> chains[m], known |-> known(chains[m])]]
           places == {m \in DOMAIN items : Accepts(items[m].known)}
           A == AcceptedOf(items, places)
<1>1. listed' = listed \o A
  BY Zenon DEF Answer, AcceptedOf
<1>2. DOMAIN items = DOMAIN chains
      /\ \A m \in DOMAIN chains : items[m].chain = chains[m] /\ items[m].known = known(chains[m])
  OBVIOUS
<1>3. script \in Scripts /\ SessionsAre(Sessions)
  BY RetainedIs DEF StoreIs
<1>4. /\ chains \in Seq(SummariesOf(Sessions))
      /\ \A m \in DOMAIN chains : IsSummary(Sessions, VisibleIn(Sessions, V, n), n, chains[m])
  BY DEF ChainsFound
<1>5. \A m \in DOMAIN chains :
        m \in places <=> InBucket(Sessions, Bucket, r, chains[m].members)
  <2> SUFFICES ASSUME NEW m \in DOMAIN chains
               PROVE  m \in places <=> InBucket(Sessions, Bucket, r, chains[m].members)
    OBVIOUS
  <2>1. Accepts(known(chains[m])) <=> InBucket(Sessions, Bucket, r, chains[m].members)
    BY <1>3, <1>4, AcceptsIs
  <2> QED BY <1>2, <2>1
<1>6. places \subseteq DOMAIN chains
  BY <1>2
<1> DEFINE T == {items[m] : m \in DOMAIN chains}
<1>7. items \in Seq(T)
  <2> PICK len \in Nat : len = Len(chains) /\ DOMAIN chains = 1 .. len
    BY <1>4, LenProperties
  <2> HIDE DEF known
  <2>1. items \in [1 .. len -> T]
    BY <1>2
  <2> QED BY <2>1
<1> HIDE DEF items, places, T
<1>8. A \in Seq(SUBSET DOMAIN Sessions)
  BY <1>2, <1>4, <1>6, <1>7, AcceptedIs
<1>9. DOMAIN Sessions \subseteq Int
  BY <1>3 DEF SessionsAre
<1>10. A \in Seq(SUBSET Int)
  <2>1. SUBSET DOMAIN Sessions \subseteq SUBSET Int
    BY <1>9
  <2> HIDE DEF A
  <2> QED BY <1>8, <2>1
<1>11. \A C : C \in ToSet(A) <=> \E m \in places : C = chains[m].members
  <2> DEFINE P == Picked(items, places)
  <2>1. /\ \A k \in places : \E l \in DOMAIN P : P[l] = items[k]
        /\ \A l \in DOMAIN P : \E k \in places : P[l] = items[k]
    <3>1. places \in SUBSET DOMAIN items
      BY <1>2, <1>6
    <3> QED BY <1>7, <3>1, PickedIs
  <2>2. A = [l \in DOMAIN P |-> P[l].chain.members]
    BY DEF AcceptedOf
  <2> HIDE DEF P, A
  <2>3. DOMAIN A = DOMAIN P /\ \A l \in DOMAIN P : A[l] = P[l].chain.members
    BY <2>2
  <2>4. \A k \in places : items[k].chain.members = chains[k].members
    BY <1>2, <1>6
  <2> QED BY <2>1, <2>3, <2>4 DEF ToSet
<1>12. listed' \in Seq(SUBSET Int)
  BY <1>1, <1>10, Concatenated
<1> HIDE DEF A
<1>13. \A C : C \in ToSet(listed') <=> C \in ToSet(listed) \/ C \in ToSet(A)
  BY <1>1, <1>10, ToSetConcat
<1>14. \A C : C \in ToSet(A) <=> 
         C \in ToSet(MembersOf(chains)) /\ InBucket(Sessions, Bucket, r, C)
  BY <1>5, <1>6, <1>11, MembersFound
<1> QED BY <1>12, <1>13, <1>14, Zenon

\* An answer that passes nothing by that is due leaves nothing out.
LEMMA AnswerLeft ==
  ASSUME StoreIs, Buckets, Left, Asks("chains"), cursor # Done,
         NEW V \in SUBSET DOMAIN Sessions, cursor = First => V \in SUBSET (1 .. persisted),
         NEW W, W = IF cursor = First THEN V ELSE view,
         NEW n, n = Snapshot(W), Follows(W, V, n), Follows(V, Retained, n),
         NEW K, K = KeptIn(Sessions, W, Retained),
         NEW G, G = Due(Sessions, Searching, Bucket, rule, K),
         NEW chains, ChainsFound(Sessions, V, n, chains),
         \A C \in K \cap ToSet(MembersOf(chains)) : \E i \in C : WantsIn(Sessions, Searching, i),
         NEW next, next # First,
         Passed(Sessions, G, next) \subseteq ToSet(listed) \cup ToSet(MembersOf(chains)),
         next # Done => next.snapshot = n /\ PendingLeft(Sessions, TRUE, G, V, next),
         NEW sent, Answer(V, rule, sent, chains, next)
  PROVE  Left'
<1>1. /\ view' = W /\ cursor' = next /\ req' = Idle
      /\ UNCHANGED <<script, persisted, expired, rule, edits>>
  BY Zenon DEF Answer, store, rules
<1>2. /\ Sessions' = Sessions /\ Bucket' = Bucket /\ Searching' = Searching
      /\ (Asks("chains") <=> Asks("chains")') /\ (Asks("sessions") <=> Asks("sessions")')
      /\ (Asks("members") <=> Asks("members")')
  BY <1>1, AskedStays
<1>3. Retained' = Retained /\ Source' = W
  BY <1>1 DEF Retained, Source
<1>4. /\ listed \in Seq(SUBSET Int) /\ (cursor = First => listed = <<>>)
      /\ view \in SUBSET (1 .. persisted)
      /\ cursor # First => ToSet(listed) \cap KeptIn(Sessions, view, Retained) \subseteq
                             Due(Sessions, Searching, Bucket, rule, KeptIn(Sessions, view, Retained))
  BY DEF Source, Left, ChainsLeft, ListingLeft, CompleteTo
<1>5. ToSet(listed) \cap K \subseteq G
  <2>1. CASE cursor = First
    BY <1>4, <2>1 DEF ToSet
  <2>2. CASE cursor # First
    BY <1>4, <2>2
  <2> QED BY <2>1, <2>2
<1>6. W \in SUBSET (1 .. persisted)
  BY <1>4
<1>7. /\ SessionsAre(Sessions) /\ W \in SUBSET DOMAIN Sessions
      /\ rule \in Rules
  BY RetainedIs, <1>6 DEF SessionsAre, Buckets
<1>8. /\ listed' \in Seq(SUBSET Int)
      /\ \A C : C \in ToSet(listed') <=>
           \/ C \in ToSet(listed)
           \/ C \in ToSet(MembersOf(chains)) /\ InBucket(Sessions, Bucket, rule, C)
  BY <1>4, <1>7, AnswerLists
<1>9. CompleteTo(Sessions, K, G, next, listed', <<>>)
  <2>1. ToSet(listed') \cap K \subseteq G
    BY <1>5, <1>8 DEF Due
  <2>2. Passed(Sessions, G, next) \subseteq ToSet(listed')
    <3> SUFFICES ASSUME NEW C \in Passed(Sessions, G, next)
                 PROVE  C \in ToSet(listed')
      OBVIOUS
    <3>1. C \in G
      BY DEF Passed
    <3>2. InBucket(Sessions, Bucket, rule, C)
      BY <3>1 DEF Due
    <3> QED BY <1>8, <3>2
  <2> QED BY <2>1, <2>2 DEF CompleteTo
<1>10. ASSUME next # Done
       PROVE  next.snapshot = Snapshot(W) /\ Follows(W, Retained, next.snapshot)
              /\ PendingLeft(Sessions, TRUE, G, Retained, next)
  <2>1. next.snapshot = Snapshot(W) /\ PendingLeft(Sessions, TRUE, G, V, next)
    BY <1>10
  <2>2. Follows(W, Retained, next.snapshot)
    BY <2>1, FollowsOn
  <2>3. G \in SUBSET G /\ G \subseteq KeptIn(Sessions, W, Retained)
    BY DueAre
  <2>4. Follows(W, V, Snapshot(W)) /\ Follows(V, Retained, Snapshot(W))
    OBVIOUS
  <2>5. PendingLeft(Sessions, TRUE, G, Retained, next)
    BY ONLY <1>7, <2>1, <2>3, <2>4, PendingShrinks
  <2> QED BY <2>1, <2>2, <2>5
<1>11. ListingLeft(Sessions, K, G, W, Retained, next, listed')
  BY <1>9, <1>10 DEF ListingLeft
<1>12. ChainsLeft'
  BY <1>1, <1>2, <1>3, <1>6, <1>8, <1>11 DEF ChainsLeft
<1>13. RowsLeft' /\ MembersLeft'
  BY <1>2 DEF RowsLeft, MembersLeft, Asks
<1> QED BY <1>1, <1>6, <1>12, <1>13, Zenon DEF Left

\* The sessions a request is answered from, and the chains due by then.
Base == IF cursor = First THEN Retained ELSE view
BaseKept == KeptIn(Sessions, Base, Retained)
BaseDue == Due(Sessions, Searching, Bucket, rule, BaseKept)

\* The cursor that is sent, where the first page starts anew.
LEMMA SentLeft ==
  ASSUME StoreIs, Buckets, Left, Asks("chains"), cursor # Done, req = Idle
  PROVE  /\ IsCursor(SentCursor) /\ SentCursor.snapshot = Snapshot(Base)
         /\ Base \in SUBSET (1 .. persisted) /\ Base \in SUBSET DOMAIN Sessions
         /\ Retained \in SUBSET (1 .. persisted)
         /\ Follows(Base, Retained, Snapshot(Base)) /\ Snapshot(Base) \in Int
         /\ CompleteTo(Sessions, BaseKept, BaseDue, SentCursor, listed, <<>>)
         /\ PendingLeft(Sessions, TRUE, BaseDue, Retained, SentCursor)
<1> DEFINE W == Base
           K == BaseKept
           G == BaseDue
<1>1. Retained \in SUBSET (1 .. persisted) /\ SessionsAre(Sessions)
  BY RetainedIs
<1>2. W \in SUBSET (1 .. persisted)
  BY <1>1 DEF Left, Base
<1>3. W \in SUBSET DOMAIN Sessions
  BY RetainedIs, <1>2 DEF SessionsAre
<1>4. IsCursor(SentCursor)
  BY SentIsCursor
<1>5. Snapshot(W) \in Int
  BY <1>1, <1>3, SessionSets
<1> HIDE DEF W, K, G
<1>6. CASE cursor = First
  <2>1. SentCursor.snapshot = Snapshot(W) /\ SentCursor.before = None /\ SentCursor.search = None
        /\ SentCursor # Done
    BY <1>6, <1>4 DEF SentCursor, Done, W, Base
  <2>2. listed = <<>> /\ ToSet(listed) = {}
    BY <1>6 DEF Left, ChainsLeft, ToSet
  <2>3. CompleteTo(Sessions, K, G, SentCursor, listed, <<>>)
    BY <2>1, <2>2 DEF CompleteTo, Passed, Lower
  <2>4. PendingLeft(Sessions, TRUE, G, Retained, SentCursor)
    BY <2>1 DEF PendingLeft
  <2>5. Follows(W, Retained, Snapshot(W))
    BY <1>6 DEF Follows, W, Base
  <2> QED BY <1>1, <1>2, <1>3, <1>4, <1>5, <2>1, <2>3, <2>4, <2>5 DEF W, K, G
<1>7. CASE cursor # First
  BY <1>7, <1>1, <1>2, <1>3, <1>4, <1>5 DEF SentCursor, Source, W, Base, Left, ChainsLeft, K,
       G, BaseKept, BaseDue, ListingLeft
<1> QED BY <1>6, <1>7

\* Without a rule nothing is due in the bucket of known chains.
LEMMA NothingKnownLeft ==
  ASSUME StoreIs, Buckets, Left, NothingKnown
  PROVE  Left'
<1> DEFINE W == Base
           n == Snapshot(W)
           K == BaseKept
           G == BaseDue
<1>1. /\ req = Idle /\ Asks("chains") /\ cursor # Done /\ Bucket = "known" /\ rule = None
      /\ Answer(Retained, rule, SentCursor, <<>>, Done)
  BY DEF NothingKnown
<1>2. G = {}
  BY <1>1 DEF Due, InBucket, Applies, BaseDue
<1>3. ChainsFound(Sessions, Retained, n, <<>>) /\ ToSet(MembersOf(<<>>)) = {}
  BY NoneFound DEF ChainsFound
<1>4. Retained \in SUBSET (1 .. persisted) /\ Follows(W, Retained, n)
  BY <1>1, SentLeft
<1>5. Follows(Retained, Retained, n) /\ Retained \in SUBSET DOMAIN Sessions
  BY RetainedIs DEF Follows
<1>6. Passed(Sessions, G, Done) = {}
  BY <1>2 DEF Passed
<1>7. Done # First
  BY DEF Done, First
<1> HIDE DEF W, n, K, G
<1> QED
  BY <1>1, <1>3, <1>4, <1>5, <1>6, <1>7, AnswerLeft DEF W, n, K, G, Base, BaseKept, BaseDue

\* What is due below a position is in a chain that is found there.
LEMMA DueFound ==
  ASSUME script \in Scripts, NEW W \in SUBSET DOMAIN Sessions, NEW V \in SUBSET DOMAIN Sessions,
         NEW R, NEW n, n = Snapshot(W), Follows(W, V, n),
         NEW before \in PlaceOrNone, NEW q, q = Summaries(V, n, before),
         NEW C \in KeptIn(Sessions, W, R), C \subseteq V, \E i \in C : Sessions[i].meets
  PROVE  /\ PlaceIn(Sessions, C) \in Place
         /\ Lower(PlaceIn(Sessions, C), before) =>
              \E m \in DOMAIN q : q[m].members = C /\ Position(q[m]) = PlaceIn(Sessions, C)
<1> DEFINE M == VisibleIn(Sessions, V, n)
<1>1. SessionsAre(Sessions)
  BY ScriptIs
<1>2. n \in Int
  BY <1>1, SessionSets
<1>3. PlaceIn(Sessions, C) \in Place /\ \A i \in C : i \in M /\ ChainIn(Sessions, M, i) = C
  BY <1>1, KeptStays
<1>4. ASSUME Lower(PlaceIn(Sessions, C), before)
      PROVE  \E m \in DOMAIN q : q[m].members = C /\ Position(q[m]) = PlaceIn(Sessions, C)
  <2>1. PICK i \in C : Sessions[i].meets
    OBVIOUS
  <2>2. i \in M /\ ChainIn(Sessions, M, i) = C
    BY <1>3
  <2> HIDE DEF M
  <2>3. /\ \A m \in DOMAIN q : IsSummary(Sessions, M, n, q[m])
        /\ \E m \in DOMAIN q : q[m].members = ChainIn(Sessions, M, i)
    <3>1. M = VisibleIn(Sessions, V, n)
      BY DEF M
    <3>2. /\ \A m \in DOMAIN q : IsSummary(Sessions, M, n, q[m])
          /\ \A k \in MeetingBelow(Sessions, M, before) : Holds(q, ChainIn(Sessions, M, k))
      BY ONLY script \in Scripts, V \in SUBSET DOMAIN Sessions, before \in PlaceOrNone,
              q = Summaries(V, n, before), <1>2, <3>1, SummariesSorted
    <3>3. i \in MeetingBelow(Sessions, M, before)
      BY <1>4, <2>1, <2>2 DEF MeetingBelow
    <3> QED BY <3>2, <3>3, <2>2 DEF Holds
  <2>4. PICK m \in DOMAIN q : q[m].members = C
    BY <2>2, <2>3
  <2>5. PlaceIn(Sessions, q[m].members) = Position(q[m])
    BY <2>3, SummaryPlace
  <2> QED BY <2>4, <2>5
<1> QED BY <1>3, <1>4

\* The fields of a cursor that is moved on.
LEMMA CursorFields ==
  ASSUME NEW c, IsCursor(c), NEW p, NEW t
  PROVE  /\ [c EXCEPT !.before = p, !.search = t].at = "list"
         /\ [c EXCEPT !.before = p, !.search = t].snapshot = c.snapshot
         /\ [c EXCEPT !.before = p, !.search = t].before = p
         /\ [c EXCEPT !.before = p, !.search = t].search = t
         /\ [c EXCEPT !.search = t].at = "list"
         /\ [c EXCEPT !.search = t].snapshot = c.snapshot
         /\ [c EXCEPT !.search = t].before = c.before
         /\ [c EXCEPT !.search = t].search = t
<1>1. PICK n, b, f : n = c.snapshot /\ b = c.before /\ f = c.search
  OBVIOUS
<1>2. c = [at |-> "list", snapshot |-> n, before |-> b, search |-> f]
  BY <1>1 DEF IsCursor
<1>3. PICK d : d = [c EXCEPT !.before = p, !.search = t]
  OBVIOUS
<1>4. PICK e : e = [c EXCEPT !.search = t]
  OBVIOUS
<1>5. d = [at |-> "list", snapshot |-> n, before |-> p, search |-> t]
  BY <1>2, <1>3
<1>6. e = [at |-> "list", snapshot |-> n, before |-> b, search |-> t]
  BY <1>2, <1>4
<1> QED BY <1>1, <1>3, <1>4, <1>5, <1>6

\* A page of chains lists all between its cursor and the next.
LEMMA ListChainsLeft ==
  ASSUME StoreIs, Buckets, Left, ListChains
  PROVE  Left'
<1> DEFINE W == Base
           n == Snapshot(W)
           K == BaseKept
           G == BaseDue
           sent == SentCursor
           M == VisibleIn(Sessions, Retained, n)
           q == Summaries(Retained, n, sent.before)
           chains == Prefix(q, Limit)
           next == IF Len(q) > Limit
                   THEN [sent EXCEPT !.before = Position(Last(chains)), !.search = None]
                   ELSE Done
<1>1. req = Idle /\ Asks("chains") /\ cursor # Done /\ ~Searching
  BY DEF ListChains
<1>15. /\ W = IF cursor = First THEN Retained ELSE view
       /\ K = KeptIn(Sessions, W, Retained) /\ G = Due(Sessions, Searching, Bucket, rule, K)
  BY DEF Base, BaseKept, BaseDue
<1> HIDE DEF W, K, G
<1>2. /\ IsCursor(sent) /\ sent.snapshot = n
      /\ W \in SUBSET DOMAIN Sessions /\ Retained \in SUBSET (1 .. persisted)
      /\ Follows(W, Retained, n) /\ n \in Int
      /\ CompleteTo(Sessions, K, G, sent, listed, <<>>)
  BY <1>1, SentLeft DEF W, K, G
<1>3. Answer(Retained, rule, sent, chains, next)
  BY <1>2 DEF ListChains
<1>4. script \in Scripts /\ SessionsAre(Sessions) /\ Retained \in SUBSET DOMAIN Sessions
  BY RetainedIs DEF StoreIs
<1>5. sent.before \in PlaceOrNone
  BY <1>2 DEF IsCursor
<1>6. /\ q \in Seq(SummariesOf(Sessions))
      /\ \A m \in DOMAIN q : IsSummary(Sessions, M, n, q[m])
      /\ \A k, l \in DOMAIN q : k < l => Precedes(Position(q[l]), Position(q[k]))
      /\ \A m \in DOMAIN q : Meets(Sessions, q[m].members)
  BY <1>2, <1>4, <1>5, SummariesSorted
<1>7. \A C \in G : /\ PlaceIn(Sessions, C) \in Place
                   /\ Lower(PlaceIn(Sessions, C), sent.before) =>
                        \E m \in DOMAIN q : q[m].members = C /\ Position(q[m]) = PlaceIn(Sessions, C)
  <2> SUFFICES ASSUME NEW C \in G
               PROVE  /\ PlaceIn(Sessions, C) \in Place
                      /\ Lower(PlaceIn(Sessions, C), sent.before) =>
                          \E m \in DOMAIN q : q[m].members = C /\ Position(q[m]) = PlaceIn(Sessions, C)
    OBVIOUS
  <2>1. C \in KeptIn(Sessions, W, Retained) /\ \E i \in C : Sessions[i].meets
    BY <1>15 DEF Due, WantsIn
  <2>2. C \subseteq Retained
    BY <2>1 DEF KeptIn
  <2>3. n = Snapshot(W) /\ q = Summaries(Retained, n, sent.before)
    OBVIOUS
  <2> HIDE DEF q, n, sent
  <2>4. /\ script \in Scripts /\ W \in SUBSET DOMAIN Sessions
        /\ Retained \in SUBSET DOMAIN Sessions /\ Follows(W, Retained, n)
    BY <1>2, <1>4
  <2> QED BY ONLY <1>5, <2>1, <2>2, <2>3, <2>4, DueFound
<1>8. Limit \in Nat \ {0}
  BY SizesAssumption
<1> PICK len \in Nat : len = Len(q) /\ DOMAIN q = 1 .. len
  BY <1>6, LenProperties
<1> HIDE DEF q
<1>9. /\ chains \in Seq(SummariesOf(Sessions)) /\ Len(chains) \in Nat
      /\ DOMAIN chains = 1 .. Len(chains)
      /\ Limit <= len => Len(chains) = Limit
      /\ len <= Limit => chains = q
      /\ \A k \in DOMAIN chains : k \in DOMAIN q /\ chains[k] = q[k]
  BY <1>6, <1>8, PrefixIs
<1> HIDE DEF chains
<1>10. ChainsFound(Sessions, Retained, n, chains)
  BY <1>6, <1>9 DEF ChainsFound
<1>11. \A C \in K \cap ToSet(MembersOf(chains)) : \E i \in C : WantsIn(Sessions, Searching, i)
  <2> SUFFICES ASSUME NEW C \in ToSet(MembersOf(chains))
               PROVE  \E i \in C : WantsIn(Sessions, Searching, i)
    OBVIOUS
  <2>1. PICK m \in DOMAIN chains : C = chains[m].members
    BY MembersFound
  <2> QED BY <1>1, <1>6, <1>9, <2>1 DEF WantsIn, Meets
<1>12. \A C \in G : C \in ToSet(listed) \/ \E m \in DOMAIN q : q[m].members = C
                                             /\ Position(q[m]) = PlaceIn(Sessions, C)
  <2> SUFFICES ASSUME NEW C \in G
               PROVE  C \in ToSet(listed) \/ \E m \in DOMAIN q : q[m].members = C
                                             /\ Position(q[m]) = PlaceIn(Sessions, C)
    OBVIOUS
  <2>1. CASE Lower(PlaceIn(Sessions, C), sent.before)
    BY <1>7, <2>1
  <2>2. CASE ~Lower(PlaceIn(Sessions, C), sent.before)
    BY <1>2, <2>2, NoneFound DEF IsCursor, Done, Passed, CompleteTo
  <2> QED BY <2>1, <2>2
<1>13. CASE len <= Limit
  <2>1. next = Done /\ chains = q
    BY <1>8, <1>9, <1>13
  <2>2. Passed(Sessions, G, next) \subseteq ToSet(listed) \cup ToSet(MembersOf(chains))
    BY <1>12, <2>1, MembersFound DEF Passed
  <2>3. next # First /\ Follows(Retained, Retained, n)
    BY <2>1 DEF Done, First, Follows
  <2> HIDE DEF next, n
  <2> QED BY <1>1, <1>2, <1>3, <1>4, <1>10, <1>11, <2>1, <2>2, <2>3, <1>15, AnswerLeft DEF n
<1>14. CASE len > Limit
  <2>1. next = [sent EXCEPT !.before = Position(Last(chains)), !.search = None]
    BY <1>14
  <2>2. Len(chains) = Limit /\ Last(chains) = q[Limit] /\ Limit \in DOMAIN chains
        /\ Limit \in DOMAIN q
    <3>1. Len(chains) = Limit /\ Limit \in 1 .. Len(chains)
      <4>1. Limit <= len
        BY <1>8, <1>14
      <4>2. Len(chains) = Limit
        BY <1>9, <4>1
      <4> QED BY <1>8, <4>2
    <3>2. Limit \in DOMAIN chains
      BY <1>9, <3>1
    <3> QED BY <1>9, <3>1, <3>2 DEF Last
  <2>3. next.snapshot = n /\ next.before = Position(q[Limit]) /\ next.search = None
        /\ next.at = "list"
    <3>1. IsCursor(sent) /\ sent.snapshot = n
      BY <1>2
    <3> HIDE DEF sent, next, n
    <3>2. \A p : LET d == [sent EXCEPT !.before = p, !.search = None]
                 IN  d.at = "list" /\ d.snapshot = n /\ d.before = p /\ d.search = None
      BY ONLY <3>1, CursorFields
    <3> QED BY <2>1, <2>2, <3>2
  <2>4. next # First /\ next # Done
    BY <2>3 DEF First, Done
  <2>5. Position(q[Limit]) \in Place
    BY <1>4, <1>6, <2>2, SummaryIs DEF VisibleIn
  <2>6. Passed(Sessions, G, next) \subseteq ToSet(listed) \cup ToSet(MembersOf(chains))
    <3> SUFFICES ASSUME NEW C \in G, ~Lower(PlaceIn(Sessions, C), Position(q[Limit])),
                        C \notin ToSet(listed)
                 PROVE  C \in ToSet(MembersOf(chains))
      BY <2>3, <2>4 DEF Passed
    <3>1. PICK m \in DOMAIN q : q[m].members = C /\ Position(q[m]) = PlaceIn(Sessions, C)
      BY <1>12
    <3>2. ~Precedes(Position(q[m]), Position(q[Limit]))
      BY <3>1 DEF Lower
    <3>3. ~(Limit < m)
      BY <1>6, <2>2, <3>2
    <3>4. m \in DOMAIN chains /\ chains[m] = q[m]
      BY <1>8, <1>9, <2>2, <3>3
    <3> QED BY <3>1, <3>4, MembersFound
  <2>7. PendingLeft(Sessions, TRUE, G, Retained, next)
    BY <2>3 DEF PendingLeft
  <2>8. Follows(Retained, Retained, n)
    BY DEF Follows
  <2> HIDE DEF next, n
  <2> QED
    BY <1>1, <1>2, <1>3, <1>4, <1>10, <1>11, <2>3, <2>4, <2>6, <2>7, <2>8, <1>15, AnswerLeft DEF n
<1> QED BY <1>8, <1>13, <1>14

-----------------------------------------------------------------------------
(* What a search has still to find. *)

SourceKept == KeptIn(Sessions, Source, Retained)
SourceDue == Due(Sessions, Searching, Bucket, rule, SourceKept)

\* A search that goes on.
LEMMA SearchLeftOn ==
  ASSUME StoreIs, Left, Asks("chains"), Searching, cursor # Done,
         UNCHANGED <<store, rules, cursor, view, listed>>, req' # Idle, req'.rule = rule,
         NEW W, W = IF cursor = First THEN req'.seen ELSE view, W \in SUBSET (1 .. persisted),
         NEW K, K = KeptIn(Sessions, W, Retained),
         NEW G, G = Due(Sessions, Searching, Bucket, rule, K),
         SearchLeft(Sessions, K, G, W, Retained, Snapshot(W), req', listed)
  PROVE  Left'
<1>1. UNCHANGED <<script, persisted, expired, rule, cursor, view, listed>>
  BY DEF store, rules
<1>2. /\ Sessions' = Sessions /\ Bucket' = Bucket /\ Searching' = Searching
      /\ (Asks("chains") <=> Asks("chains")') /\ (Asks("sessions") <=> Asks("sessions")')
      /\ (Asks("members") <=> Asks("members")')
  BY <1>1, AskedStays
<1>3. Retained' = Retained /\ Source' = W
  BY <1>1 DEF Retained, Source
<1>4. ListingLeft(Sessions, K, G, view, Retained, cursor, listed)
  <2>1. CASE cursor = First
    BY <2>1 DEF ListingLeft
  <2>2. CASE cursor # First
    BY <2>2 DEF Source, Left, ChainsLeft
  <2> QED BY <2>1, <2>2
<1>5. /\ listed \in Seq(SUBSET Int) /\ (cursor = First => listed = <<>>)
      /\ view \in SUBSET (1 .. persisted)
  BY DEF Left, ChainsLeft
<1>6. ChainsLeft'
  BY <1>1, <1>2, <1>3, <1>4, <1>5 DEF ChainsLeft
<1>7. RowsLeft' /\ MembersLeft'
  BY <1>2 DEF RowsLeft, MembersLeft, Asks
<1> QED BY <1>1, <1>5, <1>6, <1>7 DEF Left

\* A search begins where the last page ended.
LEMMA BeginSearchLeft ==
  ASSUME StoreIs, Buckets, Left, BeginSearch
  PROVE  Left'
<1> DEFINE sent == SentCursor
<1>1. /\ Asks("chains") /\ cursor # Done /\ req = Idle /\ Searching
      /\ req' = [at |-> "lookup", seen |-> Retained, rule |-> rule, sent |-> sent,
                 cursor |-> sent, found |-> <<>>, scanned |-> 0, chain |-> None,
                 rest |-> <<>>, last |-> None, more |-> FALSE]
      /\ UNCHANGED <<store, rules, cursor, view, listed>>
  BY DEF BeginSearch, history
<1>2. /\ SentCursor.snapshot = Snapshot(Base)
      /\ Base \in SUBSET (1 .. persisted)
      /\ Follows(Base, Retained, Snapshot(Base))
      /\ CompleteTo(Sessions, BaseKept, BaseDue, SentCursor, listed, <<>>)
      /\ PendingLeft(Sessions, TRUE, BaseDue, Retained, SentCursor)
  BY <1>1, SentLeft
<1> HIDE DEF sent
<1>3. /\ req'.at = "lookup" /\ req'.seen = Retained /\ req'.rule = rule /\ req'.cursor = sent
      /\ req'.found = <<>> /\ req'.scanned = 0 /\ req'.rest = <<>>
  BY <1>1
<1>4. req' # Idle
  BY <1>3 DEF Idle
<1>5. Budgeted(req')
  BY <1>3, SizesAssumption DEF Budgeted
<1>6. SearchLeft(Sessions, BaseKept, BaseDue, Base, Retained, Snapshot(Base), req', listed)
  BY <1>2, <1>3, <1>5, NoneFound DEF SearchLeft, Follows, sent
<1>7. Base = IF cursor = First THEN req'.seen ELSE view
  BY <1>3 DEF Base
<1> QED BY <1>1, <1>2, <1>3, <1>4, <1>6, <1>7, SearchLeftOn DEF BaseKept, BaseDue

\* A running search.
LEMMA SearchIsLeft ==
  ASSUME IInv, Buckets, Left, req.at = "lookup" \/ req.at = "scan"
  PROVE  /\ StoreIs /\ script \in Scripts /\ SessionsAre(Sessions)
         /\ Asks("chains") /\ Searching /\ cursor # Done /\ req.rule = rule /\ rule \in Rules
         /\ Sought(Sessions, Rules, req) /\ req.seen \in SUBSET DOMAIN Sessions
         /\ IsCursor(req.cursor) /\ req.cursor.snapshot = Snapshot(Source)
         /\ ChainsFound(Sessions, req.seen, Snapshot(Source), req.found)
         /\ Source = (IF cursor = First THEN req.seen ELSE view)
         /\ Source \in SUBSET (1 .. persisted) /\ Source \in SUBSET DOMAIN Sessions
         /\ Snapshot(Source) \in Int
         /\ Follows(Source, req.seen, Snapshot(Source))
         /\ Follows(req.seen, Retained, Snapshot(Source))
         /\ SearchLeft(Sessions, SourceKept, SourceDue, Source, Retained, Snapshot(Source),
                       req, listed)
<1>1. /\ Asks("chains") /\ Sought(Sessions, Rules, req) /\ script \in Scripts /\ StoreIs
      /\ SessionsAre(Sessions)
  BY SearchRuns
<1>2. req # Idle
  BY DEF Idle
<1>3. /\ Source \in SUBSET (1 .. persisted)
      /\ Searching /\ cursor # Done /\ req.rule = rule
      /\ SearchLeft(Sessions, SourceKept, SourceDue, Source, Retained, Snapshot(Source),
                    req, listed)
  BY <1>1, <1>2 DEF Left, ChainsLeft, SourceKept, SourceDue
<1>4. Source = (IF cursor = First THEN req.seen ELSE view)
  BY <1>2 DEF Source
<1>5. Source \in SUBSET DOMAIN Sessions
  BY <1>1, RetainedIs, <1>3 DEF SessionsAre
<1>6. /\ req.seen \in SUBSET DOMAIN Sessions /\ IsCursor(req.cursor)
      /\ ChainsFound(Sessions, req.seen, req.cursor.snapshot, req.found)
  BY <1>1 DEF Sought
<1>7. /\ req.cursor.snapshot = Snapshot(Source)
      /\ Follows(Source, req.seen, Snapshot(Source))
      /\ Follows(req.seen, Retained, Snapshot(Source))
  BY <1>3 DEF SearchLeft
<1>8. rule \in Rules
  BY DEF Buckets
<1>9. Snapshot(Source) \in Int
  BY <1>6, <1>7 DEF IsCursor
<1> QED BY <1>1, <1>3, <1>4, <1>5, <1>6, <1>7, <1>8, <1>9

\* The page ends where the search got to.
LEMMA SearchAnsweredLeft ==
  ASSUME IInv, Buckets, Left, req.at = "lookup" \/ req.at = "scan",
         NEW found, ChainsFound(Sessions, req.seen, Snapshot(Source), found),
         \A C \in SourceKept \cap ToSet(MembersOf(found)) : \E i \in C : WantsIn(Sessions, TRUE, i),
         NEW next, next # First,
         CompleteTo(Sessions, SourceKept, SourceDue, next, listed, found),
         next # Done => /\ next.snapshot = Snapshot(Source)
                        /\ PendingLeft(Sessions, TRUE, SourceDue, req.seen, next),
         Answer(req.seen, req.rule, req.sent, found, next)
  PROVE  Left'
<1>1. /\ StoreIs /\ Asks("chains") /\ Searching /\ cursor # Done /\ req.rule = rule
      /\ req.seen \in SUBSET DOMAIN Sessions
      /\ Source = (IF cursor = First THEN req.seen ELSE view)
      /\ Source \in SUBSET (1 .. persisted)
      /\ Follows(Source, req.seen, Snapshot(Source))
      /\ Follows(req.seen, Retained, Snapshot(Source))
      /\ script \in Scripts
  BY SearchIsLeft
<1>2. Searching = TRUE
  BY <1>1, ScriptIs
<1>3. Passed(Sessions, SourceDue, next) \subseteq ToSet(listed) \cup ToSet(MembersOf(found))
  BY DEF CompleteTo
<1>4. cursor = First => req.seen \in SUBSET (1 .. persisted)
  BY <1>1
<1>5. /\ SourceKept = KeptIn(Sessions, Source, Retained)
      /\ SourceDue = Due(Sessions, Searching, Bucket, rule, SourceKept)
  BY DEF SourceKept, SourceDue
<1>6. \A C \in SourceKept \cap ToSet(MembersOf(found)) :
        \E i \in C : WantsIn(Sessions, Searching, i)
  BY <1>2
<1> QED BY <1>1, <1>3, <1>4, <1>5, <1>6, AnswerLeft

\* A search that is interrupted between two chains.
LEMMA SearchInterruptedLeft ==
  ASSUME IInv, Buckets, Left, SearchInterrupted
  PROVE  Left'
<1>1. req.at = "lookup" /\ Answer(req.seen, req.rule, req.sent, req.found, req.cursor)
  BY DEF SearchInterrupted
<1>2. /\ ChainsFound(Sessions, req.seen, Snapshot(Source), req.found)
      /\ IsCursor(req.cursor) /\ req.cursor.snapshot = Snapshot(Source)
      /\ SearchLeft(Sessions, SourceKept, SourceDue, Source, Retained, Snapshot(Source),
                    req, listed)
  BY <1>1, SearchIsLeft
<1>3. /\ CompleteTo(Sessions, SourceKept, SourceDue, req.cursor, listed, req.found)
      /\ \A C \in SourceKept \cap ToSet(MembersOf(req.found)) :
           \E i \in C : WantsIn(Sessions, TRUE, i)
      /\ PendingLeft(Sessions, TRUE, SourceDue, req.seen, req.cursor)
  BY <1>1, <1>2 DEF SearchLeft
<1>4. req.cursor # First
  BY <1>2 DEF IsCursor, First
<1> QED BY <1>1, <1>2, <1>3, <1>4, SearchAnsweredLeft

HoldsAt(q, C, place) == \E m \in DOMAIN q : q[m].members = C /\ Position(q[m]) = place

\* What is due is a chain of the sessions that are searched.
LEMMA DueSought ==
  ASSUME IInv, Buckets, Left, req.at = "lookup" \/ req.at = "scan", NEW C \in SourceDue,
         NEW q, q = Summaries(req.seen, Snapshot(Source), req.cursor.before)
  PROVE  /\ C \in SUBSET DOMAIN Sessions /\ C # {} /\ PlaceIn(Sessions, C) \in Place
         /\ Lower(PlaceIn(Sessions, C), req.cursor.before) => HoldsAt(q, C, PlaceIn(Sessions, C))
         /\ \E i \in C : WantsIn(Sessions, TRUE, i)
         /\ \A i \in C :
              /\ i \in VisibleIn(Sessions, req.seen, Snapshot(Source))
              /\ ChainIn(Sessions, VisibleIn(Sessions, req.seen, Snapshot(Source)), i) = C
<1>1. /\ script \in Scripts /\ SessionsAre(Sessions) /\ Searching
      /\ req.seen \in SUBSET DOMAIN Sessions /\ IsCursor(req.cursor)
      /\ Source \in SUBSET DOMAIN Sessions /\ Snapshot(Source) \in Int
      /\ Follows(Source, req.seen, Snapshot(Source))
      /\ Follows(req.seen, Retained, Snapshot(Source))
  BY SearchIsLeft
<1>2. C \in KeptIn(Sessions, Source, Retained) /\ \E i \in C : WantsIn(Sessions, TRUE, i)
  BY <1>1, ScriptIs DEF SourceDue, Due, SourceKept
<1> PICK V, n : V = Source /\ n = Snapshot(Source)
  OBVIOUS
<1>3. C \subseteq req.seen
  BY <1>2, <1>1 DEF KeptIn, VisibleIn, ChainIn, Follows
<1>4. /\ C \in SUBSET DOMAIN Sessions /\ C # {} /\ PlaceIn(Sessions, C) \in Place
      /\ \A i \in C :
              /\ i \in VisibleIn(Sessions, req.seen, Snapshot(Source))
              /\ ChainIn(Sessions, VisibleIn(Sessions, req.seen, Snapshot(Source)), i) = C
  BY <1>1, <1>2, <1>3, KeptStays
<1>5. req.cursor.before \in PlaceOrNone
  BY <1>1 DEF IsCursor
<1>6. \E i \in C : Sessions[i].meets
  BY <1>2 DEF WantsIn
<1>7. Lower(PlaceIn(Sessions, C), req.cursor.before) =>
              \E m \in DOMAIN q : q[m].members = C /\ Position(q[m]) = PlaceIn(Sessions, C)
  BY <1>1, <1>2, <1>3, <1>5, <1>6, DueFound
<1>8. Lower(PlaceIn(Sessions, C), req.cursor.before) => HoldsAt(q, C, PlaceIn(Sessions, C))
  BY <1>7 DEF HoldsAt
<1> QED BY <1>2, <1>4, <1>8

\* No chain is left, or the one to be searched on has vanished.
LEMMA NothingFoundLeft ==
  ASSUME IInv, Buckets, Left, NothingFound
  PROVE  Left'
<1> DEFINE n == Snapshot(Source)
<1>1. req.at = "lookup"
  BY DEF NothingFound
<1>2. /\ StoreIs /\ script \in Scripts /\ Asks("chains") /\ Searching /\ cursor # Done
      /\ req.rule = rule
      /\ Sought(Sessions, Rules, req) /\ req.seen \in SUBSET DOMAIN Sessions
      /\ IsCursor(req.cursor) /\ req.cursor.snapshot = n /\ n \in Int
      /\ ChainsFound(Sessions, req.seen, n, req.found)
      /\ Source = (IF cursor = First THEN req.seen ELSE view)
      /\ Source \in SUBSET (1 .. persisted)
      /\ SearchLeft(Sessions, SourceKept, SourceDue, Source, Retained, n, req, listed)
  BY <1>1, SearchIsLeft
<1>3. req.cursor # Done /\ req.cursor # First
  BY <1>2 DEF IsCursor, Done, First
<1> HIDE DEF n
<1>4. CASE req.cursor.search # None
  <2>1. /\ req' = [req EXCEPT !.cursor.search = None]
        /\ UNCHANGED <<store, rules, cursor, view, listed>>
    BY <1>4 DEF NothingFound, history
  <2>2. PICK c : c = [req.cursor EXCEPT !.search = None]
    OBVIOUS
  <2>3. c.snapshot = n /\ c.before = req.cursor.before /\ c.search = None /\ c.at = "list"
    BY <1>2, <2>2, CursorFields
  <2>4. PICK q : q = req'
    OBVIOUS
  <2>5. q = [req EXCEPT !.cursor = c]
    BY <2>1, <2>2, <2>4
  <2>6. /\ q.at = "lookup" /\ q.seen = req.seen /\ q.rule = req.rule
        /\ q.cursor = c /\ q.found = req.found /\ q.scanned = req.scanned /\ q.rest = req.rest
    BY <1>1, <1>2, <2>5 DEF Sought
  <2>7. CompleteTo(Sessions, SourceKept, SourceDue, c, listed, req.found)
    BY <2>3, <1>3, <1>2 DEF Done, Passed, CompleteTo, SearchLeft
  <2>8. Budgeted(q)
    BY <1>1, <1>2, <2>6 DEF Budgeted, SearchLeft
  <2>9. PendingLeft(Sessions, TRUE, SourceDue, q.seen, q.cursor)
    BY <2>3, <2>6 DEF PendingLeft
  <2>10. SearchLeft(Sessions, SourceKept, SourceDue, Source, Retained, n, q, listed)
    BY <1>2, <2>3, <2>6, <2>7, <2>8, <2>9 DEF SearchLeft
  <2>11. q # Idle
    BY <2>6 DEF Idle
  <2>12. Source = (IF cursor = First THEN q.seen ELSE view)
    BY <1>2, <2>6
  <2> QED
    BY <1>2, <2>1, <2>4, <2>6, <2>10, <2>11, <2>12, SearchLeftOn DEF SourceKept, SourceDue, n
<1>5. CASE req.cursor.search = None
  <2>1. /\ Summaries(req.seen, req.cursor.snapshot, req.cursor.before) = <<>>
        /\ Answer(req.seen, req.rule, req.sent, req.found, Done)
    BY <1>5 DEF NothingFound
  <2>2. CompleteTo(Sessions, SourceKept, SourceDue, Done, listed, req.found)
    <3>1. CompleteTo(Sessions, SourceKept, SourceDue, req.cursor, listed, req.found)
      BY <1>2 DEF SearchLeft
    <3>2. ASSUME NEW C \in SourceDue
          PROVE  ~Lower(PlaceIn(Sessions, C), req.cursor.before)
      <4>1. PICK q : q = Summaries(req.seen, Snapshot(Source), req.cursor.before)
        OBVIOUS
      <4>2. q = <<>>
        BY <1>2, <2>1, <4>1 DEF n
      <4>3. Lower(PlaceIn(Sessions, C), req.cursor.before) => HoldsAt(q, C, PlaceIn(Sessions, C))
        BY <1>1, <4>1, DueSought
      <4>4. ~HoldsAt(q, C, PlaceIn(Sessions, C))
        BY <4>2 DEF HoldsAt
      <4> QED BY <4>3, <4>4
    <3>3. Passed(Sessions, SourceDue, Done) \subseteq Passed(Sessions, SourceDue, req.cursor)
      BY <1>3, <3>2 DEF Passed
    <3> QED BY <3>1, <3>3 DEF CompleteTo
  <2>3. Done # First
    BY DEF Done, First
  <2>4. \A C \in SourceKept \cap ToSet(MembersOf(req.found)) : \E i \in C : WantsIn(Sessions, TRUE, i)
    BY <1>2, Zenon DEF SearchLeft
  <2> QED BY <1>1, <1>2, <2>1, <2>2, <2>3, <2>4, SearchAnsweredLeft DEF n
<1> QED BY <1>4, <1>5

\* The first candidates of a chain, and what is left behind them.
LEMMA CandidatesLeft ==
  ASSUME script \in Scripts, NEW C \in SUBSET DOMAIN Sessions, NEW size \in Nat, size > 0,
         NEW all, all = InOrder(C), NEW rest, rest = Prefix(all, size)
  PROVE  /\ rest \in Seq(Int) /\ Len(rest) \in Nat /\ Len(rest) <= size
         /\ \A m \in DOMAIN rest : rest[m] \in C
         /\ Ascends(Sessions, rest)
         /\ \A i \in C :
              \/ i \in ToSet(rest)
              \/ /\ Len(all) > size /\ rest # <<>>
                 /\ Precedes(PlaceOf(Sessions, rest[Len(rest)]), PlaceOf(Sessions, i))
<1> DEFINE R == Pairs(Sessions, C)
<1>1. Enumerates(all, R, C)
  BY InOrderIs
<1> HIDE DEF R
<1>2. /\ all \in Seq(C) /\ Len(all) \in Nat /\ DOMAIN all = 1 .. Len(all)
      /\ \A m \in DOMAIN all : all[m] \in C
      /\ \A m, n \in DOMAIN all : m < n => <<all[m], all[n]>> \in R
      /\ \A i \in C : \E m \in DOMAIN all : all[m] = i
  BY <1>1 DEF Enumerates
<1>3. /\ rest \in Seq(C) /\ Len(rest) \in Nat /\ DOMAIN rest = 1 .. Len(rest)
      /\ Len(rest) <= size
      /\ size <= Len(all) => Len(rest) = size
      /\ Len(all) <= size => rest = all
      /\ \A k \in DOMAIN rest : k \in DOMAIN all /\ rest[k] = all[k]
  <2>1. all \in Seq(C) /\ size \in Nat /\ rest = Prefix(all, size)
    BY <1>2
  <2> QED BY ONLY <2>1, PrefixIs
<1>4. C \subseteq Int
  BY ScriptIs DEF SessionsAre
<1>5. rest \in Seq(Int)
  <2> PICK len \in Nat : len = Len(rest)
    BY <1>3, Zenon
  <2>1. rest = [k \in 1 .. len |-> rest[k]] /\ \A k \in 1 .. len : rest[k] \in Int
    BY <1>2, <1>3, <1>4
  <2> QED BY <2>1
<1>6. \A m, n \in DOMAIN all :
        m < n => Precedes(PlaceOf(Sessions, all[m]), PlaceOf(Sessions, all[n]))
  <2>1. \A x, y : <<x, y>> \in R => Precedes(PlaceOf(Sessions, x), PlaceOf(Sessions, y))
    BY DEF R, Pairs, BeforeIn, Precedes, PlaceOf
  <2> QED BY <1>2, <2>1
<1>9. PICK la, lr : la = Len(all) /\ lr = Len(rest)
  BY Zenon
<1>10. /\ la \in Nat /\ lr \in Nat /\ DOMAIN all = 1 .. la /\ DOMAIN rest = 1 .. lr
       /\ lr <= size /\ (size <= la => lr = size) /\ (la <= size => rest = all)
  BY <1>2, <1>3, <1>9, Zenon
<1>7. Ascends(Sessions, rest)
  <2> SUFFICES ASSUME NEW m \in DOMAIN rest, NEW n \in DOMAIN rest, m < n
               PROVE  Precedes(PlaceOf(Sessions, rest[m]), PlaceOf(Sessions, rest[n]))
    BY Zenon DEF Ascends
  <2>1. m \in DOMAIN all /\ n \in DOMAIN all /\ rest[m] = all[m] /\ rest[n] = all[n]
    BY <1>3, Zenon
  <2>2. Precedes(PlaceOf(Sessions, all[m]), PlaceOf(Sessions, all[n]))
    BY <1>6, <2>1
  <2> QED BY <2>1, <2>2
<1>8. ASSUME NEW i \in C, i \notin ToSet(rest)
      PROVE  /\ Len(all) > size /\ rest # <<>>
             /\ Precedes(PlaceOf(Sessions, rest[Len(rest)]), PlaceOf(Sessions, i))
  <2>1. PICK m \in DOMAIN all : all[m] = i
    BY <1>2, Zenon
  <2>2. m \notin DOMAIN rest
    BY <1>3, <1>8, <2>1, Zenon DEF ToSet
  <2>3. m > lr /\ m \in 1 .. la
    BY <1>10, <2>2
  <2>4. la > size
    <3>1. rest # all
      BY <2>2
    <3> QED BY ONLY <1>10, <3>1, size \in Nat
  <2>5. lr = size /\ size \in DOMAIN rest /\ size \in DOMAIN all /\ size < m
    BY ONLY <1>10, <2>3, <2>4, size \in Nat, size > 0
  <2>8. rest[size] = all[size]
    BY <1>3, <2>5, Zenon
  <2>6. Precedes(PlaceOf(Sessions, all[size]), PlaceOf(Sessions, all[m]))
    BY <1>6, <2>5
  <2>7. rest # <<>>
    BY <2>5
  <2> QED BY <1>9, <2>1, <2>4, <2>5, <2>6, <2>7, <2>8
<1> QED BY <1>2, <1>3, <1>5, <1>7, <1>8, Zenon

\* The chain the search goes on with is the next one that is due, or the one
\* that is to be searched on.
LEMMA ChainLeft ==
  ASSUME IInv, Buckets, Left, req.at = "lookup",
         NEW n, n = req.cursor.snapshot, NEW M, M = VisibleIn(Sessions, req.seen, n),
         NEW found, found = Summaries(req.seen, n, req.cursor.before),
         NEW chain,
         chain = IF req.cursor.search # None THEN SummaryOf(req.seen, req.cursor.search.chain, n)
                 ELSE IF found = <<>> THEN None ELSE Head(found),
         chain # None,
         NEW after, after = IF req.cursor.search # None THEN req.cursor.search.after ELSE None
  PROVE  /\ IsSummary(Sessions, M, n, chain)
         /\ \A C \in SourceDue :
              Lower(PlaceIn(Sessions, C), req.cursor.before) =>
                C = chain.members \/ Precedes(PlaceIn(Sessions, C), Position(chain))
         /\ \A i \in chain.members : WantsIn(Sessions, TRUE, i) =>
              after = None \/ Precedes(after, PlaceOf(Sessions, i))
<1>1. /\ script \in Scripts /\ SessionsAre(Sessions)
      /\ req.seen \in SUBSET DOMAIN Sessions /\ IsCursor(req.cursor)
      /\ n = Snapshot(Source) /\ n \in Int
      /\ SearchLeft(Sessions, SourceKept, SourceDue, Source, Retained, Snapshot(Source),
                    req, listed)
  BY SearchIsLeft
<1>2. PendingLeft(Sessions, TRUE, SourceDue, req.seen, req.cursor)
  BY <1>1 DEF SearchLeft
<1>3. M \in SUBSET DOMAIN Sessions
  BY <1>1, SessionSets
<1>4. CASE req.cursor.search # None
  <2> PICK i, C : i = req.cursor.search.chain /\ C = ChainIn(Sessions, M, i)
    OBVIOUS
  <2>1. i \in M /\ chain = SummaryIn(Sessions, C, n)
    BY <1>4, Links DEF SummaryOf
  <2>2. IsSummary(Sessions, M, n, chain)
    BY <2>1 DEF IsSummary
  <2>3. chain.members = C
    BY <2>1 DEF SummaryIn
  <2>4. PlaceIn(Sessions, C) = Position(chain)
    BY <2>2, <2>3, SummaryPlace
  <2>5. /\ \A j \in C : WantsIn(Sessions, TRUE, j) =>
             \/ req.cursor.search.after = None
             \/ Precedes(req.cursor.search.after, PlaceOf(Sessions, j))
        /\ \A D \in SourceDue : Lower(PlaceIn(Sessions, D), req.cursor.before) =>
             D = C \/ Precedes(PlaceIn(Sessions, D), PlaceIn(Sessions, C))
    BY <1>2, <1>4, <2>1 DEF PendingLeft
  <2>6. after = req.cursor.search.after
    BY <1>4
  <2> QED BY <2>2, <2>3, <2>4, <2>5, <2>6
<1>5. CASE req.cursor.search = None
  <2>1. found # <<>> /\ chain = Head(found) /\ after = None
    BY <1>5
  <2>2. /\ found \in Seq(SummariesOf(Sessions))
        /\ \A m \in DOMAIN found : IsSummary(Sessions, M, n, found[m])
        /\ \A k, l \in DOMAIN found :
             k < l => Precedes(Position(found[l]), Position(found[k]))
    BY <1>1, SummariesSorted DEF IsCursor
  <2>3. chain = found[1] /\ 1 \in DOMAIN found /\ DOMAIN found \subseteq Nat \ {0}
    BY <2>1, <2>2, TailOf, LenProperties
  <2>4. ASSUME NEW C \in SourceDue, Lower(PlaceIn(Sessions, C), req.cursor.before),
               C # chain.members
        PROVE  Precedes(PlaceIn(Sessions, C), Position(chain))
    <3>1. found = Summaries(req.seen, Snapshot(Source), req.cursor.before)
      BY <1>1
    <3>2. HoldsAt(found, C, PlaceIn(Sessions, C))
      BY <2>4, <3>1, DueSought
    <3>3. PICK m \in DOMAIN found :
            found[m].members = C /\ Position(found[m]) = PlaceIn(Sessions, C)
      BY <3>2 DEF HoldsAt
    <3>4. 1 < m
      BY <2>3, <2>4, <3>3
    <3> QED BY <2>2, <2>3, <3>3, <3>4
  <2> QED BY <2>1, <2>2, <2>3, <2>4
<1> QED BY <1>4, <1>5

\* The next chain is the highest that is due.
LEMMA LookupLeft ==
  ASSUME IInv, Buckets, Left, Lookup
  PROVE  Left'
<1> DEFINE pending == req.cursor.search
           n == req.cursor.snapshot
           M == VisibleIn(Sessions, req.seen, n)
           found == Summaries(req.seen, n, req.cursor.before)
           chain == IF pending # None THEN SummaryOf(req.seen, pending.chain, n)
                    ELSE IF found = <<>> THEN None ELSE Head(found)
           after == IF pending # None THEN pending.after ELSE None
           C == {i \in MembersAfter(req.seen, chain.id, n, after) : Sessions[i].meets}
           all == InOrder(C)
           rest == Prefix(all, Budget)
           more == Len(all) > Budget
<1>1. /\ req.at = "lookup" /\ chain # None
      /\ req' = [req EXCEPT !.at = "scan", !.chain = chain, !.last = after, !.rest = rest,
                            !.more = more]
      /\ UNCHANGED <<store, rules, cursor, view, listed>>
  BY DEF Lookup, history
<1>2. /\ StoreIs /\ script \in Scripts /\ SessionsAre(Sessions)
      /\ Asks("chains") /\ Searching /\ cursor # Done /\ req.rule = rule
      /\ Sought(Sessions, Rules, req) /\ req.seen \in SUBSET DOMAIN Sessions
      /\ n = Snapshot(Source) /\ n \in Int
      /\ Source = (IF cursor = First THEN req.seen ELSE view)
      /\ Source \in SUBSET (1 .. persisted)
      /\ SearchLeft(Sessions, SourceKept, SourceDue, Source, Retained, Snapshot(Source),
                    req, listed)
  BY <1>1, SearchIsLeft
<1>3. /\ IsSummary(Sessions, M, n, chain)
      /\ \A D \in SourceDue :
           Lower(PlaceIn(Sessions, D), req.cursor.before) =>
             D = chain.members \/ Precedes(PlaceIn(Sessions, D), Position(chain))
      /\ \A i \in chain.members : WantsIn(Sessions, TRUE, i) =>
           after = None \/ Precedes(after, PlaceOf(Sessions, i))
  <2>1. chain # None /\ req.at = "lookup"
    BY <1>1
  <2>2. /\ chain = IF pending # None THEN SummaryOf(req.seen, pending.chain, n)
                   ELSE IF found = <<>> THEN None ELSE Head(found)
        /\ after = IF pending # None THEN pending.after ELSE None
        /\ found = Summaries(req.seen, n, req.cursor.before)
        /\ M = VisibleIn(Sessions, req.seen, n)
    OBVIOUS
  <2> HIDE DEF chain, after, found, M
  <2> QED BY <2>1, <2>2, ChainLeft
<1> HIDE DEF chain, after, found
<1>4. M \in SUBSET DOMAIN Sessions
  BY <1>2, SessionSets
<1>5. C = {i \in chain.members : Sessions[i].meets
                                 /\ (after = None \/ Precedes(after, PlaceOf(Sessions, i)))}
  <2>1. chain.id \in M /\ chain.members \subseteq M
    BY <1>2, <1>3, <1>4, SummaryIs
  <2>2. ChainIn(Sessions, M, chain.id) = chain.members
    BY <1>2, <1>3, <1>4, SummaryChain
  <2>3. MembersAfter(req.seen, chain.id, n, after)
          = {i \in M : i \in ChainIn(Sessions, M, chain.id)
                       /\ (after = None \/ Precedes(after, PlaceOf(Sessions, i)))}
    BY <2>1, Links DEF MembersAfter
  <2> HIDE DEF M
  <2> QED BY <2>1, <2>2, <2>3
<1>6. C \in SUBSET DOMAIN Sessions
  BY <1>2, <1>3, <1>4, <1>5, SummaryIs
<1>7. req.scanned \in Nat /\ req.scanned < MaxCandidates
  BY <1>1, <1>2 DEF SearchLeft, Budgeted
<1>8. Budget \in Nat /\ Budget > 0 /\ req.scanned + Budget <= MaxCandidates
  BY <1>7, BudgetIs
<1> HIDE DEF C, M
<1>9. /\ rest \in Seq(Int) /\ Len(rest) \in Nat /\ Len(rest) <= Budget
      /\ \A m \in DOMAIN rest : rest[m] \in C
      /\ Ascends(Sessions, rest)
      /\ \A i \in C :
           \/ i \in ToSet(rest)
           \/ /\ more /\ rest # <<>>
              /\ Precedes(PlaceOf(Sessions, rest[Len(rest)]), PlaceOf(Sessions, i))
  BY <1>2, <1>6, <1>8, CandidatesLeft
<1> HIDE DEF all, rest, more, n
<1>10. req.scanned + Len(rest) <= MaxCandidates
  BY <1>7, <1>8, <1>9, SizesAssumption
<1>11. PICK q : q = req'
  OBVIOUS
<1>12. /\ q.at = "scan" /\ q.seen = req.seen /\ q.rule = req.rule /\ q.cursor = req.cursor
       /\ q.found = req.found /\ q.scanned = req.scanned /\ q.chain = chain
       /\ q.rest = rest /\ q.last = after /\ q.more = more
  BY <1>1, <1>2, <1>11 DEF Sought
<1>13. Budgeted(q)
  BY <1>7, <1>9, <1>10, <1>12 DEF Budgeted
<1>14. ScanLeft(Sessions, SourceDue, q)
  <2>1. \A m \in DOMAIN rest : rest[m] \in chain.members /\ Sessions[rest[m]].meets
    BY <1>5, <1>9
  <2>2. ASSUME NEW i \in chain.members, WantsIn(Sessions, TRUE, i)
        PROVE  /\ after = None \/ Precedes(after, PlaceOf(Sessions, i))
               /\ \/ i \in ToSet(rest)
                  \/ /\ more /\ rest # <<>>
                     /\ Precedes(PlaceOf(Sessions, rest[Len(rest)]), PlaceOf(Sessions, i))
    BY <1>3, <2>2, <1>5, <1>9 DEF WantsIn
  <2> QED BY <1>3, <1>9, <1>12, <2>1, <2>2 DEF ScanLeft
<1>15. SearchLeft(Sessions, SourceKept, SourceDue, Source, Retained, Snapshot(Source), q, listed)
  BY <1>2, <1>12, <1>13, <1>14 DEF SearchLeft
<1>16. q # Idle
  BY <1>12 DEF Idle
<1>17. Source = (IF cursor = First THEN q.seen ELSE view)
  BY <1>2, <1>12
<1> QED
  BY <1>1, <1>2, <1>11, <1>12, <1>15, <1>16, <1>17, SearchLeftOn DEF SourceKept, SourceDue

\* A search in a chain.
LEMMA ScanIsLeft ==
  ASSUME IInv, Buckets, Left, req.at = "scan"
  PROVE  /\ req.cursor.snapshot = Snapshot(Source) /\ IsCursor(req.cursor)
         /\ CompleteTo(Sessions, SourceKept, SourceDue, req.cursor, listed, req.found)
         /\ ScanLeft(Sessions, SourceDue, req)
         /\ req.chain.members \in SUBSET DOMAIN Sessions
         /\ req.chain.id \in req.chain.members
         /\ ChainIn(Sessions, VisibleIn(Sessions, req.seen, Snapshot(Source)), req.chain.id)
              = req.chain.members
         /\ PlaceIn(Sessions, req.chain.members) = Position(req.chain)
         /\ Position(req.chain) \in Place
         /\ req.chain \in SummariesOf(Sessions)
         /\ IsSummary(Sessions, VisibleIn(Sessions, req.seen, Snapshot(Source)), Snapshot(Source),
                      req.chain)
<1> DEFINE n == Snapshot(Source)
           M == VisibleIn(Sessions, req.seen, n)
<1>1. /\ SessionsAre(Sessions) /\ Sought(Sessions, Rules, req)
      /\ req.seen \in SUBSET DOMAIN Sessions /\ IsCursor(req.cursor)
      /\ req.cursor.snapshot = n /\ n \in Int
      /\ SearchLeft(Sessions, SourceKept, SourceDue, Source, Retained, n, req, listed)
  BY SearchIsLeft
<1> HIDE DEF n
<1>2. /\ CompleteTo(Sessions, SourceKept, SourceDue, req.cursor, listed, req.found)
      /\ ScanLeft(Sessions, SourceDue, req)
  BY <1>1 DEF SearchLeft
<1>3. M \in SUBSET DOMAIN Sessions
  BY <1>1, SessionSets
<1>4. IsSummary(Sessions, M, n, req.chain)
  BY <1>1 DEF Sought
<1> HIDE DEF M
<1>5. /\ req.chain \in SummariesOf(Sessions) /\ req.chain.id \in M
      /\ req.chain.members \subseteq M /\ Position(req.chain) \in Place
  BY <1>1, <1>3, <1>4, SummaryIs
<1>6. ChainIn(Sessions, M, req.chain.id) = req.chain.members
  BY <1>1, <1>3, <1>4, SummaryChain
<1>7. PlaceIn(Sessions, req.chain.members) = Position(req.chain)
  BY <1>4, SummaryPlace
<1>8. req.chain.id \in req.chain.members
  BY <1>5, <1>6, ChainsPartition
<1> QED BY <1>1, <1>2, <1>3, <1>4, <1>5, <1>6, <1>7, <1>8 DEF M, n

\* Below the cursor there is only the chain that is being searched, and what
\* is below it.
LEMMA SettledPasses ==
  ASSUME IInv, Buckets, Left, req.at = "scan",
         NEW c, c.before = Position(req.chain), c # Done
  PROVE  Passed(Sessions, SourceDue, c)
           \subseteq Passed(Sessions, SourceDue, req.cursor) \cup {req.chain.members}
<1>1. /\ ScanLeft(Sessions, SourceDue, req) /\ IsCursor(req.cursor)
      /\ Position(req.chain) \in Place
  BY ScanIsLeft
<1>2. req.cursor # Done
  BY <1>1 DEF IsCursor, Done
<1>3. ASSUME NEW C \in SourceDue, ~Lower(PlaceIn(Sessions, C), Position(req.chain)),
             Lower(PlaceIn(Sessions, C), req.cursor.before)
      PROVE  C = req.chain.members
  BY <1>3, <1>1 DEF Lower, ScanLeft
<1> QED BY <1>2, <1>3 DEF Passed

\* What is wanted of the chain lies behind the saved position.
LEMMA PartialLeft ==
  ASSUME IInv, Buckets, Left, req.at = "scan", NEW last,
         \A i \in req.chain.members : WantsIn(Sessions, TRUE, i) =>
           last = None \/ Precedes(last, PlaceOf(Sessions, i)),
         NEW c, c.snapshot = Snapshot(Source), c.before = req.cursor.before,
         c.search = [chain |-> req.chain.id, after |-> last]
  PROVE  PendingLeft(Sessions, TRUE, SourceDue, req.seen, c)
<1> DEFINE M == VisibleIn(Sessions, req.seen, c.snapshot)
           C == ChainIn(Sessions, M, c.search.chain)
<1>1. /\ ScanLeft(Sessions, SourceDue, req)
      /\ ChainIn(Sessions, VisibleIn(Sessions, req.seen, Snapshot(Source)), req.chain.id)
              = req.chain.members
      /\ PlaceIn(Sessions, req.chain.members) = Position(req.chain)
  BY ScanIsLeft
<1>2. C = req.chain.members
  BY <1>1
<1>3. c.search.after = last
  OBVIOUS
<1>4. \A D \in SourceDue : Lower(PlaceIn(Sessions, D), c.before) =>
        D = C \/ Precedes(PlaceIn(Sessions, D), PlaceIn(Sessions, C))
  BY <1>1, <1>2 DEF ScanLeft
<1>5. \A i \in C : WantsIn(Sessions, TRUE, i) =>
        c.search.after = None \/ Precedes(c.search.after, PlaceOf(Sessions, i))
  BY <1>2, <1>3
<1> HIDE DEF C, M
<1> QED BY <1>4, <1>5 DEF PendingLeft, C, M

\* A search that is interrupted within a chain.
LEMMA ScanInterruptedLeft ==
  ASSUME IInv, Buckets, Left, ScanInterrupted
  PROVE  Left'
<1>1. /\ req.at = "scan"
      /\ Answer(req.seen, req.rule, req.sent, req.found, [req.cursor EXCEPT !.search = Pending])
  BY DEF ScanInterrupted
<1>2. /\ ChainsFound(Sessions, req.seen, Snapshot(Source), req.found)
      /\ SearchLeft(Sessions, SourceKept, SourceDue, Source, Retained, Snapshot(Source),
                    req, listed)
  BY <1>1, SearchIsLeft
<1>3. /\ req.cursor.snapshot = Snapshot(Source) /\ IsCursor(req.cursor)
      /\ CompleteTo(Sessions, SourceKept, SourceDue, req.cursor, listed, req.found)
      /\ ScanLeft(Sessions, SourceDue, req)
  BY <1>1, ScanIsLeft
<1>4. \A C \in SourceKept \cap ToSet(MembersOf(req.found)) : \E i \in C : WantsIn(Sessions, TRUE, i)
  BY <1>2 DEF SearchLeft
<1>5. PICK next : next = [req.cursor EXCEPT !.search = Pending]
  OBVIOUS
<1>6. /\ next.at = "list" /\ next.snapshot = Snapshot(Source)
      /\ next.before = req.cursor.before /\ next.search = Pending
  <2>1. PICK t : t = Pending
    OBVIOUS
  <2> QED BY <1>3, <1>5, <2>1, CursorFields
<1>7. next # First /\ next # Done /\ req.cursor # Done
  BY <1>3, <1>6 DEF First, Done, IsCursor
<1>8. next.search = [chain |-> req.chain.id, after |-> req.last]
  BY <1>6 DEF Pending
<1>9. \A i \in req.chain.members : WantsIn(Sessions, TRUE, i) =>
        req.last = None \/ Precedes(req.last, PlaceOf(Sessions, i))
  BY <1>3 DEF ScanLeft
<1>10. PendingLeft(Sessions, TRUE, SourceDue, req.seen, next)
  BY <1>1, <1>6, <1>8, <1>9, PartialLeft
<1>11. CompleteTo(Sessions, SourceKept, SourceDue, next, listed, req.found)
  BY <1>6, <1>7, <1>3 DEF Passed, CompleteTo
<1>12. Answer(req.seen, req.rule, req.sent, req.found, next)
  BY <1>1, <1>5
<1> QED BY <1>1, <1>2, <1>4, <1>6, <1>7, <1>10, <1>11, <1>12, SearchAnsweredLeft

\* What has been found when a chain has been settled.
LEMMA FoundLeft ==
  ASSUME IInv, Buckets, Left, req.at = "scan",
         \E i \in req.chain.members : WantsIn(Sessions, TRUE, i),
         NEW found, found = Append(req.found, req.chain)
  PROVE  /\ ChainsFound(Sessions, req.seen, Snapshot(Source), found)
         /\ \A C : C \in ToSet(MembersOf(found))
              <=> C \in ToSet(MembersOf(req.found)) \/ C = req.chain.members
         /\ \A C \in SourceKept \cap ToSet(MembersOf(found)) : \E i \in C : WantsIn(Sessions, TRUE, i)
<1>1. /\ ChainsFound(Sessions, req.seen, Snapshot(Source), req.found)
      /\ SearchLeft(Sessions, SourceKept, SourceDue, Source, Retained, Snapshot(Source),
                    req, listed)
  BY SearchIsLeft
<1>2. /\ req.chain \in SummariesOf(Sessions)
      /\ IsSummary(Sessions, VisibleIn(Sessions, req.seen, Snapshot(Source)), Snapshot(Source),
                   req.chain)
  BY ScanIsLeft
<1>3. req.found \in Seq(SummariesOf(Sessions))
  BY <1>1 DEF ChainsFound
<1>4. /\ found \in Seq(SummariesOf(Sessions)) /\ DOMAIN found = 1 .. Len(req.found) + 1
      /\ DOMAIN req.found = 1 .. Len(req.found) /\ Len(req.found) \in Nat
      /\ \A i \in DOMAIN req.found : found[i] = req.found[i]
      /\ found[Len(req.found) + 1] = req.chain
  BY <1>2, <1>3, AppendedIs
<1>5. /\ \A i \in DOMAIN found : i \in DOMAIN req.found \/ i = Len(req.found) + 1
      /\ DOMAIN req.found \subseteq DOMAIN found /\ Len(req.found) + 1 \in DOMAIN found
  BY <1>4
<1>6. ChainsFound(Sessions, req.seen, Snapshot(Source), found)
  BY <1>1, <1>2, <1>4, <1>5 DEF ChainsFound
<1>7. ASSUME NEW C
      PROVE  C \in ToSet(MembersOf(found))
               <=> C \in ToSet(MembersOf(req.found)) \/ C = req.chain.members
  <2>1. C \in ToSet(MembersOf(found)) <=> \E m \in DOMAIN found : C = found[m].members
    BY MembersFound
  <2>2. C \in ToSet(MembersOf(req.found)) <=> \E m \in DOMAIN req.found : C = req.found[m].members
    BY MembersFound
  <2> QED BY <1>4, <1>5, <2>1, <2>2
<1>8. \A C \in SourceKept \cap ToSet(MembersOf(req.found)) : \E i \in C : WantsIn(Sessions, TRUE, i)
  BY <1>1 DEF SearchLeft
<1> QED BY <1>6, <1>7, <1>8

\* A chain in which the text was found, or nothing is left, is behind the
\* cursor; otherwise the search goes on in it.
LEMMA ChainSettledLeft ==
  ASSUME IInv, Buckets, Left, req.at = "scan", NEW hit, NEW last,
         NEW scanned \in Nat, scanned <= MaxCandidates,
         hit => \E i \in req.chain.members : WantsIn(Sessions, TRUE, i),
         ~hit => \A i \in req.chain.members : WantsIn(Sessions, TRUE, i) =>
                   req.more /\ (last = None \/ Precedes(last, PlaceOf(Sessions, i))),
         ChainSettled(hit, last, scanned)
  PROVE  Left'
<1> DEFINE settled == [req.cursor EXCEPT !.before = Position(req.chain), !.search = None]
           partial == [req.cursor EXCEPT !.search = [chain |-> req.chain.id, after |-> last]]
           next == IF hit \/ ~req.more THEN settled ELSE partial
           found == IF hit THEN Append(req.found, req.chain) ELSE req.found
<1>1. IF Len(found) = Limit \/ scanned = MaxCandidates
      THEN Answer(req.seen, req.rule, req.sent, found, next)
      ELSE /\ req' = [req EXCEPT !.at = "lookup", !.cursor = next, !.found = found,
                                 !.scanned = scanned, !.chain = None, !.rest = <<>>,
                                 !.last = None, !.more = FALSE]
           /\ UNCHANGED <<store, rules, cursor, view, listed>>
  BY DEF ChainSettled, history
<1>2. /\ req.cursor.snapshot = Snapshot(Source) /\ IsCursor(req.cursor)
      /\ CompleteTo(Sessions, SourceKept, SourceDue, req.cursor, listed, req.found)
      /\ req.chain.members \in SUBSET DOMAIN Sessions
  BY ScanIsLeft
<1>3. /\ ChainsFound(Sessions, req.seen, Snapshot(Source), req.found)
      /\ StoreIs /\ Asks("chains") /\ Searching /\ cursor # Done /\ req.rule = rule
      /\ Sought(Sessions, Rules, req)
      /\ Source = (IF cursor = First THEN req.seen ELSE view)
      /\ Source \in SUBSET (1 .. persisted)
      /\ Snapshot(Source) \in Int
      /\ SearchLeft(Sessions, SourceKept, SourceDue, Source, Retained, Snapshot(Source),
                    req, listed)
  BY SearchIsLeft
<1>4. /\ settled.at = "list" /\ settled.snapshot = Snapshot(Source)
      /\ settled.before = Position(req.chain) /\ settled.search = None
  <2>1. PICK p : p = Position(req.chain)
    OBVIOUS
  <2>2. settled = [req.cursor EXCEPT !.before = p, !.search = None]
    BY <2>1
  <2> HIDE DEF settled
  <2> QED BY <1>2, <2>1, <2>2, CursorFields
<1>5. /\ partial.at = "list" /\ partial.snapshot = Snapshot(Source)
      /\ partial.before = req.cursor.before
      /\ partial.search = [chain |-> req.chain.id, after |-> last]
  <2>1. PICK t : t = [chain |-> req.chain.id, after |-> last]
    OBVIOUS
  <2>2. partial = [req.cursor EXCEPT !.search = t]
    BY <2>1
  <2> HIDE DEF partial
  <2> QED BY <1>2, <2>1, <2>2, CursorFields
<1> HIDE DEF settled, partial
<1>6. next.at = "list" /\ next.snapshot = Snapshot(Source)
  BY <1>4, <1>5
<1>7. next # Done /\ next # First /\ req.cursor # Done
  <2> HIDE DEF next
  <2> QED BY <1>2, <1>6 DEF Done, First, IsCursor
<1>8. /\ ChainsFound(Sessions, req.seen, Snapshot(Source), found)
      /\ \A C \in SourceKept \cap ToSet(MembersOf(found)) : \E i \in C : WantsIn(Sessions, TRUE, i)
      /\ ToSet(MembersOf(req.found)) \subseteq ToSet(MembersOf(found))
      /\ hit => req.chain.members \in ToSet(MembersOf(found))
  <2>1. CASE hit
    <3>1. found = Append(req.found, req.chain)
      BY <2>1
    <3> HIDE DEF found
    <3>2. \E i \in req.chain.members : WantsIn(Sessions, TRUE, i)
      BY <2>1
    <3>3. /\ ChainsFound(Sessions, req.seen, Snapshot(Source), found)
          /\ \A C : C \in ToSet(MembersOf(found))
              <=> C \in ToSet(MembersOf(req.found)) \/ C = req.chain.members
          /\ \A C \in SourceKept \cap ToSet(MembersOf(found)) :
               \E i \in C : WantsIn(Sessions, TRUE, i)
      BY <3>1, <3>2, FoundLeft
    <3> QED BY <3>3
  <2>2. CASE ~hit
    <3>1. found = req.found
      BY <2>2
    <3> HIDE DEF found
    <3>2. \A C \in SourceKept \cap ToSet(MembersOf(req.found)) :
            \E i \in C : WantsIn(Sessions, TRUE, i)
      BY <1>3 DEF SearchLeft
    <3> QED BY <1>3, <2>2, <3>1, <3>2
  <2> QED BY <2>1, <2>2
<1> HIDE DEF found
<1>9. CompleteTo(Sessions, SourceKept, SourceDue, next, listed, found)
  <2>1. CASE hit \/ ~req.more
    <3>1. next.before = Position(req.chain)
      BY <1>4, <2>1
    <3> HIDE DEF next
    <3>2. Passed(Sessions, SourceDue, next)
            \subseteq Passed(Sessions, SourceDue, req.cursor) \cup {req.chain.members}
      BY <1>7, <3>1, SettledPasses
    <3>3. hit \/ req.chain.members \notin SourceDue
      <4>1. CASE ~hit
        BY <2>1, <4>1, <1>3, ScriptIs DEF StoreIs, SourceDue, Due
      <4> QED BY <4>1
    <3>4. Passed(Sessions, SourceDue, next) \subseteq SourceDue
      BY <1>7 DEF Passed
    <3> QED BY <1>2, <1>8, <3>2, <3>3, <3>4 DEF CompleteTo
  <2>2. CASE ~(hit \/ ~req.more)
    <3>1. next.before = req.cursor.before
      BY <1>5, <2>2
    <3> HIDE DEF next
    <3>2. Passed(Sessions, SourceDue, next) = Passed(Sessions, SourceDue, req.cursor)
      BY <1>7, <3>1 DEF Passed
    <3> QED BY <1>2, <1>8, <3>2 DEF CompleteTo
  <2> QED BY <2>1, <2>2
<1>10. PendingLeft(Sessions, TRUE, SourceDue, req.seen, next)
  <2>1. CASE hit \/ ~req.more
    <3>1. next.search = None
      BY <1>4, <2>1
    <3> HIDE DEF next
    <3> QED BY <3>1 DEF PendingLeft
  <2>2. CASE ~(hit \/ ~req.more)
    <3>1. /\ next.snapshot = Snapshot(Source) /\ next.before = req.cursor.before
          /\ next.search = [chain |-> req.chain.id, after |-> last]
      BY <1>5, <2>2
    <3>2. \A i \in req.chain.members : WantsIn(Sessions, TRUE, i) =>
            last = None \/ Precedes(last, PlaceOf(Sessions, i))
      BY <2>2
    <3> HIDE DEF next
    <3> QED BY <3>1, <3>2, PartialLeft
  <2> QED BY <2>1, <2>2
<1> HIDE DEF next
<1>11. CASE Len(found) = Limit \/ scanned = MaxCandidates
  BY <1>1, <1>11, <1>6, <1>7, <1>8, <1>9, <1>10, SearchAnsweredLeft
<1>12. CASE ~(Len(found) = Limit \/ scanned = MaxCandidates)
  <2>1. PICK q : q = req'
    OBVIOUS
  <2>2. /\ q = [req EXCEPT !.at = "lookup", !.cursor = next, !.found = found,
                           !.scanned = scanned, !.chain = None, !.rest = <<>>,
                           !.last = None, !.more = FALSE]
        /\ UNCHANGED <<store, rules, cursor, view, listed>>
    BY <1>1, <1>12, <2>1
  <2>3. /\ q.at = "lookup" /\ q.seen = req.seen /\ q.rule = req.rule
        /\ q.cursor = next /\ q.found = found /\ q.scanned = scanned /\ q.rest = <<>>
    BY <1>3, <2>2 DEF Sought
  <2>4. Budgeted(q)
    BY <1>12, SizesAssumption, <2>3 DEF Budgeted
  <2>5. SearchLeft(Sessions, SourceKept, SourceDue, Source, Retained, Snapshot(Source), q, listed)
    BY <1>3, <1>6, <1>8, <1>9, <1>10, <2>3, <2>4 DEF SearchLeft
  <2>6. q # Idle
    BY <2>3 DEF Idle
  <2>7. Source = (IF cursor = First THEN q.seen ELSE view)
    BY <1>3, <2>3
  <2>8. UNCHANGED <<store, rules, cursor, view, listed>>
    BY <2>2
  <2>9. /\ req' # Idle /\ req'.rule = rule
        /\ Source = (IF cursor = First THEN req'.seen ELSE view)
        /\ SearchLeft(Sessions, SourceKept, SourceDue, Source, Retained, Snapshot(Source),
                      req', listed)
    BY <1>3, <2>1, <2>3, <2>5, <2>6, <2>7
  <2>10. StoreIs /\ Asks("chains") /\ Searching /\ cursor # Done /\ Source \in SUBSET (1 .. persisted)
    BY <1>3
  <2> QED BY ONLY Left, <2>8, <2>9, <2>10, SearchLeftOn DEF SourceKept, SourceDue
<1> QED BY <1>11, <1>12

\* Nothing is left of the chain.
LEMMA ScanNothingLeft ==
  ASSUME IInv, Buckets, Left, ScanNothing
  PROVE  Left'
<1>1. req.at = "scan" /\ req.rest = <<>> /\ ChainSettled(FALSE, req.last, req.scanned)
  BY DEF ScanNothing
<1>2. ScanLeft(Sessions, SourceDue, req)
  BY <1>1, ScanIsLeft
<1>3. SearchLeft(Sessions, SourceKept, SourceDue, Source, Retained, Snapshot(Source), req, listed)
  BY <1>1, SearchIsLeft
<1>4. req.scanned \in Nat /\ req.scanned + Len(req.rest) <= MaxCandidates
  BY <1>1, <1>3 DEF SearchLeft, Budgeted
<1>5. req.scanned <= MaxCandidates
  BY <1>1, <1>4, SizesAssumption
<1>6. \A i \in req.chain.members : ~WantsIn(Sessions, TRUE, i)
  <2>1. ToSet(req.rest) = {}
    BY <1>1 DEF ToSet
  <2> QED BY <1>1, <1>2, <2>1 DEF ScanLeft
<1> QED BY <1>1, <1>4, <1>5, <1>6, ChainSettledLeft

\* One candidate was read.
LEMMA ScanGoesOnLeft ==
  ASSUME IInv, Buckets, Left, Scan
  PROVE  Left'
<1> DEFINE i == Head(req.rest)
           p == PositionOf(i)
           rest == Tail(req.rest)
<1>1. /\ req.at = "scan" /\ req.rest # <<>>
      /\ IF Sessions[i].hits \/ Len(req.rest) = 1
         THEN ChainSettled(Sessions[i].hits, p, req.scanned + 1)
         ELSE /\ req' = [req EXCEPT !.rest = rest, !.scanned = @ + 1, !.last = p]
              /\ UNCHANGED <<store, rules, cursor, view, listed>>
  BY DEF Scan, history
<1>2. ScanLeft(Sessions, SourceDue, req)
  BY <1>1, ScanIsLeft
<1>3. /\ StoreIs /\ Asks("chains") /\ Searching /\ cursor # Done /\ req.rule = rule
      /\ Sought(Sessions, Rules, req)
      /\ Source = (IF cursor = First THEN req.seen ELSE view)
      /\ Source \in SUBSET (1 .. persisted)
      /\ SearchLeft(Sessions, SourceKept, SourceDue, Source, Retained, Snapshot(Source),
                    req, listed)
  BY <1>1, SearchIsLeft
<1>4. req.scanned \in Nat /\ req.rest \in Seq(Int) /\ req.scanned + Len(req.rest) <= MaxCandidates
  BY <1>1, <1>3 DEF SearchLeft, Budgeted
<1> PICK len : len = Len(req.rest)
  OBVIOUS
<1>5. /\ rest \in Seq(Int) /\ Len(rest) = len - 1 /\ Len(rest) \in Nat
      /\ len \in Nat \ {0} /\ i = req.rest[1]
      /\ DOMAIN req.rest = 1 .. len /\ DOMAIN rest = 1 .. (len - 1)
      /\ \A k \in DOMAIN rest : rest[k] = req.rest[k + 1]
  <2>1. /\ rest \in Seq(Int) /\ Len(rest) = len - 1
        /\ len \in Nat \ {0} /\ i = req.rest[1]
        /\ \A k \in DOMAIN rest : k + 1 \in DOMAIN req.rest /\ rest[k] = req.rest[k + 1]
    BY <1>1, <1>4, TailOf, ZenonT(20)
  <2>2. DOMAIN req.rest = 1 .. len /\ DOMAIN rest = 1 .. Len(rest) /\ Len(rest) \in Nat
    BY <1>4, <2>1, LenProperties
  <2> QED BY <2>1, <2>2
<1>6. p = PlaceOf(Sessions, i)
  BY Links
<1> HIDE DEF i, p, rest
<1>7. /\ i \in req.chain.members /\ Sessions[i].meets
      /\ \A k \in DOMAIN req.rest :
           k = 1 \/ Precedes(p, PlaceOf(Sessions, req.rest[k]))
  BY <1>5, <1>2, <1>6 DEF ScanLeft, Ascends
<1>8. \A j \in req.chain.members : PlaceOf(Sessions, j) \in Place
  BY <1>1, ScanIsLeft, <1>3, ScriptIs DEF StoreIs, PlaceOf, Place, SessionsAre
\* What is wanted behind i.
<1>9. ASSUME ~Sessions[i].hits, NEW j \in req.chain.members, WantsIn(Sessions, TRUE, j)
      PROVE  /\ Precedes(p, PlaceOf(Sessions, j))
             /\ \/ j \in ToSet(rest)
                \/ req.more /\ Precedes(PlaceOf(Sessions, req.rest[len]), PlaceOf(Sessions, j))
  <2>1. j # i
    BY <1>9 DEF WantsIn
  <2>2. CASE j \in ToSet(req.rest)
    <3>1. PICK k \in DOMAIN req.rest : req.rest[k] = j
      BY <2>2 DEF ToSet
    <3>2. k # 1
      BY <1>5, <2>1, <3>1
    <3>3. k - 1 \in DOMAIN rest /\ rest[k - 1] = req.rest[k]
      BY <1>5, <3>2, SMTT(30)
    <3> QED BY <1>7, <3>1, <3>2, <3>3 DEF ToSet
  <2>3. CASE j \notin ToSet(req.rest)
    <3>1. req.more /\ Precedes(PlaceOf(Sessions, req.rest[len]), PlaceOf(Sessions, j))
      BY <1>2, <1>9, <2>3 DEF ScanLeft
    <3>2. len \in DOMAIN req.rest
      BY <1>5
    <3>3. len = 1 \/ Precedes(p, PlaceOf(Sessions, req.rest[len]))
      BY <1>7, <3>2
    <3>4. req.rest[len] \in req.chain.members
      BY <1>2, <3>2 DEF ScanLeft
    <3>5. p \in Place /\ PlaceOf(Sessions, req.rest[len]) \in Place /\ PlaceOf(Sessions, j) \in Place
      BY <1>6, <1>7, <1>8, <3>4
    <3>6. Precedes(p, PlaceOf(Sessions, j))
      BY <1>5, <1>6, <3>1, <3>3, <3>5, PrecedesOrders
    <3> QED BY <3>1, <3>6
  <2> QED BY <2>2, <2>3
<1>10. CASE Sessions[i].hits \/ Len(req.rest) = 1
  <2>1. PICK hit : hit = Sessions[i].hits
    OBVIOUS
  <2>2. ChainSettled(hit, p, req.scanned + 1)
    BY <1>1, <1>10, <2>1
  <2>3. req.scanned + 1 \in Nat /\ req.scanned + 1 <= MaxCandidates
    BY <1>4, <1>5, SizesAssumption
  <2>4. hit => \E j \in req.chain.members : WantsIn(Sessions, TRUE, j)
    BY <1>7, <2>1 DEF WantsIn
  <2>5. ASSUME ~hit, NEW j \in req.chain.members, WantsIn(Sessions, TRUE, j)
        PROVE  req.more /\ (p = None \/ Precedes(p, PlaceOf(Sessions, j)))
    <3>1. ~Sessions[i].hits /\ len = 1
      BY <1>10, <2>1, <2>5
    <3>2. j \notin ToSet(rest)
      BY <1>5, <3>1 DEF ToSet
    <3> QED BY <1>9, <2>5, <3>1, <3>2
  <2> QED BY <1>1, <2>2, <2>3, <2>4, <2>5, ChainSettledLeft
<1>11. CASE ~(Sessions[i].hits \/ Len(req.rest) = 1)
  <2>1. PICK q : q = req'
    OBVIOUS
  <2>2. /\ q = [req EXCEPT !.rest = rest, !.scanned = @ + 1, !.last = p]
        /\ UNCHANGED <<store, rules, cursor, view, listed>>
    BY <1>1, <1>11, <2>1
  <2>3. /\ q.at = "scan" /\ q.seen = req.seen /\ q.rule = req.rule /\ q.cursor = req.cursor
        /\ q.found = req.found /\ q.chain = req.chain /\ q.more = req.more
        /\ q.rest = rest /\ q.last = p /\ q.scanned = req.scanned + 1
    BY <1>1, <1>3, <2>2 DEF Sought
  <2>4. Budgeted(q)
    BY <1>4, <1>5, SizesAssumption, <2>3 DEF Budgeted
  <2>5. len > 1
    <3>1. Len(req.rest) # 1
      BY <1>11
    <3>2. len # 1
      BY <3>1
    <3> QED BY ONLY <1>5, <3>2
  <2>6. rest # <<>> /\ Len(rest) \in DOMAIN rest /\ rest[Len(rest)] = req.rest[len]
    <3>1. len - 1 \in DOMAIN rest /\ (len - 1) + 1 = len
      BY <1>5, <2>5
    <3> QED BY <1>5, <3>1, SMTT(30)
  <2>7. Ascends(Sessions, rest)
    <3> SUFFICES ASSUME NEW k \in DOMAIN rest, NEW l \in DOMAIN rest, k < l
                 PROVE  Precedes(PlaceOf(Sessions, rest[k]), PlaceOf(Sessions, rest[l]))
      BY DEF Ascends
    <3>2. \A m \in DOMAIN rest :
            m \in Int /\ m + 1 \in DOMAIN req.rest /\ rest[m] = req.rest[m + 1]
      BY ONLY <1>5, SMTT(30)
    <3>1. /\ k + 1 < l + 1 /\ k + 1 \in DOMAIN req.rest /\ rest[k] = req.rest[k + 1]
          /\ l + 1 \in DOMAIN req.rest /\ rest[l] = req.rest[l + 1]
      BY <3>2
    <3> QED BY <1>2, <3>1 DEF ScanLeft, Ascends
  <2>8. \A m \in DOMAIN rest : rest[m] \in req.chain.members /\ Sessions[rest[m]].meets
    <3>1. \A m \in DOMAIN rest : m + 1 \in DOMAIN req.rest /\ rest[m] = req.rest[m + 1]
      BY <1>5
    <3> QED BY <1>2, <3>1 DEF ScanLeft
  <2>9. \A j \in req.chain.members : WantsIn(Sessions, TRUE, j) =>
          /\ p = None \/ Precedes(p, PlaceOf(Sessions, j))
          /\ \/ j \in ToSet(rest)
             \/ req.more /\ rest # <<>> /\ Precedes(PlaceOf(Sessions, rest[Len(rest)]), PlaceOf(Sessions, j))
    BY <1>9, <1>11, <2>6
  <2>10. ScanLeft(Sessions, SourceDue, q)
    BY <1>2, <2>3, <2>7, <2>8, <2>9 DEF ScanLeft
  <2>11. SearchLeft(Sessions, SourceKept, SourceDue, Source, Retained, Snapshot(Source), q, listed)
    BY <1>3, <2>3, <2>4, <2>10 DEF SearchLeft
  <2>12. /\ req' # Idle /\ req'.rule = rule
         /\ Source = (IF cursor = First THEN req'.seen ELSE view)
         /\ SearchLeft(Sessions, SourceKept, SourceDue, Source, Retained, Snapshot(Source),
                       req', listed)
    BY <1>3, <2>1, <2>3, <2>11 DEF Idle
  <2>13. /\ UNCHANGED <<store, rules, cursor, view, listed>>
         /\ StoreIs /\ Asks("chains") /\ Searching /\ cursor # Done
         /\ Source \in SUBSET (1 .. persisted)
    BY <1>3, <2>2
  <2> QED BY ONLY Left, <2>12, <2>13, SearchLeftOn DEF SourceKept, SourceDue
<1> QED BY <1>10, <1>11

-----------------------------------------------------------------------------
(* The members of a chain. *)

\* What is listed upwards is the enumeration of it.
LEMMA AscendingIs ==
  ASSUME script \in Scripts, NEW L \in Seq(DOMAIN Sessions), Ascends(Sessions, L),
         NEW C \in SUBSET DOMAIN Sessions, ToSet(L) = C
  PROVE  L = InOrder(C)
<1>1. Enumerates(InOrder(C), Pairs(Sessions, C), C)
  BY InOrderIs
<1>2. SessionsAre(Sessions)
  BY ScriptIs
<1>3. Orders(Pairs(Sessions, C), C)
  BY <1>2, PairsOrder
<1>4. Enumerates(L, Pairs(Sessions, C), C)
  <2>1. PICK len \in Nat : len = Len(L) /\ DOMAIN L = 1 .. len
    BY LenProperties
  <2>2. \A m \in DOMAIN L : L[m] \in C
    BY DEF ToSet
  <2>3. L \in Seq(C)
    <3>1. L = [m \in 1 .. len |-> L[m]]
      BY <2>1
    <3>2. \A m \in 1 .. len : L[m] \in C
      BY <2>1, <2>2
    <3> QED BY ONLY len \in Nat, <3>1, <3>2
  <2>4. \A x \in C : \E m \in DOMAIN L : L[m] = x
    BY DEF ToSet
  <2>5. \A i, j \in C : Precedes(PlaceOf(Sessions, i), PlaceOf(Sessions, j)) <=> BeforeIn(Sessions, i, j)
    BY DEF Precedes, PlaceOf, BeforeIn
  <2>6. ASSUME NEW m \in DOMAIN L, NEW n \in DOMAIN L, m < n
        PROVE  BeforeIn(Sessions, L[m], L[n])
    BY <2>2, <2>5, <2>6 DEF Ascends
  <2>7. ASSUME NEW m \in DOMAIN L, NEW n \in DOMAIN L, BeforeIn(Sessions, L[m], L[n])
        PROVE  m < n
    <3>1. ~BeforeIn(Sessions, L[n], L[m]) /\ L[m] # L[n]
      BY <1>2, <2>2, <2>7, BeforeOrders
    <3>2. ~(n < m) /\ n # m
      BY <2>6, <3>1
    <3>3. m \in Nat /\ n \in Nat
      BY <2>1
    <3> QED BY ONLY <3>2, <3>3
  <2>8. \A m, n \in DOMAIN L : m < n <=> <<L[m], L[n]>> \in Pairs(Sessions, C)
    BY <2>2, <2>6, <2>7 DEF Pairs
  <2> QED BY <2>1, <2>2, <2>3, <2>4, <2>8 DEF Enumerates
<1> QED BY <1>1, <1>3, <1>4, EnumeratedOnce

\* A page of the members that follow a position, and what is listed up to it.
LEMMA MembersListed ==
  ASSUME script \in Scripts, NEW C \in SUBSET DOMAIN Sessions, NEW after \in PlaceOrNone,
         NEW L \in Seq(DOMAIN Sessions),
         ToSet(L) = IF after = None THEN {} ELSE MembersTo(Sessions, C, after),
         NEW rest, rest = InOrder({i \in C : after = None \/ Precedes(after, PlaceOf(Sessions, i))}),
         NEW rows, rows = Prefix(rest, Limit)
  PROVE  /\ Len(rest) \in Nat
         /\ Len(rest) <= Limit => ToSet(L \o rows) = C
         /\ ~(Len(rest) <= Limit) =>
              ToSet(L \o rows) = MembersTo(Sessions, C, PlaceOf(Sessions, rest[Limit]))
<1> DEFINE D == {i \in C : after = None \/ Precedes(after, PlaceOf(Sessions, i))}
           Low == C \ D
<1>1. SessionsAre(Sessions) /\ C \subseteq Int /\ \A i \in C : PlaceOf(Sessions, i) \in Place
  BY ScriptIs DEF SessionsAre, PlaceOf, Place
<1>2. D \in SUBSET DOMAIN Sessions
  OBVIOUS
<1>3. ToSet(L) = Low
  <2>1. CASE after = None
    BY <2>1
  <2>2. CASE after # None
    <3>1. after # Done
      <4>1. after \in Place
        BY <2>2 DEF PlaceOrNone
      <4>2. \A p \in Place : p # Done
        <5> SUFFICES ASSUME NEW p \in Place, p = Done
                     PROVE  FALSE
          OBVIOUS
        <5>1. "start" \in DOMAIN p /\ DOMAIN p = {"at"}
          BY DEF Place, Done
        <5> QED BY <5>1
      <4> QED BY <4>1, <4>2
    <3> QED BY <2>2, <3>1 DEF MembersTo
  <2> QED BY <2>1, <2>2
<1> PICK limit \in Nat : limit = Limit /\ limit > 0
  BY SizesAssumption
<1> HIDE DEF D
<1>4. /\ rows \in Seq(Int) /\ Len(rows) \in Nat /\ Len(rows) <= limit
      /\ \A m \in DOMAIN rows : rows[m] \in D
      /\ Ascends(Sessions, rows)
      /\ \A i \in D :
           \/ i \in ToSet(rows)
           \/ /\ Len(rest) > limit /\ rows # <<>>
              /\ Precedes(PlaceOf(Sessions, rows[Len(rows)]), PlaceOf(Sessions, i))
  BY <1>2, CandidatesLeft DEF D
<1>5. /\ Len(rest) \in Nat /\ DOMAIN rows = 1 .. Len(rows)
      /\ limit <= Len(rest) => Len(rows) = limit
      /\ \A k \in DOMAIN rows : rows[k] = rest[k]
  <2>1. Enumerates(rest, Pairs(Sessions, D), D)
    BY <1>2, InOrderIs DEF D
  <2>2. rest \in Seq(D) /\ Len(rest) \in Nat
    BY <2>1 DEF Enumerates
  <2>3. rows = Prefix(rest, limit)
    OBVIOUS
  <2> QED BY ONLY limit \in Nat, <2>2, <2>3, PrefixIs
<1> PICK r, w : r = Len(rest) /\ w = Len(rows)
  OBVIOUS
<1>10. /\ r \in Nat /\ w \in Nat /\ DOMAIN rows = 1 .. w /\ w <= limit
       /\ limit <= r => w = limit
       /\ limit \in Nat /\ limit > 0
  BY <1>4, <1>5
<1>6. \A x : x \in ToSet(L \o rows) <=> x \in ToSet(L) \/ x \in ToSet(rows)
  <2>1. L \in Seq(Int)
    <3>1. DOMAIN Sessions \subseteq Int
      BY <1>1 DEF SessionsAre
    <3>2. PICK len \in Nat : len = Len(L) /\ DOMAIN L = 1 .. len
      BY LenProperties
    <3>3. L = [m \in 1 .. len |-> L[m]] /\ \A m \in 1 .. len : L[m] \in Int
      BY <3>1, <3>2, ElementOfSeq
    <3> QED BY ONLY len \in Nat, <3>3
  <2> QED BY <1>4, <2>1, ToSetConcat
<1>7. ToSet(rows) \subseteq D
  BY <1>4 DEF ToSet
<1>8. ASSUME Len(rest) <= Limit
      PROVE  ToSet(L \o rows) = C
  <2>1. ~(Len(rest) > limit)
    <3>1. r <= limit
      BY <1>8
    <3>2. ~(r > limit)
      BY ONLY <1>10, <3>1
    <3> QED BY <3>2
  <2>2. D \subseteq ToSet(rows)
    BY <1>4, <2>1
  <2>3. D \subseteq C
    BY DEF D
  <2> QED BY <1>3, <1>6, <1>7, <2>2, <2>3
<1>9. ASSUME ~(Len(rest) <= Limit)
      PROVE  ToSet(L \o rows) = MembersTo(Sessions, C, PlaceOf(Sessions, rest[Limit]))
  <2> DEFINE p == PlaceOf(Sessions, rest[Limit])
  <2>1. Len(rows) = limit /\ limit \in DOMAIN rows /\ rows[limit] = rest[limit]
    <3>1. ~(r <= limit)
      BY <1>9
    <3>2. w = limit /\ limit \in DOMAIN rows
      BY ONLY <1>10, <3>1
    <3> QED BY <1>5, <3>2
  <2>2. rest[Limit] \in D /\ p = PlaceOf(Sessions, rows[limit])
    BY <1>4, <2>1
  <2>3. p \in Place /\ (after = None \/ Precedes(after, p))
    BY <1>1, <2>2 DEF D
  <2>4. p # Done
    BY <2>3 DEF Place, Done
  <2> HIDE DEF p
  <2>5. \A i \in ToSet(rows) : ~Precedes(p, PlaceOf(Sessions, i))
    <3> SUFFICES ASSUME NEW m \in DOMAIN rows
                 PROVE  ~Precedes(p, PlaceOf(Sessions, rows[m]))
      BY DEF ToSet
    <3>1. m = limit \/ m < limit
      BY ONLY <1>10, m \in DOMAIN rows
    <3>2. m = limit \/ Precedes(PlaceOf(Sessions, rows[m]), p)
      BY <1>4, <2>1, <2>2, <3>1 DEF Ascends
    <3>3. PlaceOf(Sessions, rows[m]) \in Place
      BY <1>1, <1>4 DEF D
    <3> QED BY <2>2, <2>3, <3>2, <3>3, PrecedesOrders
  <2>6. \A i \in Low : ~Precedes(p, PlaceOf(Sessions, i))
    <3> SUFFICES ASSUME NEW i \in Low, Precedes(p, PlaceOf(Sessions, i))
                 PROVE  FALSE
      OBVIOUS
    <3>1. after # None /\ ~Precedes(after, PlaceOf(Sessions, i)) /\ PlaceOf(Sessions, i) \in Place
      BY <1>1 DEF D
    <3>2. after \in Place /\ Precedes(after, p)
      BY <2>3, <3>1 DEF PlaceOrNone
    <3> QED BY <2>3, <3>1, <3>2, PrecedesOrders
  <2>7. \A i \in D : i \in ToSet(rows) \/ Precedes(p, PlaceOf(Sessions, i))
    BY <1>4, <2>1, <2>2
  <2>8. \A i : i \in MembersTo(Sessions, C, p) <=> i \in C /\ ~Precedes(p, PlaceOf(Sessions, i))
    BY <2>4 DEF MembersTo
  <2>9. \A i \in C : i \in D \/ i \in Low
    OBVIOUS
  <2>10. D \subseteq C /\ Low \subseteq C
    BY DEF D
  <2> HIDE DEF Low
  <2>11. \A x : x \in ToSet(L \o rows) <=> x \in MembersTo(Sessions, C, p)
    BY <1>3, <1>6, <1>7, <2>5, <2>6, <2>7, <2>8, <2>9, <2>10
  <2> QED BY <2>11 DEF p, MembersTo
<1> QED BY <1>5, <1>8, <1>9

\* A page of members.
LEMMA MemberPageLeft ==
  ASSUME IInv, Left, script.early <= persisted, MemberPage
  PROVE  Left'
<1> DEFINE sent == SentMembers
           anchor == script.asks.anchor
           after == sent.after
           n == sent.snapshot
           rest == InOrder(MembersAfter(Retained, anchor, n, after))
           rows == Prefix(rest, Limit)
           gone == SummaryOf(Retained, anchor, n) = None
           further == [sent EXCEPT !.after = PositionOf(rest[Limit])]
           next == IF gone \/ Len(rest) <= Limit THEN Done ELSE further
           M == VisibleIn(Sessions, Retained, n)
           W == IF cursor = First THEN M ELSE view
           C == IF anchor \in W THEN ChainIn(Sessions, W, anchor) ELSE {}
<1>1. /\ Asks("members") /\ cursor # Done
      /\ listed' = listed \o rows /\ cursor' = next /\ req' = req /\ UNCHANGED <<store, rules>>
      /\ view' = W
  BY Links DEF MemberPage
<1>2. ~Asks("chains") /\ ~Asks("sessions")
  BY <1>1 DEF Asks
<1>3. StoreIs /\ Listings
  BY <1>2, ListsRows
<1>4. /\ MembersAre(Sessions, cursor, listed) /\ listed \in Seq(DOMAIN Sessions)
  BY <1>1, <1>3 DEF Listings, MembersIs, MembersAre
<1>5. /\ script \in Scripts /\ SessionsAre(Sessions) /\ Retained \in SUBSET DOMAIN Sessions
      /\ persisted \in Nat /\ Retained \subseteq 1 .. persisted
  BY <1>3, RetainedIs DEF StoreIs
<1>6. /\ view \in SUBSET (1 .. persisted) /\ MembersLeft
  BY DEF Left
<1>7. /\ sent = [at |-> "members", snapshot |-> n, after |-> after]
      /\ n \in 0 .. persisted /\ after \in PlaceOrNone
      /\ M = W \cap Retained
      /\ cursor = First => after = None /\ listed = <<>>
      /\ cursor # First => after # None /\ after = cursor.after
  <2>1. CASE cursor = First
    <3> DEFINE top == IF script.asks.pinned THEN script.early ELSE Snapshot(Retained)
    <3>1. top \in 0 .. persisted
      BY <1>3, SnapshotIs, <1>5, ScriptIs
    <3> HIDE DEF top
    <3>2. sent = [at |-> "members", after |-> None, snapshot |-> top]
      BY <2>1 DEF SentMembers, top
    <3>3. listed = <<>>
      BY <1>1, <1>6, <2>1 DEF MembersLeft
    <3>4. M = W \cap Retained
      BY <2>1 DEF VisibleIn
    <3> HIDE DEF sent, M, W
    <3> QED BY <2>1, <3>1, <3>2, <3>3, <3>4 DEF PlaceOrNone
  <2>2. CASE cursor # First
    <3>1. sent = cursor
      BY <2>2 DEF SentMembers
    <3>2. /\ cursor \in [at : {"members"}, snapshot : Int, after : Place]
      BY <1>1, <1>4, <2>2 DEF MembersAre
    <3>3. /\ cursor.snapshot \in 0 .. persisted
          /\ VisibleIn(Sessions, Retained, cursor.snapshot) = view \cap Retained
      BY <1>1, <1>6, <2>2 DEF MembersLeft
    <3>4. M = W \cap Retained
      BY <2>2, <3>1, <3>3
    <3> HIDE DEF sent, M, W
    <3>5. after \in Place /\ None \notin Place
      BY <3>1, <3>2, NoneIsNone
    <3> QED BY <2>2, <3>1, <3>2, <3>3, <3>4, <3>5 DEF PlaceOrNone
  <2> QED BY <2>1, <2>2
<1>8. /\ M \in SUBSET DOMAIN Sessions /\ M \subseteq 1 .. persisted
      /\ W \in SUBSET DOMAIN Sessions /\ W \subseteq 1 .. persisted
      /\ M \in SUBSET W
  BY <1>3, <1>5, <1>6, <1>7 DEF VisibleIn, SessionsAre, StoreIs
\* The members after the position.
<1>9. MembersAfter(Retained, anchor, n, after)
        = {i \in M : /\ anchor \in M /\ i \in ChainIn(Sessions, M, anchor)
                     /\ after = None \/ Precedes(after, PlaceOf(Sessions, i))}
  <2> PICK c, a : c = n /\ a = after
    OBVIOUS
  <2>1. MembersAfter(Retained, anchor, c, a)
        = {i \in VisibleIn(Sessions, Retained, c) :
             /\ anchor \in VisibleIn(Sessions, Retained, c)
             /\ i \in ChainIn(Sessions, VisibleIn(Sessions, Retained, c), anchor)
             /\ a = None \/ Precedes(a, PlaceOf(Sessions, i))}
    BY Links DEF MembersAfter
  <2> QED BY <2>1
<1>10. gone <=> anchor \notin M
  <2>1. SummaryOf(Retained, anchor, n)
          = IF anchor \in M THEN SummaryIn(Sessions, ChainIn(Sessions, M, anchor), n) ELSE None
    BY Links DEF SummaryOf
  <2>2. anchor \in M => SummaryIn(Sessions, ChainIn(Sessions, M, anchor), n) # None
    <3>1. n \in Int
      BY <1>5, <1>7
    <3> HIDE DEF M, n
    <3> QED BY <1>5, <1>8, <3>1, NoneIsNone
  <2> HIDE DEF M
  <2> QED BY <2>1, <2>2
<1> HIDE DEF sent, after, n, M, W, gone
<1>11. ASSUME C \subseteq Retained
       PROVE  /\ ToSet(listed \o rows) = MembersTo(Sessions, C, IF next = Done THEN Done ELSE next.after)
  <2>1. C \subseteq M
    BY ChainsPartition, <1>7, <1>11
  <2>2. ToSet(listed) = IF after = None THEN {} ELSE MembersTo(Sessions, C, after)
    <3>1. CASE cursor = First
      BY <1>7, <3>1 DEF ToSet
    <3>2. CASE cursor # First
      BY <3>2, <1>1, <1>6, <1>11, <1>7 DEF W, MembersLeft
    <3> QED BY <3>1, <3>2
  <2>3. anchor \in M => ChainIn(Sessions, M, anchor) = C
    <3> SUFFICES ASSUME anchor \in M
                 PROVE  ChainIn(Sessions, M, anchor) = C
      OBVIOUS
    <3>1. anchor \in W /\ C = ChainIn(Sessions, W, anchor)
      BY <1>8
    <3> QED BY <1>5, <1>8, <2>1, <3>1, ChainKept
  <2>4. anchor \notin M => C = {}
    BY ChainsPartition, <2>1
  <2>5. MembersAfter(Retained, anchor, n, after)
          = {i \in C : after = None \/ Precedes(after, PlaceOf(Sessions, i))}
    <3> HIDE DEF C
    <3> QED BY <1>9, <2>1, <2>3, <2>4
  <2>6. C \in SUBSET DOMAIN Sessions
    BY <1>8, <2>1
  <2> PICK D : D = C
    OBVIOUS
  <2>7. /\ Len(rest) \in Nat
        /\ Len(rest) <= Limit => ToSet(listed \o rows) = D
        /\ ~(Len(rest) <= Limit) =>
             ToSet(listed \o rows) = MembersTo(Sessions, D, PlaceOf(Sessions, rest[Limit]))
    <3>1. rest = InOrder({i \in D : after = None \/ Precedes(after, PlaceOf(Sessions, i))})
      BY <2>5
    <3>2. rows = Prefix(rest, Limit)
      OBVIOUS
    <3>3. /\ D \in SUBSET DOMAIN Sessions
          /\ ToSet(listed) = IF after = None THEN {} ELSE MembersTo(Sessions, D, after)
      BY <2>2, <2>6
    <3> HIDE DEF rest, rows, C
    <3> PICK q, p, a, L : q = rest /\ p = rows /\ a = after /\ L = listed
      OBVIOUS
    <3>4. script \in Scripts /\ a \in PlaceOrNone /\ L \in Seq(DOMAIN Sessions)
      BY <1>4, <1>5, <1>7
    <3>5. /\ q = InOrder({i \in D : a = None \/ Precedes(a, PlaceOf(Sessions, i))})
          /\ p = Prefix(q, Limit)
          /\ ToSet(L) = IF a = None THEN {} ELSE MembersTo(Sessions, D, a)
      BY <3>1, <3>2, <3>3
    <3>6. /\ Len(q) \in Nat
          /\ Len(q) <= Limit => ToSet(L \o p) = D
          /\ ~(Len(q) <= Limit) =>
               ToSet(L \o p) = MembersTo(Sessions, D, PlaceOf(Sessions, q[Limit]))
      BY ONLY <3>3, <3>4, <3>5, MembersListed
    <3> QED BY <3>6
  <2> HIDE DEF rest, rows
  <2>8. CASE Len(rest) <= Limit
    BY <2>8, <2>7 DEF MembersTo
  <2>9. CASE ~(Len(rest) <= Limit)
    <3>1. CASE gone
      <4>1. C = {} /\ next = Done
        BY <1>10, <2>4, <3>1
      <4>2. MembersTo(Sessions, {}, PlaceOf(Sessions, rest[Limit])) = {} /\ MembersTo(Sessions, {}, Done) = {}
        BY DEF MembersTo
      <4> HIDE DEF C, next
      <4> QED BY <2>7, <2>9, <4>1, <4>2
    <3>2. CASE ~gone
      <4>1. next = further
        BY <2>9, <3>2
      <4>2. further.after = PlaceOf(Sessions, rest[Limit]) /\ further.at = "members"
        BY <1>7, Links
      <4>3. next # Done
        BY <4>1, <4>2 DEF Done
      <4> HIDE DEF next, further, C
      <4> QED BY <2>7, <2>9, <4>1, <4>2, <4>3
    <3> QED BY <3>1, <3>2
  <2> QED BY <2>8, <2>9
<1>12. next # Done => next.snapshot = n /\ next.at = "members"
  <2>1. further.snapshot = n /\ further.at = "members"
    BY <1>7
  <2> HIDE DEF further
  <2> QED BY <2>1
<1>13. next # First
  BY <1>12 DEF Done, First
<1> HIDE DEF next, rows, rest
<1>14. /\ Sessions' = Sessions /\ Asks("members")' /\ ~Asks("chains")' /\ ~Asks("sessions")'
       /\ Retained' = Retained /\ persisted' = persisted /\ script' = script
  BY <1>1, <1>2, AskedStays DEF store, Retained
<1>15. VisibleIn(Sessions, Retained, n) = W \cap Retained
  BY <1>7 DEF M
<1>16. MembersLeft'
  BY <1>1, <1>7, <1>11, <1>12, <1>13, <1>14, <1>15 DEF MembersLeft
<1>17. ChainsLeft' /\ RowsLeft'
  BY <1>14 DEF ChainsLeft, RowsLeft
<1> QED BY <1>1, <1>8, <1>14, <1>16, <1>17 DEF Left

-----------------------------------------------------------------------------
(* The pages of rows. *)

\* The rows below a position.
LEMMA RowsBelowAre ==
  ASSUME StoreIs, NEW below, NEW i
  PROVE  i \in RowsBelow(below) <=>
           /\ i \in Retained /\ Sessions[i].shown /\ Sessions[i].meets
           /\ below = None \/ i < below.id
<1>1. Retained \subseteq 1 .. persisted /\ persisted \in Nat
  BY RetainedIs
<1>2. \A k \in Retained : k <= persisted
  BY <1>1
<1> QED BY <1>2 DEF RowsBelow, Visible

\* The first rows below a position, and what is left below them.
LEMMA RowsFirst ==
  ASSUME StoreIs, NEW below, NEW size \in Nat, size > 0, NEW rows, rows = Prefix(Rows(below), size)
  PROVE  /\ Len(rows) \in Nat /\ DOMAIN rows = 1 .. Len(rows)
         /\ \A m \in DOMAIN rows : rows[m] \in RowsBelow(below)
         /\ \A i \in RowsBelow(below) :
              i \in ToSet(rows) \/ (Len(rows) = size /\ rows[Len(rows)] > i)
<1> DEFINE S == RowsBelow(below)
           q == Rows(below)
           R == Downwards(S)
<1>1. script \in Scripts /\ Retained \in SUBSET DOMAIN Sessions
  BY RetainedIs DEF StoreIs
<1>2. Enumerates(q, R, S)
  BY <1>1, RowsIs
<1>3. rows = Prefix(q, size)
  OBVIOUS
<1>4. \A x, y : <<x, y>> \in R => x > y
  BY DEF Downwards
<1> HIDE DEF q, R, S
<1>5. /\ q \in Seq(S) /\ Len(q) \in Nat /\ DOMAIN q = 1 .. Len(q)
      /\ \A m \in DOMAIN q : q[m] \in S
      /\ \A m, n \in DOMAIN q : m < n => <<q[m], q[n]>> \in R
      /\ \A i \in S : \E m \in DOMAIN q : q[m] = i
  BY <1>2 DEF Enumerates
<1>6. /\ rows \in Seq(S) /\ Len(rows) \in Nat /\ DOMAIN rows = 1 .. Len(rows)
      /\ Len(rows) <= size
      /\ size <= Len(q) => Len(rows) = size
      /\ Len(q) <= size => rows = q
      /\ \A k \in DOMAIN rows : k \in DOMAIN q /\ rows[k] = q[k]
  BY <1>3, <1>5, PrefixIs
<1>7. PICK la, lr : la = Len(q) /\ lr = Len(rows)
  OBVIOUS
<1>8. /\ la \in Nat /\ lr \in Nat /\ DOMAIN q = 1 .. la /\ DOMAIN rows = 1 .. lr
      /\ lr <= size /\ (size <= la => lr = size) /\ (la <= size => rows = q)
  BY <1>5, <1>6, <1>7, Zenon
<1>9. ASSUME NEW i \in S, i \notin ToSet(rows)
      PROVE  Len(rows) = size /\ rows[Len(rows)] > i
  <2>1. PICK m \in DOMAIN q : q[m] = i
    BY <1>5, Zenon
  <2>2. m \notin DOMAIN rows
    BY <1>6, <1>9, <2>1, Zenon DEF ToSet
  <2>3. m > lr /\ m \in 1 .. la
    BY <1>8, <2>2
  <2>4. la > size
    <3>1. rows # q
      BY <2>2
    <3> QED BY ONLY <1>8, <3>1, size \in Nat
  <2>5. lr = size /\ size \in DOMAIN rows /\ size \in DOMAIN q /\ size < m
    BY ONLY <1>8, <2>3, <2>4, size \in Nat, size > 0
  <2>6. rows[size] = q[size] /\ <<q[size], q[m]>> \in R
    BY <1>5, <1>6, <2>5, Zenon
  <2> QED BY <1>4, <1>7, <2>1, <2>5, <2>6
<1>10. \A m \in DOMAIN rows : rows[m] \in S
  BY <1>5, <1>6, Zenon
<1> QED BY <1>6, <1>9, <1>10, Zenon DEF S

\* More rows are added that leave none out down to a lower position.
LEMMA RowsLowered ==
  ASSUME NEW s, NEW searching, NEW V \in SUBSET Int, NEW below \in Belows \cup {None},
         NEW next, NEW S, NEW L \in Seq(S), NEW A \in Seq(S),
         RowsTo(s, searching, V, below, L),
         \A i \in ToSet(A) \cap V : s[i].shown /\ WantsIn(s, searching, i),
         \A i \in RowsDue(s, searching, V, next) :
           (below = None \/ i < below.id) => i \in ToSet(A)
  PROVE  RowsTo(s, searching, V, next, L \o A)
<1>1. \A i : i \in ToSet(L \o A) <=> i \in ToSet(L) \/ i \in ToSet(A)
  BY ToSetConcat
<1>2. ASSUME NEW i \in RowsDue(s, searching, V, next)
      PROVE  i \in ToSet(L) \/ i \in ToSet(A)
  <2>1. i \in V /\ i \in Int /\ s[i].shown /\ WantsIn(s, searching, i)
    BY DEF RowsDue
  <2>2. CASE below = None \/ i < below.id
    BY <1>2, <2>2
  <2>3. CASE below # None /\ ~(i < below.id)
    BY <2>3, <2>1 DEF Belows, RowsDue, RowsTo
  <2> QED BY <2>2, <2>3
<1> QED BY <1>1, <1>2 DEF RowsTo

\* A step of a request for rows.
LEMMA RowsLeftOn ==
  ASSUME Left, Asks("sessions"), UNCHANGED <<store, rules>>,
         view' \in SUBSET (1 .. persisted), RowsLeft'
  PROVE  Left'
<1>1. Asks("sessions")' /\ ~Asks("chains")' /\ ~Asks("members")' /\ persisted' = persisted
  BY AskedStays DEF store, Asks
<1> QED BY <1>1 DEF Left, ChainsLeft, MembersLeft

\* Absent is not the end of a listing.
LEMMA NoneNotDone == None # Done
BY NoneAssumption DEF Done

\* Nor does a page start a listing anew.
LEMMA BelowNext ==
  ASSUME NEW c, c \in Belows \cup {Done}
  PROVE  c # First
BY DEF Belows, First, Done

\* The page of a listing that searches for nothing.
LEMMA ListSessionsLeft ==
  ASSUME IInv, Left, ListSessions
  PROVE  Left'
<1> DEFINE items == Prefix(Rows(SentBelow), Limit)
           next == IF Len(items) = Limit THEN Below(Last(items)) ELSE Done
           W == IF cursor = First THEN Retained ELSE view
           V == W \cap Retained
<1>1. /\ Asks("sessions") /\ cursor # Done /\ ~Searching
      /\ req' = [at |-> "bucket", found |-> items, next |-> next, sent |-> SentBelow]
      /\ view' = W /\ UNCHANGED <<store, rules, cursor, listed>>
  BY DEF ListSessions, Collected
<1>2. ~Asks("chains")
  BY <1>1 DEF Asks
<1>3. StoreIs /\ Listings
  BY <1>2, ListsRows
<1>4. SentBelow \in Belows \cup {None} /\ DownTo(Sessions, listed, SentBelow)
  BY <1>1, <1>3, SentBelowIs
<1>5. /\ Retained \subseteq 1 .. persisted /\ Retained \in SUBSET Int /\ V \in SUBSET Int
      /\ DOMAIN Sessions \subseteq Int /\ V \subseteq Retained
  BY <1>3, RetainedIs DEF SessionsAre
<1>6. view \in SUBSET (1 .. persisted) /\ RowsLeft
  BY DEF Left
<1>7. W \in SUBSET (1 .. persisted)
  BY <1>5, <1>6
<1>8. Limit \in Nat /\ Limit > 0 /\ Limit # 0
  BY SizesAssumption
<1>9. /\ items \in Seq(DOMAIN Sessions)
      /\ Len(items) \in Nat /\ DOMAIN items = 1 .. Len(items)
      /\ \A m \in DOMAIN items : items[m] \in RowsBelow(SentBelow)
      /\ \A i \in RowsBelow(SentBelow) :
           i \in ToSet(items) \/ (Len(items) = Limit /\ items[Len(items)] > i)
  BY <1>3, <1>8, RowsFirst, RowsPage
<1> HIDE DEF items, V, W
<1>10. ASSUME Bucket = "any"
       PROVE  RowsTo(Sessions, Searching, V, SentBelow, listed)
  <2>1. CASE cursor = First
    BY <2>1, <1>4, NoneNotDone DEF SentBelow, DownTo, RowsTo, RowsDue, ToSet
  <2>2. CASE cursor # First
    BY <2>2, <1>1, <1>6, <1>10 DEF V, W, SentBelow, RowsLeft
  <2> QED BY <2>1, <2>2
<1>11. \A i : WantsIn(Sessions, Searching, i) <=> Sessions[i].meets
  BY <1>1 DEF WantsIn
<1>12. next \in Belows \cup {Done}
       /\ \A i \in Int : Len(items) = Limit /\ items[Len(items)] > i =>
            ~(next = Done \/ (next # None /\ i >= next.id))
  <2>1. CASE Len(items) = Limit
    <3>1. Len(items) \in DOMAIN items
      BY <1>8, <1>9, <2>1
    <3> PICK k : k = items[Len(items)]
      OBVIOUS
    <3>2. k \in Int
      BY <1>5, <1>9, <3>1, RowsBelowAre, <1>3
    <3>3. next = Below(k)
      BY <2>1 DEF Last
    <3>4. next \in Belows /\ next # Done /\ next.id = k
      BY <3>2, <3>3, BelowIs
    <3> HIDE DEF next
    <3> QED BY <3>2, <3>4
  <2>2. CASE Len(items) # Limit
    BY <2>2
  <2> QED BY <2>1, <2>2
<1> HIDE DEF next
<1>13. ASSUME Bucket = "any"
       PROVE  RowsTo(Sessions, Searching, V, next, listed \o items)
  <2>1. \A i \in ToSet(items) \cap V : Sessions[i].shown /\ WantsIn(Sessions, Searching, i)
    <3> SUFFICES ASSUME NEW m \in DOMAIN items
                 PROVE  Sessions[items[m]].shown /\ WantsIn(Sessions, Searching, items[m])
      BY DEF ToSet
    <3>1. items[m] \in RowsBelow(SentBelow)
      BY <1>9
    <3> QED BY <1>3, <1>11, <3>1, RowsBelowAre
  <2>2. ASSUME NEW i \in RowsDue(Sessions, Searching, V, next), SentBelow = None \/ i < SentBelow.id
        PROVE  i \in ToSet(items)
    BY <1>5, <1>3, <1>11, <2>2, RowsBelowAre, <1>9, <1>12 DEF RowsDue
  <2>3. listed \in Seq(DOMAIN Sessions)
    BY <1>4 DEF DownTo
  <2> QED BY <1>4, <1>5, <1>9, <1>10, <1>13, <2>1, <2>2, <2>3, RowsLowered
<1>14. Sessions' = Sessions /\ Bucket' = Bucket /\ Searching' = Searching
       /\ Retained' = Retained /\ cursor' = cursor /\ listed' = listed
  BY <1>1, AskedStays DEF store, Retained
<1>15. view' \cap Retained' = V
  BY <1>1, <1>14 DEF V
<1>16. req'.at = "bucket" /\ req'.next = next /\ req'.found = items
  BY <1>1
<1>17. RowsLeft'
  BY <1>10, <1>13, <1>14, <1>15, <1>16 DEF RowsLeft, SentBelow
<1> QED BY <1>1, <1>7, <1>17, RowsLeftOn

\* A search for rows begins where the last page ended.
LEMMA BeginSessionSearchLeft ==
  ASSUME IInv, Left, BeginSessionSearch
  PROVE  Left'
<1> DEFINE W == IF cursor = First THEN Retained ELSE view
           V == W \cap Retained
<1>1. /\ Asks("sessions") /\ cursor # Done /\ Searching
      /\ req' = [at |-> "rows", found |-> <<>>, below |-> SentBelow, scanned |-> 0, rest |-> <<>>]
      /\ view' = W /\ UNCHANGED <<store, rules, cursor, listed>>
  BY DEF BeginSessionSearch
<1>2. ~Asks("chains")
  BY <1>1 DEF Asks
<1>3. StoreIs /\ Listings
  BY <1>2, ListsRows
<1>4. SentBelow \in Belows \cup {None} /\ DownTo(Sessions, listed, SentBelow)
  BY <1>1, <1>3, SentBelowIs
<1>5. Retained \subseteq 1 .. persisted
  BY <1>3, RetainedIs
<1>6. view \in SUBSET (1 .. persisted) /\ RowsLeft
  BY DEF Left
<1>7. W \in SUBSET (1 .. persisted)
  BY <1>5, <1>6
<1>8. listed \o <<>> = listed
  BY <1>4, ConcatEmptySeq DEF DownTo
<1> HIDE DEF V, W
<1>10. ASSUME Bucket = "any"
       PROVE  RowsTo(Sessions, Searching, V, SentBelow, listed)
  <2>1. CASE cursor = First
    BY <2>1, <1>4, NoneNotDone DEF SentBelow, DownTo, RowsTo, RowsDue, ToSet
  <2>2. CASE cursor # First
    BY <2>2, <1>1, <1>6, <1>10 DEF V, W, SentBelow, RowsLeft
  <2> QED BY <2>1, <2>2
<1>14. Sessions' = Sessions /\ Bucket' = Bucket /\ Searching' = Searching
       /\ Retained' = Retained /\ cursor' = cursor /\ listed' = listed
  BY <1>1, AskedStays DEF store, Retained
<1>15. view' \cap Retained' = V
  BY <1>1, <1>14 DEF V
<1>16. req'.at = "rows" /\ req'.below = SentBelow /\ req'.found = <<>> /\ req'.rest = <<>>
  BY <1>1
<1>17. RestLeft(Sessions, V, req')
  BY <1>16 DEF RestLeft
<1>18. RowsLeft'
  BY <1>1, <1>8, <1>10, <1>14, <1>15, <1>16, <1>17 DEF RowsLeft, SentBelow
<1> QED BY <1>1, <1>7, <1>18, RowsLeftOn

\* What the steps of a search for rows know.
LEMMA RowsLeftIs ==
  ASSUME IInv, Buckets, Left, req.at = "rows" \/ req.at = "bucket"
  PROVE  /\ StoreIs /\ Listings /\ Asks("sessions") /\ cursor # Done
         /\ DOMAIN Sessions \subseteq Int /\ Retained \in SUBSET Int
         /\ listed \in Seq(DOMAIN Sessions) /\ view \in SUBSET (1 .. persisted) /\ RowsLeft
         /\ req.at = "rows" => RowsReq(Sessions, SentBelow, req, listed)
         /\ req.at = "bucket" => BucketReq(Sessions, SentBelow, req, listed)
<1>1. ~Asks("chains")
  BY DEF Idle, Buckets, Requests, Sought
<1>2. StoreIs /\ Listings
  BY <1>1, ListsRows
<1>3. view \in SUBSET (1 .. persisted) /\ RowsLeft
  BY DEF Left
<1>4. listed \in Seq(DOMAIN Sessions)
  BY <1>2, RowsAsked DEF DownTo
<1> QED BY <1>2, <1>3, <1>4, RowsAsked, RetainedIs

\* The next rows are fetched, or no row is left.
LEMMA FetchRowsLeft ==
  ASSUME IInv, Buckets, Left, FetchRows
  PROVE  Left'
<1> DEFINE rows == Prefix(Rows(req.below), Budget)
           V == view \cap Retained
<1>1. /\ req.at = "rows" /\ req.rest = <<>>
      /\ IF req.scanned = MaxCandidates THEN Collected(req.found, req.below)
         ELSE IF rows = <<>> THEN Collected(req.found, Done)
         ELSE req' = [req EXCEPT !.rest = rows]
      /\ UNCHANGED <<store, rules, cursor, view, listed>>
  BY DEF FetchRows, history
<1>2. /\ StoreIs /\ Asks("sessions") /\ Retained \in SUBSET Int
      /\ listed \in Seq(DOMAIN Sessions) /\ view \in SUBSET (1 .. persisted) /\ RowsLeft
      /\ RowsReq(Sessions, SentBelow, req, listed)
  BY <1>1, RowsLeftIs
<1>3. /\ req \in [at : {"rows"}, found : Seq(DOMAIN Sessions), below : Belows \cup {None},
                  scanned : Nat, rest : Seq(DOMAIN Sessions)]
      /\ req.scanned + Len(req.rest) <= MaxCandidates
      /\ listed \o req.found \in Seq(DOMAIN Sessions)
  BY <1>2 DEF RowsReq, DownTo
<1>4. V \in SUBSET Int /\ V \subseteq Retained
  BY <1>2
<1>5. Sessions' = Sessions /\ Bucket' = Bucket /\ Searching' = Searching
      /\ Retained' = Retained /\ cursor' = cursor /\ listed' = listed /\ view' = view
      /\ SentBelow' = SentBelow /\ view' \cap Retained' = V
  BY <1>1, AskedStays DEF store, Retained, SentBelow
<1>6. Bucket = "any" =>
        /\ Searching
        /\ RowsTo(Sessions, Searching, V, IF cursor = First THEN None ELSE cursor, listed)
        /\ RowsTo(Sessions, Searching, V, req.below, listed \o req.found)
  BY <1>1, <1>2 DEF RowsLeft
<1> HIDE DEF V
<1>7. CASE req.scanned = MaxCandidates
  BY <1>1, <1>7, <1>5, <1>6, <1>2, RowsLeftOn DEF Collected, RowsLeft
<1>8. CASE req.scanned # MaxCandidates
  <2>1. req.scanned < MaxCandidates /\ req.scanned \in Nat
    BY <1>1, <1>3, <1>8, SizesAssumption
  <2>2. Budget \in Nat /\ Budget > 0
    BY <2>1, BudgetIs
  <2>3. /\ Len(rows) \in Nat /\ DOMAIN rows = 1 .. Len(rows)
        /\ \A m \in DOMAIN rows : rows[m] \in RowsBelow(req.below)
        /\ \A i \in RowsBelow(req.below) :
             i \in ToSet(rows) \/ (Len(rows) = Budget /\ rows[Len(rows)] > i)
    BY <1>2, <2>2, RowsFirst
  <2> HIDE DEF rows
  <2>4. CASE rows = <<>>
    <3>1. req' = [at |-> "bucket", found |-> req.found, next |-> Done, sent |-> SentBelow]
      BY <1>1, <1>8, <2>4 DEF Collected
    <3>2. req'.at = "bucket" /\ req'.found = req.found /\ req'.next = Done
      BY <3>1
    <3>3. Bucket = "any" => RowsTo(Sessions, Searching, V, Done, listed \o req.found)
      <4> SUFFICES ASSUME Bucket = "any"
                   PROVE  RowsTo(Sessions, Searching, V, Done, listed \o req.found)
        OBVIOUS
      <4>1. Len(rows) = 0 /\ Len(rows) # Budget /\ ToSet(rows) = {}
        BY <2>2, <2>4 DEF ToSet
      <4>2. RowsBelow(req.below) = {}
        BY <2>3, <4>1
      <4>3. ASSUME NEW i \in RowsDue(Sessions, Searching, V, Done),
                   req.below = None \/ i < req.below.id
            PROVE  FALSE
        BY <1>2, <1>4, <4>3, RowsBelowAre, <4>2 DEF RowsDue, WantsIn
      <4> PICK L, A : L = listed \o req.found /\ A = <<>>
        OBVIOUS
      <4>4. L \in Seq(DOMAIN Sessions) /\ A \in Seq(DOMAIN Sessions) /\ L \o A = L /\ ToSet(A) = {}
        BY <1>3, ConcatEmptySeq DEF ToSet
      <4>5. RowsTo(Sessions, Searching, V, req.below, L)
        BY <1>6
      <4>6. req.below \in Belows \cup {None}
        BY <1>3
      <4>7. RowsTo(Sessions, Searching, V, Done, L \o A)
        BY <1>4, <4>3, <4>4, <4>5, <4>6, RowsLowered
      <4> QED BY <4>4, <4>7
    <3>4. RowsLeft'
      BY <1>5, <1>6, <3>2, <3>3 DEF RowsLeft
    <3> QED BY <1>1, <1>2, <1>5, <3>4, RowsLeftOn
  <2>5. CASE rows # <<>>
    <3>1. req' = [req EXCEPT !.rest = rows]
      BY <1>1, <1>8, <2>5
    <3>2. req'.at = "rows" /\ req'.found = req.found /\ req'.below = req.below /\ req'.rest = rows
      BY <1>3, <3>1
    <3>3. RestLeft(Sessions, V, req')
      <4>1. \A m \in DOMAIN rows : Sessions[rows[m]].shown /\ Sessions[rows[m]].meets
        BY <1>2, <2>3, RowsBelowAre
      <4>2. ASSUME NEW i \in V, Sessions[i].shown, Sessions[i].meets,
                   req.below = None \/ i < req.below.id, i >= rows[Len(rows)]
            PROVE  i \in ToSet(rows)
        <5>1. i \in Retained /\ i \in Int
          BY <1>4
        <5>2. i \in RowsBelow(req.below)
          BY <1>2, <4>2, <5>1, RowsBelowAre
        <5>3. Len(rows) # 0
          BY <2>3, <2>5, EmptySeq
        <5>4. rows[Len(rows)] \in Int
          <6>1. Len(rows) \in DOMAIN rows
            BY <2>3, <5>3
          <6>2. rows[Len(rows)] \in RowsBelow(req.below)
            BY <2>3, <6>1
          <6> QED BY <1>2, <6>2, RowsBelowAre
        <5>5. ~(rows[Len(rows)] > i)
          BY <4>2, <5>1, <5>4
        <5> QED BY <2>3, <5>2, <5>5
      <4> QED BY <3>2, <4>1, <4>2 DEF RestLeft
    <3>4. RowsLeft'
      BY <1>5, <1>6, <3>2, <3>3 DEF RowsLeft
    <3> QED BY <1>1, <1>2, <1>5, <3>4, RowsLeftOn
  <2> QED BY <2>4, <2>5
<1> QED BY <1>7, <1>8

\* The rest of the rows is what lies below the first.
LEMMA RestLowered ==
  ASSUME NEW s, NEW V \in SUBSET Int, NEW q, q.rest \in Seq(Int), q.rest # <<>>,
         Descends(q.rest), q.below \in Belows \cup {None},
         q.below # None => \A m \in DOMAIN q.rest : q.rest[m] < q.below.id,
         RestLeft(s, V, q), NEW i, i = Head(q.rest)
  PROVE  /\ \A p : p.rest = Tail(q.rest) /\ p.below = Below(i) => RestLeft(s, V, p)
         /\ i \in Int /\ s[i].shown /\ s[i].meets
         /\ \A j \in V : /\ s[j].shown /\ s[j].meets
                         /\ q.below = None \/ j < q.below.id
                         /\ j >= i
                         => j = i
<1> PICK r, t : r = q.rest /\ t = Tail(q.rest)
  OBVIOUS
<1> PICK len \in Nat : len = Len(r)
  OBVIOUS
<1>1. /\ r \in Seq(Int) /\ len > 0 /\ DOMAIN r = 1 .. len /\ \A m \in 1 .. len : r[m] \in Int
      /\ t = Tail(r) /\ i = r[1]
      /\ \A m, n \in 1 .. len : m < n => r[m] > r[n]
  BY DEF Descends
<1>2. /\ Len(t) = len - 1 /\ DOMAIN t = 1 .. (len - 1)
      /\ \A m \in 1 .. (len - 1) : t[m] = r[m + 1] /\ m + 1 \in 1 .. len
  BY <1>1, TailOf, LenProperties
<1>3. /\ \A m \in 1 .. len : s[r[m]].shown /\ s[r[m]].meets
      /\ \A j \in V : /\ s[j].shown /\ s[j].meets
                      /\ q.below = None \/ j < q.below.id
                      /\ j >= r[len]
                      => \E m \in 1 .. len : j = r[m]
  BY <1>1 DEF RestLeft, ToSet
<1>4. 1 \in 1 .. len /\ i \in Int /\ r[len] \in Int /\ i >= r[len]
  <2>1. len > 0
    BY <1>1
  <2>2. len = 1 \/ (1 < len /\ len \in 1 .. len)
    BY ONLY <2>1, len \in Nat
  <2>3. 1 \in 1 .. len /\ len \in 1 .. len
    BY ONLY <2>1, len \in Nat
  <2> QED BY <1>1, <2>2, <2>3
<1>5. ASSUME NEW j \in V, s[j].shown, s[j].meets, q.below = None \/ j < q.below.id, j >= i
      PROVE  j = i
  <2>1. j \in Int /\ j >= r[len]
    BY <1>4, <1>5
  <2>2. PICK m \in 1 .. len : j = r[m]
    BY <1>3, <1>5, <2>1
  <2>3. m = 1 \/ r[1] > r[m]
    BY <1>1, <1>4
  <2> QED BY <1>1, <1>4, <1>5, <2>1, <2>2, <2>3
<1>6. \A m \in DOMAIN t : s[t[m]].shown /\ s[t[m]].meets
  BY <1>2, <1>3, ZenonT(60)
<1>7. ASSUME t # <<>>, NEW j \in V, s[j].shown, s[j].meets, j < i, j >= t[Len(t)]
      PROVE  j \in ToSet(t)
  <2>1. len > 1
    BY <1>1, <1>2, <1>7, EmptySeq
  <2>2. t[Len(t)] = r[len]
    BY <1>2, <2>1
  <2>3. q.below = None \/ j < q.below.id
    <3> SUFFICES ASSUME q.below # None
                 PROVE  j < q.below.id
      OBVIOUS
    <3>1. q.below.id \in Int /\ i < q.below.id
      BY <1>1, <1>4 DEF Belows
    <3>2. j \in Int /\ j < i /\ i \in Int
      BY <1>4, <1>7
    <3> PICK b : b = q.below.id
      OBVIOUS
    <3>3. b \in Int /\ i < b
      BY <3>1
    <3>4. j < b
      BY ONLY <3>2, <3>3
    <3> QED BY <3>4
  <2>4. PICK m \in 1 .. len : j = r[m]
    BY <1>3, <1>7, <2>2, <2>3
  <2>5. m # 1
    BY <1>1, <1>4, <1>7, <2>4
  <2>6. m - 1 \in 1 .. (len - 1) /\ j = t[m - 1]
    BY <1>2, <2>4, <2>5, SMTT(30)
  <2> QED BY <1>2, <2>6 DEF ToSet
<1>8. ASSUME NEW p, p.rest = t, p.below = Below(i)
      PROVE  RestLeft(s, V, p)
  BY <1>4, <1>8, BelowIs, <1>6, <1>7 DEF RestLeft
<1> QED BY <1>1, <1>3, <1>4, <1>5, <1>8

\* One row was read.
LEMMA ScanRowLeft ==
  ASSUME IInv, Buckets, Left, ScanRow
  PROVE  Left'
<1> DEFINE i == Head(req.rest)
           hit == i \in Retained /\ Sessions[i].hits
           found == IF hit THEN Append(req.found, i) ELSE req.found
           A == IF hit THEN <<i>> ELSE <<>>
           V == view \cap Retained
<1>1. /\ req.at = "rows" /\ req.rest # <<>>
      /\ IF Len(found) = Limit THEN Collected(found, Below(i))
         ELSE req' = [req EXCEPT !.found = found, !.below = Below(i), !.rest = Tail(req.rest),
                                 !.scanned = @ + 1]
      /\ UNCHANGED <<store, rules, cursor, view, listed>>
  BY DEF ScanRow, history
<1>2. /\ StoreIs /\ Asks("sessions") /\ Retained \in SUBSET Int /\ DOMAIN Sessions \subseteq Int
      /\ listed \in Seq(DOMAIN Sessions) /\ view \in SUBSET (1 .. persisted) /\ RowsLeft
      /\ RowsReq(Sessions, SentBelow, req, listed)
  BY <1>1, RowsLeftIs
<1>3. /\ req \in [at : {"rows"}, found : Seq(DOMAIN Sessions), below : Belows \cup {None},
                  scanned : Nat, rest : Seq(DOMAIN Sessions)]
      /\ listed \o req.found \in Seq(DOMAIN Sessions) /\ Descends(req.rest)
      /\ req.below # None => \A m \in DOMAIN req.rest : req.rest[m] < req.below.id
  BY <1>2 DEF RowsReq, DownTo
<1>4. V \in SUBSET Int /\ V \subseteq Retained
  BY <1>2
<1>5. Sessions' = Sessions /\ Bucket' = Bucket /\ Searching' = Searching
      /\ Retained' = Retained /\ cursor' = cursor /\ listed' = listed /\ view' = view
      /\ SentBelow' = SentBelow /\ view' \cap Retained' = V
  BY <1>1, AskedStays DEF store, Retained, SentBelow
<1>6. Bucket = "any" =>
        /\ Searching
        /\ RowsTo(Sessions, Searching, V, IF cursor = First THEN None ELSE cursor, listed)
        /\ RowsTo(Sessions, Searching, V, req.below, listed \o req.found)
        /\ RestLeft(Sessions, V, req)
  BY <1>1, <1>2 DEF RowsLeft
<1>7. req.rest \in Seq(Int) /\ i \in DOMAIN Sessions /\ req.below \in Belows \cup {None}
  BY <1>1, <1>2, <1>3
<1>8. listed \o found = (listed \o req.found) \o A
  <2>1. CASE hit
    <3>1. found = req.found \o <<i>> /\ A = <<i>>
      BY <1>3, <1>7, <2>1, AppendIsConcat
    <3>2. <<i>> \in Seq(DOMAIN Sessions)
      BY <1>7
    <3> PICK F, B : F = req.found /\ B = <<i>>
      OBVIOUS
    <3>3. F \in Seq(DOMAIN Sessions) /\ B \in Seq(DOMAIN Sessions)
      BY <1>3, <3>2
    <3>4. listed \in Seq(DOMAIN Sessions)
      BY <1>2
    <3>5. (listed \o F) \o B = listed \o (F \o B)
      BY ONLY <3>3, <3>4, Joined
    <3> QED BY <3>1, <3>5
  <2>2. CASE ~hit
    BY <2>2, <1>3, ConcatEmptySeq
  <2> QED BY <2>1, <2>2
<1>9. A \in Seq(DOMAIN Sessions) /\ (\A k : k \in ToSet(A) <=> hit /\ k = i)
  <2>1. <<i>> \in Seq(DOMAIN Sessions) /\ \A k : k \in ToSet(<<i>>) <=> k = i
    BY <1>7 DEF ToSet
  <2>2. \A k : k \notin ToSet(<<>>)
    BY DEF ToSet
  <2>3. (hit => A = <<i>>) /\ (~hit => A = <<>>)
    OBVIOUS
  <2>4. <<>> \in Seq(DOMAIN Sessions)
    OBVIOUS
  <2> HIDE DEF i, hit, A
  <2> QED BY <2>1, <2>2, <2>3, <2>4
<1> HIDE DEF V, A, found
<1>10. ASSUME Bucket = "any"
       PROVE  /\ RowsTo(Sessions, Searching, V, Below(i), listed \o found)
              /\ \A p : p.rest = Tail(req.rest) /\ p.below = Below(i) => RestLeft(Sessions, V, p)
  <2>1. /\ \A p : p.rest = Tail(req.rest) /\ p.below = Below(i) => RestLeft(Sessions, V, p)
        /\ i \in Int /\ Sessions[i].shown /\ Sessions[i].meets
        /\ \A j \in V : /\ Sessions[j].shown /\ Sessions[j].meets
                        /\ req.below = None \/ j < req.below.id
                        /\ j >= i
                        => j = i
    <3>1. /\ V \in SUBSET Int /\ req.rest \in Seq(Int) /\ req.rest # <<>>
          /\ Descends(req.rest) /\ req.below \in Belows \cup {None}
          /\ req.below # None => \A m \in DOMAIN req.rest : req.rest[m] < req.below.id
          /\ RestLeft(Sessions, V, req) /\ i = Head(req.rest)
      BY <1>1, <1>3, <1>4, <1>6, <1>7, <1>10
    <3> HIDE DEF i
    <3> QED BY ONLY <3>1, RestLowered
  <2>2. Below(i) \in Belows /\ Below(i) # Done /\ Below(i).id = i
    BY <2>1, BelowIs
  <2>3. Searching /\ \A j : WantsIn(Sessions, Searching, j) <=> Sessions[j].meets /\ Sessions[j].hits
    BY <1>6, <1>10 DEF WantsIn
  <2>4. \A j \in ToSet(A) \cap V : Sessions[j].shown /\ WantsIn(Sessions, Searching, j)
    BY <1>9, <2>1, <2>3
  <2>5. ASSUME NEW j \in RowsDue(Sessions, Searching, V, Below(i)),
               req.below = None \/ j < req.below.id
        PROVE  j \in ToSet(A)
    BY <2>2, <2>3, <1>4, <2>1, <2>5, <1>9 DEF RowsDue
  <2> HIDE DEF i
  <2> PICK L, b : L = listed \o req.found /\ b = req.below
    OBVIOUS
  <2>6. /\ L \in Seq(DOMAIN Sessions) /\ b \in Belows \cup {None}
        /\ RowsTo(Sessions, Searching, V, b, L)
    BY <1>3, <1>6, <1>10
  <2>7. RowsTo(Sessions, Searching, V, Below(i), L \o A)
    BY <1>4, <1>9, <2>4, <2>5, <2>6, RowsLowered
  <2> QED BY <1>8, <2>1, <2>7
<1>11. CASE Len(found) = Limit
  <2>1. req'.at = "bucket" /\ req'.found = found /\ req'.next = Below(i)
    BY <1>1, <1>11 DEF Collected
  <2> HIDE DEF i
  <2>2. RowsLeft'
    BY <1>5, <1>6, <1>10, <2>1 DEF RowsLeft
  <2> QED BY <1>1, <1>2, <1>5, <2>2, RowsLeftOn
<1>12. CASE Len(found) # Limit
  <2>1. req' = [req EXCEPT !.found = found, !.below = Below(i), !.rest = Tail(req.rest),
                           !.scanned = @ + 1]
    BY <1>1, <1>12
  <2> HIDE DEF i
  <2>2. /\ req'.at = "rows" /\ req'.found = found /\ req'.below = Below(i)
        /\ req'.rest = Tail(req.rest)
    BY <1>3, <2>1
  <2>3. RowsLeft'
    BY <1>5, <1>6, <1>10, <2>2 DEF RowsLeft
  <2> QED BY <1>1, <1>2, <1>5, <2>3, RowsLeftOn
<1> QED BY <1>11, <1>12

\* The rows that were found become the page.
LEMMA BucketSessionsLeft ==
  ASSUME IInv, Buckets, Left, BucketSessions
  PROVE  Left'
<1> DEFINE found == req.found
           anchors == {found[n] : n \in {m \in DOMAIN found :
                                           Applies(rule, Sessions[found[m]].key)}}
           known(i) == IF Bucket = "any" \/ rule = None THEN <<>>
                       ELSE KnownOf(Retained, i, anchors)
           places == {n \in DOMAIN found : Accepts(known(found[n]))}
           A == Picked(found, places)
           next == IF Bucket = "known" /\ rule = None THEN Done ELSE req.next
           V == view \cap Retained
<1>1. /\ req.at = "bucket"
      /\ listed' = listed \o A /\ cursor' = next /\ req' = Idle
      /\ UNCHANGED <<store, rules, view>>
  BY DEF BucketSessions
<1>2. /\ StoreIs /\ Asks("sessions") /\ listed \in Seq(DOMAIN Sessions)
      /\ view \in SUBSET (1 .. persisted) /\ RowsLeft
      /\ BucketReq(Sessions, SentBelow, req, listed)
  BY <1>1, RowsLeftIs
<1>3. found \in Seq(DOMAIN Sessions) /\ req.next \in Belows \cup {Done}
  BY <1>2 DEF BucketReq
<1>4. Bucket = "any" => places = DOMAIN found
  BY DEF Accepts
<1>5. Bucket = "any" => next = req.next
  OBVIOUS
<1> HIDE DEF places, next, anchors
<1>6. ASSUME Bucket = "any"
      PROVE  ToSet(listed \o A) = ToSet(listed \o found)
  <2>1. /\ A \in Seq(DOMAIN Sessions)
        /\ \A k \in places : \E n \in DOMAIN A : A[n] = found[k]
        /\ \A n \in DOMAIN A : \E k \in places : A[n] = found[k]
    <3>1. places \in SUBSET DOMAIN found
      BY <1>4, <1>6
    <3> HIDE DEF found
    <3> QED BY <1>3, <3>1, PickedIs
  <2> HIDE DEF A, found
  <2>2. \A x : x \in ToSet(A) <=> x \in ToSet(found)
    BY <1>4, <1>6, <2>1 DEF ToSet
  <2>3. \A x : x \in ToSet(listed \o A) <=> x \in ToSet(listed) \/ x \in ToSet(A)
    BY <1>2, <2>1, ToSetConcat
  <2>4. \A x : x \in ToSet(listed \o found) <=> x \in ToSet(listed) \/ x \in ToSet(found)
    BY <1>2, <1>3, ToSetConcat
  <2> QED BY <2>2, <2>3, <2>4
<1> HIDE DEF A
<1>7. Sessions' = Sessions /\ Bucket' = Bucket /\ Searching' = Searching
      /\ Retained' = Retained /\ view' = view /\ view' \cap Retained' = V
  BY <1>1, AskedStays DEF store, Retained
<1>8. ASSUME Bucket = "any"
      PROVE  RowsTo(Sessions, Searching, V, next, listed \o A)
  BY <1>1, <1>2, <1>8, <1>5, <1>6 DEF RowsLeft, RowsTo
<1>9. Bucket = "any" => next # First
  BY <1>3, <1>5, BelowNext
<1>10. req'.at = "idle"
  BY <1>1 DEF Idle
<1>11. RowsLeft'
  BY <1>1, <1>7, <1>8, <1>9, <1>10 DEF RowsLeft
<1> QED BY <1>1, <1>2, <1>7, <1>11, RowsLeftOn

-----------------------------------------------------------------------------
(* Nothing is left out on the way, nor at the end. *)

\* No step but an edit leaves anything out ...
LEMMA LeftSteps ==
  ASSUME IInv, Buckets, Left, script.early <= persisted, Next,
         ~(\E r \in script.rules \cup {None} : EditRule(r))
  PROVE  Left'
<1>1. StoreIs
  BY DEF IInv
<1>2. ASSUME Persist
      PROVE  Left'
  BY <1>1, <1>2, PersistStore, StoreLeft DEF Outlives, Follows, Persist, history
<1>3. ASSUME NEW i \in Retained, Expire(i)
      PROVE  Left'
  <2>1. StoreIs' /\ persisted' = persisted /\ Retained' \subseteq Retained /\ persisted \in Nat
    BY <1>1, <1>3, ExpireStore
  <2>2. Follows(Retained, Retained', persisted) /\ persisted <= persisted'
    BY <2>1 DEF Follows
  <2>3. UNCHANGED <<script, rules, cursor, req, view, listed>>
    BY <1>3 DEF Expire, history
  <2> QED BY <1>1, <2>1, <2>2, <2>3, StoreLeft, Zenon
<1>4. ASSUME NEW item, NEW i, GetRuleHighlights(item, i)
      PROVE  Left'
  BY <1>4, NothingLeftOut DEF GetRuleHighlights
<1>5. CASE \/ NothingKnown \/ ListChains \/ BeginSearch \/ Lookup \/ NothingFound
  BY <1>1, <1>5, NothingKnownLeft, ListChainsLeft, BeginSearchLeft, LookupLeft, NothingFoundLeft
<1>6. CASE \/ Scan \/ ScanNothing \/ SearchInterrupted \/ ScanInterrupted \/ SearchFails
           \/ MemberPage
  BY <1>6, ScanGoesOnLeft, ScanNothingLeft, SearchInterruptedLeft, ScanInterruptedLeft,
     SearchFailsLeft, MemberPageLeft
<1>7. CASE \/ ListSessions \/ BeginSessionSearch \/ FetchRows \/ ScanRow \/ BucketSessions
  BY <1>7, ListSessionsLeft, BeginSessionSearchLeft, FetchRowsLeft, ScanRowLeft,
     BucketSessionsLeft
<1> QED BY <1>2, <1>3, <1>4, <1>5, <1>6, <1>7 DEF Next

\* Only EditRule counts as an edit.
LEMMA EditsStay ==
  ASSUME Next, ~(\E r \in script.rules \cup {None} : EditRule(r))
  PROVE  edits' = edits
<1>1. ASSUME NEW i \in Retained, Expire(i)
      PROVE  edits' = edits
  BY <1>1 DEF Expire, rules
<1>2. ASSUME NEW item, NEW i, GetRuleHighlights(item, i)
      PROVE  edits' = edits
  BY <1>2, Zenon DEF GetRuleHighlights, rules
<1>3. CASE Persist \/ NothingKnown \/ ListChains \/ BeginSearch \/ Lookup \/ NothingFound
  BY <1>3, ZenonT(20) DEF Persist, NothingKnown, ListChains, BeginSearch, Lookup, NothingFound, Answer, rules
<1>4. CASE \/ Scan \/ ScanNothing \/ SearchInterrupted \/ ScanInterrupted \/ SearchFails
           \/ MemberPage
  BY <1>4, ZenonT(20) DEF Scan, ScanNothing, SearchInterrupted, ScanInterrupted, SearchFails, MemberPage,
              ChainSettled, Answer, rules
<1>5. CASE \/ ListSessions \/ BeginSessionSearch \/ FetchRows \/ ScanRow \/ BucketSessions
  BY <1>5 DEF ListSessions, BeginSessionSearch, FetchRows, ScanRow, BucketSessions, rules
<1> QED BY <1>1, <1>2, <1>3, <1>4, <1>5 DEF Next

\* ... and after an edit nothing is claimed.
LEMMA CompleteSteps ==
  ASSUME IInv, Buckets, Complete, [Next]_vars
  PROVE  Complete'
<1>1. /\ edits \in Nat /\ script.early <= persisted /\ (edits = 0 => Left)
  BY DEF Complete
<1>2. CASE UNCHANGED vars
  BY <1>2, NothingLeftOut, <1>1 DEF vars, store, rules, Complete
<1>3. ASSUME NEW r, EditRule(r)
      PROVE  Complete'
  BY <1>3, EditLeft
<1>4. CASE Next /\ ~(\E r \in script.rules \cup {None} : EditRule(r))
  <2>1. edits' = edits
    BY <1>4, EditsStay
  <2>2. script'.early <= persisted'
    <3>1. StoreIs /\ script' = script
      BY StoreStepKeeps DEF IInv
    <3>2. script.early \in Int /\ persisted \in Nat
      BY <3>1, ScriptIs DEF StoreIs
    <3>3. persisted' = persisted \/ persisted' = persisted + 1
      <4>1. CASE Persist
        BY <4>1 DEF Persist
      <4>2. ASSUME NEW i \in Retained, Expire(i)
            PROVE  persisted' = persisted
        BY <4>2 DEF Expire
      <4>3. CASE UNCHANGED store
        BY <4>3 DEF store
      <4> QED BY <1>4, <4>1, <4>2, <4>3, StoreSteps
    <3> PICK early : early = script.early
      OBVIOUS
    <3> QED BY <1>1, <3>1, <3>2, <3>3
  <2>3. Left => Left'
    BY <1>1, <1>4, LeftSteps
  <2> QED BY <1>1, <2>1, <2>2, <2>3 DEF Complete
<1> QED BY <1>2, <1>3, <1>4

\* What has stayed since the first page, in the terms of the proof.
LEMMA KeptIs ==
  ASSUME script \in Scripts, view \in SUBSET DOMAIN Sessions
  PROVE  Kept = KeptIn(Sessions, view, Retained)
<1> DEFINE M == VisibleIn(Sessions, view, Snapshot(view))
<1>1. Visible(view, Snapshot(view)) = M
  BY Links
<1>2. M \in SUBSET DOMAIN Sessions
  BY DEF VisibleIn
<1> HIDE DEF M
<1>3. \A i \in M : Correlated(M, i) = ChainIn(Sessions, M, i)
  BY <1>2, ChainsCorrelate
<1>4. {Correlated(M, i) : i \in M} = {ChainIn(Sessions, M, i) : i \in M}
  BY <1>3
<1>5. Kept = {C \in {Correlated(M, i) : i \in M} : C \subseteq Retained}
  BY <1>1 DEF Kept
<1>6. KeptIn(Sessions, view, Retained) = {C \in {ChainIn(Sessions, M, i) : i \in M} : C \subseteq Retained}
  BY DEF KeptIn, M
<1> QED BY <1>4, <1>5, <1>6

\* What the client wants, in the terms of the proof.
LEMMA WantsIs == \A i : Wants(i) <=> WantsIn(Sessions, Searching, i)
BY DEF Wants, WantsIn

\* The chains that are listed at the end are those that are due.
LEMMA ChainsComplete ==
  ASSUME StoreIs, Left, cursor = Done, Asks("chains"), NEW C \in Kept
  PROVE  C \in ToSet(listed) <=>
           /\ \E i \in C : Wants(i)
           /\ Bucket # "any" =>
                (Bucket = "known") =
                  (Applies(rule, Sessions[Min(C)].key) /\ Occurs(rule, EventsIn(C)))
<1> DEFINE K == KeptIn(Sessions, view, Retained)
           G == Due(Sessions, Searching, Bucket, rule, K)
<1>1. cursor # First
  BY DEF First, Done
<1>2. Source = view
  BY <1>1 DEF Source
<1>3. CompleteTo(Sessions, K, G, Done, listed, <<>>)
  BY <1>1, <1>2 DEF Left, ChainsLeft, ListingLeft
<1>4. C \in K
  BY RetainedIs, KeptIs DEF Left, StoreIs, SessionsAre
<1> HIDE DEF K
<1>5. C \in G <=> (\E i \in C : WantsIn(Sessions, Searching, i)) /\ InBucket(Sessions, Bucket, rule, C)
  BY <1>4 DEF Due
<1> HIDE DEF G
<1>6. C \in ToSet(listed) <=> C \in G
  BY <1>3, <1>4, NoneFound DEF CompleteTo, Passed
<1>7. EventsIn(C) = EventsFor(Sessions, C)
  BY ExactLinks
<1> QED BY <1>5, <1>6, <1>7, WantsIs DEF InBucket

\* The rows likewise.
LEMMA RowsComplete ==
  ASSUME Left, cursor = Done, Asks("sessions"), Bucket = "any", NEW i \in view \cap Retained
  PROVE  (Sessions[i].shown /\ Wants(i)) <=> i \in ToSet(listed)
<1> DEFINE V == view \cap Retained
<1>1. cursor # First
  BY DEF First, Done
<1>2. RowsTo(Sessions, Searching, V, Done, listed)
  BY <1>1 DEF Left, RowsLeft
<1> QED BY <1>2, WantsIs DEF RowsTo, RowsDue

\* The members of the chain, in their order.
LEMMA MembersComplete ==
  ASSUME StoreIs, Listings, Left, cursor = Done, Asks("members"),
         NEW C, C = IF script.asks.anchor \in view THEN Correlated(view, script.asks.anchor) ELSE {},
         C \subseteq Retained
  PROVE  listed = InOrder(C)
<1>1. cursor # First
  BY DEF First, Done
<1>2. view \in SUBSET DOMAIN Sessions /\ script \in Scripts
  BY RetainedIs DEF Left, StoreIs, SessionsAre
<1>3. C = IF script.asks.anchor \in view THEN ChainIn(Sessions, view, script.asks.anchor) ELSE {}
  BY <1>2, ChainsCorrelate
<1>4. ToSet(listed) = MembersTo(Sessions, C, Done)
  BY <1>1, <1>3 DEF Left, MembersLeft
<1>5. ToSet(listed) = C
  BY <1>4 DEF MembersTo
<1>6. C \in SUBSET DOMAIN Sessions
  BY <1>2, <1>3, ChainsPartition
<1>7. listed \in Seq(DOMAIN Sessions) /\ Ascends(Sessions, listed)
  BY DEF Listings, MembersIs, MembersAre
<1> QED BY <1>2, <1>5, <1>6, <1>7, AscendingIs

\* The invariant is enough.
LEMMA EverythingIsListed ==
  ASSUME IInv, Complete
  PROVE  ListingComplete
<1> SUFFICES ASSUME cursor = Done, edits = 0
             PROVE  ListingComplete
  BY DEF ListingComplete
<1>1. StoreIs /\ Left
  BY DEF IInv, Complete
<1>2. CASE Asks("chains")
  <2>1. ASSUME NEW C \in Kept
        PROVE  C \in ToSet(listed) <=>
                 /\ \E i \in C : Wants(i)
                 /\ Bucket # "any" =>
                      (Bucket = "known") =
                        (Applies(rule, Sessions[Min(C)].key) /\ Occurs(rule, EventsIn(C)))
    BY <1>1, <1>2, ChainsComplete
  <2>2. ~Asks("sessions") /\ ~Asks("members")
    BY <1>2 DEF Asks
  <2> QED BY <1>2, <2>1, <2>2, ZenonT(30) DEF ListingComplete
<1>3. CASE Asks("sessions")
  <2>1. ~Asks("chains")
    BY <1>3 DEF Asks
  <2>2. ASSUME Bucket = "any", NEW i \in view \cap Retained
        PROVE  (Sessions[i].shown /\ Wants(i)) <=> i \in ToSet(listed)
    BY <1>1, <1>3, <2>2, RowsComplete
  <2>3. ~Asks("members")
    BY <1>3 DEF Asks
  <2> QED BY <1>3, <2>1, <2>2, <2>3, ZenonT(30) DEF ListingComplete
<1>4. CASE Asks("members")
  BY <1>4, ListsRows, <1>1, MembersComplete DEF Asks, ListingComplete
<1> QED BY <1>1, <1>2, <1>3, <1>4, ScriptIs DEF StoreIs, Asks

-----------------------------------------------------------------------------
(* The theorems. *)

\* Whatever is persisted or removed between two requests, and wherever a
\* search is interrupted, the cursor the client holds and what it has listed
\* fit the chains, members or rows that the store still shows: what is listed
\* once lies above the cursor for good (chains.rs, lib.rs).
THEOREM ListingsInvariant == Spec => []IInv
<1>1. Init => IInv
  BY IInvStarts
<1>2. IInv /\ [Next]_vars => IInv'
  BY IInvSteps
<1> QED BY <1>1, <1>2, PTL DEF Spec

\* No session is listed twice: in one chain of a listing at most, in one row
\* of the session list, in one row of a chain's members.  For a searched chain
\* listing when retention removes the lowest ids first (Orderly, which
\* ListedOnce names), and not without it (run chains_cursor_back).
THEOREM EverythingListedOnce == Spec => []ListedOnce
<1>1. IInv => ListedOnce
  BY EachOnce DEF IInv, ListedOnce
<1> QED BY <1>1, ListingsInvariant, PTL

\* Every page that comes with a cursor, an empty one too, has got further down
\* the list or further into the chain that is searched, for any limits and
\* budgets: following the cursors ends.  For a searched chain listing when
\* retention removes the lowest ids first, and not without it (run
\* chains_cursor_back).
THEOREM CursorsAdvance == Spec => []CursorAdvances
<1>1. IInv => CursorAdvances
  BY DEF IInv, Listings, CursorAdvances
<1> QED BY <1>1, ListingsInvariant, PTL

\* The buckets of a page are those of the rule and of the retained sessions of
\* its read: the chain of every row is the one that gaps of at most the window
\* connect, and its bucket is the first explanation of the rule over the
\* transactions of that chain, oldest first.  And a match the page lists is
\* explained until the rule is edited or the session removed, and refused as
\* stale after it (chains.rs, attack_rules.rs, attack_rules/highlights.rs).
THEOREM BucketsExact == Spec => []BucketExact
<1>1. Init => IInv /\ Buckets
  BY IInvStarts, BucketsStart
<1>2. IInv /\ Buckets /\ [Next]_vars => IInv' /\ Buckets'
  BY IInvSteps, BucketsStep
<1>3. IInv /\ Buckets => BucketExact
  BY BucketsAreExact DEF IInv
<1> QED BY <1>1, <1>2, <1>3, PTL DEF Spec

\* What has stayed in the store since the first page is in the listing when
\* its last page has come: every chain with a session that meets the filter
\* and holds the text, in the bucket that was asked for, and no other of the
\* chains that have lost no session; every row; and the members of the chain,
\* all of them in their order.  Late sessions, retention elsewhere, failed
\* requests, budgets and deadlines leave nothing out, and this needs no order
\* of retention.  For as long as the rule is not edited (chains.rs, api.rs).
THEOREM NothingIsMissed == Spec => []ListingComplete
<1>1. Init => IInv /\ Buckets /\ Complete
  BY IInvStarts, BucketsStart, CompleteStarts
<1>2. IInv /\ Buckets /\ Complete /\ [Next]_vars => IInv' /\ Buckets' /\ Complete'
  BY IInvSteps, BucketsStep, CompleteSteps
<1>3. IInv /\ Complete => ListingComplete
  BY EverythingIsListed
<1> QED BY <1>1, <1>2, <1>3, PTL DEF Spec

=============================================================================
