-------------------------- MODULE TcpAssemblerProof --------------------------
(***************************************************************************)
(* What one direction of a reassembled flow promises holds for any modulus *)
(* of the sequence numbers, any stream, any limits and any capture that    *)
(* stays within the window: theorems about the specification of module     *)
(* TcpAssembler.                                                           *)
(***************************************************************************)
EXTENDS TcpAssembler, DataLemmas

Byte == {Stream[p] : p \in Positions} \cup {Forged}

Signed(d) == IF d < Half THEN d ELSE d - Modulus

\* The position that a sequence number names to an assembler whose edge is at
\* position `edge`, and the position behind the last byte of a chunk.
Place(edge, s) == edge + Signed(Distance(SequenceOf(edge), s))
End(edge, s) == Place(edge, s) + Len(pending[s])

\* The byte may be shown at that position.
Right(position, byte) ==
  /\ position \in Positions
  /\ byte = Stream[position] \/ (position \in Alter /\ byte = Forged)

\* The assembler expects the byte at the edge; without an anchor it has
\* nothing, and a direction that failed is not draining.
Anchored ==
  /\ base \in 0..Size \cup {None}
  /\ out \in Seq(Byte)
  /\ base = None => next = None /\ out = <<>> /\ seen = {} /\ pending = <<>> /\ ~draining
  /\ base # None => next = SequenceOf(Edge) /\ Edge <= Size
  /\ draining => ~failed
  /\ failed \in BOOLEAN /\ draining \in BOOLEAN /\ honest \in BOOLEAN
  /\ seen \subseteq Positions

Chunks ==
  /\ pending = [s \in DOMAIN pending |-> pending[s]]
  /\ \A s \in DOMAIN pending : pending[s] \in Seq(Byte) /\ pending[s] # <<>> /\ s \in Sequence

\* Every chunk lies within the window, outside the drain loop ahead of the
\* edge, and holds bytes that were shown where it lies.
Placed(edge) ==
  \A s \in DOMAIN pending :
     /\ Place(edge, s) \in (edge - Window)..(edge + Window)
     /\ End(edge, s) <= edge + Window
     /\ ~draining => Place(edge, s) > edge
     /\ Place(edge, s)..(End(edge, s) - 1) \subseteq seen
     /\ \A i \in DOMAIN pending[s] : Right(Place(edge, s) + i - 1, pending[s][i])

\* No two chunks are further apart than the window: the drain loop may move
\* the edge to the end of one and still tell where the others are.
Spread(edge) ==
  \A s, t \in DOMAIN pending : End(edge, t) - Place(edge, s) <= Window

\* Chunks that share a position hold the same byte there.
Agree(edge) ==
  \A s, t \in DOMAIN pending : \A i \in DOMAIN pending[s], j \in DOMAIN pending[t] :
     Place(edge, s) + i = Place(edge, t) + j => pending[s][i] = pending[t][j]

\* What was handed on was shown at the position it is handed on for.
Handed ==
  base # None => /\ \A i \in DOMAIN out : Right(base + i - 1, out[i])
                 /\ base..(Edge - 1) \subseteq seen

\* Whatever was shown lies behind the edge or in a chunk.
Covered(edge) ==
  ~failed => \A x \in seen : \/ x < edge
                            \/ \E s \in DOMAIN pending :
                                 x \in Place(edge, s)..(End(edge, s) - 1)

\* Nothing that was handed on or is buffered lies behind the FIN.
FinPlace(edge) ==
  finAt # None =>
     \E p \in FinAt : /\ SequenceOf(p) = finAt
                      /\ base # None /\ ~failed => /\ p \in edge..(edge + Window)
                                                  /\ \A s \in DOMAIN pending : End(edge, s) <= p

\* An honest capture leaves only the sender's bytes and its FIN.
Honest(edge) ==
  honest => /\ \A s \in DOMAIN pending : \A i \in DOMAIN pending[s] :
                    pending[s][i] = Stream[Place(edge, s) + i - 1]
            /\ finAt # None => Size \in FinAt /\ finAt = SequenceOf(Size)

Room == /\ IsFiniteSet(DOMAIN pending) /\ Cardinality(DOMAIN pending) <= MaxPending
        /\ pendingBytes \in Int

AsmInv ==
  /\ Anchored /\ Chunks /\ Placed(Edge) /\ Spread(Edge) /\ Agree(Edge) /\ Handed
  /\ Covered(Edge) /\ FinPlace(Edge) /\ Honest(Edge) /\ Room

-----------------------------------------------------------------------------
(* Sequence numbers: arithmetic modulo a modulus that is not a constant.   *)

LEMMA Sizes ==
  /\ Modulus \in Nat /\ Half \in Nat /\ Half > 0 /\ Modulus = Half + Half
  /\ Window \in Nat /\ SegmentMax <= Window /\ Window < Half /\ First \in Int /\ Size \in Nat /\ SegmentMax \in Nat
  /\ Limit \in Nat /\ MaxPending \in Nat
BY ModulusAssumption, StreamAssumption, BoundsAssumption, WindowAssumption DEF Sequence

LEMMA Division ==
  ASSUME NEW a \in Int
  PROVE  /\ a \div Modulus \in Int /\ a % Modulus \in 0 .. (Modulus - 1)
         /\ a = (Modulus * (a \div Modulus)) + (a % Modulus)
BY ModulusAssumption

\* Quotient and remainder are unique.
LEMMA Cancel ==
  ASSUME NEW a \in Int, NEW b \in Int, Modulus * a < (Modulus * b) + Modulus
  PROVE  a <= b
BY ModulusAssumption

LEMMA OneDivision ==
  ASSUME NEW k \in Int, NEW l \in Int, NEW r \in 0 .. (Modulus - 1), NEW s \in 0 .. (Modulus - 1),
         (Modulus * k) + r = (Modulus * l) + s
  PROVE  k = l /\ r = s
<1>1. Modulus * k \in Int /\ Modulus * l \in Int
  BY ModulusAssumption
<1>2. Modulus * k < (Modulus * l) + Modulus /\ Modulus * l < (Modulus * k) + Modulus
  BY <1>1, ModulusAssumption
<1>3. k <= l /\ l <= k
  BY <1>2, Cancel
<1>4. k = l
  BY <1>3
<1> QED
  BY <1>1, <1>4

LEMMA Remainder ==
  ASSUME NEW a \in Int, NEW k \in Int, NEW r \in 0 .. (Modulus - 1), a = (Modulus * k) + r
  PROVE  a % Modulus = r
BY Division, OneDivision, ModulusAssumption

\* Multiples of the modulus do not matter.
LEMMA Turn ==
  ASSUME NEW a \in Int, NEW k \in Int
  PROVE  (a + (Modulus * k)) % Modulus = a % Modulus
<1> DEFINE q == a \div Modulus
<1>1. q \in Int /\ a = (Modulus * q) + (a % Modulus) /\ a % Modulus \in 0 .. (Modulus - 1)
  BY Division
<1>2. Modulus * (q + k) = (Modulus * q) + (Modulus * k) /\ Modulus * q \in Int /\ Modulus * k \in Int
  BY <1>1, ModulusAssumption
<1> HIDE DEF q
<1>3. a + (Modulus * k) = (Modulus * (q + k)) + (a % Modulus)
  BY <1>1, <1>2
<1>4. a + (Modulus * k) \in Int /\ q + k \in Int
  BY <1>1, <1>2
<1> QED
  BY <1>1, <1>3, <1>4, Remainder

LEMMA Turns ==
  ASSUME NEW a \in Int
  PROVE  \E k \in Int : a % Modulus = a + (Modulus * k) /\ Modulus * k \in Int
<1> DEFINE q == a \div Modulus
<1>1. q \in Int /\ a = (Modulus * q) + (a % Modulus) /\ a % Modulus \in Int
  BY Division, ModulusAssumption
<1> HIDE DEF q
<1>0. Modulus \in Int
  BY ModulusAssumption
<1>2. Modulus * (0 - q) = 0 - (Modulus * q) /\ Modulus * q \in Int /\ 0 - q \in Int
  BY <1>0, <1>1
<1>3. a % Modulus = a + (Modulus * (0 - q)) /\ Modulus * (0 - q) \in Int
  BY <1>1, <1>2
<1> QED
  BY <1>2, <1>3

LEMMA Difference ==
  ASSUME NEW a \in Int, NEW b \in Int
  PROVE  ((a % Modulus) - (b % Modulus)) % Modulus = (a - b) % Modulus
<1>1. PICK k \in Int : a % Modulus = a + (Modulus * k) /\ Modulus * k \in Int
  BY Turns
<1>2. PICK l \in Int : b % Modulus = b + (Modulus * l) /\ Modulus * l \in Int
  BY Turns
<1>3. Modulus * (k - l) = (Modulus * k) - (Modulus * l)
  BY ModulusAssumption
<1>4. (a % Modulus) - (b % Modulus) = (a - b) + (Modulus * (k - l))
  BY <1>1, <1>2, <1>3
<1> QED
  BY <1>4, Turn

LEMMA SequenceIs ==
  ASSUME NEW p \in Int
  PROVE  SequenceOf(p) \in Sequence /\ SequenceOf(p) \in Int /\ SequenceOf(p) # None
<1>1. First + p \in Int
  BY Sizes
<1>2. SequenceOf(p) \in 0 .. (Modulus - 1)
  BY <1>1, Division DEF SequenceOf
<1> QED
  BY <1>2, Sizes DEF Sequence, None

\* Positions that are less than the modulus apart.
LEMMA DistanceIs ==
  ASSUME NEW p \in Int, NEW q \in Int
  PROVE  /\ q - p \in 0 .. (Modulus - 1) => Distance(SequenceOf(p), SequenceOf(q)) = q - p
         /\ p - q \in 1 .. (Modulus - 1) => Distance(SequenceOf(p), SequenceOf(q)) = (q - p) + Modulus
<1>0. First \in Int /\ Modulus \in Nat
  BY Sizes
<1>1. (First + q) - (First + p) = q - p /\ First + q \in Int /\ First + p \in Int
  BY <1>0
<1>2. Distance(SequenceOf(p), SequenceOf(q)) = (q - p) % Modulus
  BY <1>1, Difference DEF Distance, SequenceOf
<1>3. Modulus * 0 = 0 /\ Modulus * (0 - 1) = 0 - Modulus
  BY <1>0
<1>4. ASSUME q - p \in 0 .. (Modulus - 1)
      PROVE  (q - p) % Modulus = q - p
  BY <1>0, <1>3, <1>4, Remainder
<1>5. ASSUME p - q \in 1 .. (Modulus - 1)
      PROVE  (q - p) % Modulus = (q - p) + Modulus
  <2>1. (q - p) + Modulus \in 0 .. (Modulus - 1) /\ q - p = (Modulus * (0 - 1)) + ((q - p) + Modulus)
    BY <1>0, <1>3, <1>5
  <2> QED
    BY <1>0, <2>1, Remainder
<1> QED
  BY <1>2, <1>4, <1>5

LEMMA BeforeIs ==
  ASSUME NEW p \in Int, NEW q \in Int, q - p < Half, p - q < Half
  PROVE  Before(SequenceOf(p), SequenceOf(q)) <=> p < q
<1>0. Half \in Nat /\ Half > 0 /\ Modulus = Half + Half
  BY Sizes
<1>1. CASE p < q
  <2>1. q - p \in 1 .. (Modulus - 1)
    BY <1>0, <1>1
  <2>2. Distance(SequenceOf(q), SequenceOf(p)) = (p - q) + Modulus
    BY <2>1, DistanceIs
  <2> QED
    BY <1>0, <1>1, <2>2 DEF Before
<1>2. CASE ~(p < q)
  <2>1. p - q \in 0 .. (Modulus - 1)
    BY <1>0, <1>2
  <2>2. Distance(SequenceOf(q), SequenceOf(p)) = p - q
    BY <2>1, DistanceIs
  <2> QED
    BY <1>0, <1>2, <2>2 DEF Before
<1> QED
  BY <1>1, <1>2

LEMMA AdvanceIs ==
  ASSUME NEW p \in Int, NEW n \in Int
  PROVE  Advance(SequenceOf(p), n) = SequenceOf(p + n)
<1>0. First \in Int /\ Modulus \in Nat
  BY Sizes
<1>4. First + p \in Int
  BY <1>0
<1>1. PICK k \in Int : (First + p) % Modulus = (First + p) + (Modulus * k) /\ Modulus * k \in Int
  BY <1>4, Turns
<1>2. ((First + p) % Modulus) + n = (First + (p + n)) + (Modulus * k)
  BY <1>0, <1>1
<1>3. First + (p + n) \in Int
  BY <1>0
<1> QED
  BY <1>2, <1>3, Turn DEF Advance, SequenceOf

LEMMA SamePosition ==
  ASSUME NEW p \in Int, NEW q \in Int, SequenceOf(p) = SequenceOf(q),
         q - p < Modulus, p - q < Modulus
  PROVE  p = q
<1>0. Modulus \in Nat
  BY Sizes
<1>1. Distance(SequenceOf(p), SequenceOf(p)) = 0
  BY <1>0, DistanceIs, Sizes
<1>2. CASE p <= q
  BY <1>0, <1>1, <1>2, DistanceIs
<1>3. CASE q < p
  BY <1>0, <1>1, <1>3, DistanceIs
<1> QED
  BY <1>2, <1>3

\* The place of a sequence number as seen from an edge.
LEMMA PlaceIs ==
  ASSUME NEW e \in Int, NEW p \in Int, p - e < Half, e - p < Half
  PROVE  Place(e, SequenceOf(p)) = p
<1>0. Half \in Nat /\ Half > 0 /\ Modulus = Half + Half
  BY Sizes
<1>1. CASE e <= p
  <2>1. Distance(SequenceOf(e), SequenceOf(p)) = p - e
    BY <1>0, <1>1, DistanceIs
  <2> QED
    BY <1>0, <1>1, <2>1 DEF Place, Signed
<1>2. CASE p < e
  <2>1. Distance(SequenceOf(e), SequenceOf(p)) = (p - e) + Modulus
    BY <1>0, <1>2, DistanceIs
  <2> QED
    BY <1>0, <1>2, <2>1 DEF Place, Signed
<1> QED
  BY <1>1, <1>2

LEMMA PlaceOf ==
  ASSUME NEW e \in Int, NEW s \in Sequence
  PROVE  Place(e, s) \in Int /\ SequenceOf(Place(e, s)) = s
<1>0. Half \in Nat /\ Half > 0 /\ Modulus = Half + Half /\ First \in Int /\ s \in 0 .. (Modulus - 1)
  BY Sizes DEF Sequence
<1>1. PICK k \in Int : SequenceOf(e) = (First + e) + (Modulus * k) /\ Modulus * k \in Int
  BY <1>0, Turns DEF SequenceOf
<1>2. PICK l \in Int : Distance(SequenceOf(e), s) = (s - SequenceOf(e)) + (Modulus * l) /\ Modulus * l \in Int
  <2>1. s - SequenceOf(e) \in Int
    BY <1>0, <1>1
  <2> QED
    BY <2>1, Turns DEF Distance
<1>3. PICK m \in Int : Signed(Distance(SequenceOf(e), s)) = Distance(SequenceOf(e), s) + (Modulus * m)
                       /\ Modulus * m \in Int
  <2>1. Modulus * 0 = 0 /\ Modulus * (0 - 1) = 0 - Modulus
    BY <1>0
  <2>2. Distance(SequenceOf(e), s) \in Int
    BY <1>0, <1>1, <1>2
  <2>3. CASE Distance(SequenceOf(e), s) < Half
    BY <2>1, <2>2, <2>3 DEF Signed
  <2>4. CASE ~(Distance(SequenceOf(e), s) < Half)
    BY <1>0, <2>1, <2>2, <2>4 DEF Signed
  <2> QED
    BY <2>3, <2>4
<1>4. Place(e, s) \in Int /\ First + Place(e, s) = s + ((Modulus * l) - (Modulus * k) + (Modulus * m))
  BY <1>0, <1>1, <1>2, <1>3 DEF Place
<1>5. ((Modulus * l) - (Modulus * k)) + (Modulus * m) = Modulus * ((l - k) + m)
  BY <1>0
<1>6. (First + Place(e, s)) % Modulus = s % Modulus
  <2>1. First + Place(e, s) = s + (Modulus * ((l - k) + m)) /\ (l - k) + m \in Int /\ s \in Int
    BY <1>0, <1>4, <1>5
  <2> QED
    BY <2>1, Turn
<1>7. s % Modulus = s
  BY <1>0
<1> QED
  BY <1>4, <1>6, <1>7 DEF SequenceOf

-----------------------------------------------------------------------------
(* The buffered chunks. *)

LEMMA ChunkFacts ==
  ASSUME Chunks, NEW e \in Int, NEW s \in DOMAIN pending
  PROVE  /\ Place(e, s) \in Int /\ SequenceOf(Place(e, s)) = s
         /\ Len(pending[s]) \in Nat \ {0} /\ DOMAIN pending[s] = 1 .. Len(pending[s])
         /\ End(e, s) \in Int /\ End(e, s) = Place(e, s) + Len(pending[s])
<1>1. pending[s] \in Seq(Byte) /\ pending[s] # <<>> /\ s \in Sequence
  BY DEF Chunks
<1>2. Place(e, s) \in Int /\ SequenceOf(Place(e, s)) = s
  BY <1>1, PlaceOf
<1>3. Len(pending[s]) \in Nat \ {0} /\ DOMAIN pending[s] = 1 .. Len(pending[s])
  BY <1>1, EmptySeq, LenProperties
<1> QED
  BY <1>2, <1>3 DEF End

\* A chunk keeps its place when the edge moves.
LEMMA Moved ==
  ASSUME NEW e \in Int, NEW f \in Int, NEW s \in Sequence,
         Place(e, s) - f < Half, f - Place(e, s) < Half
  PROVE  Place(f, s) = Place(e, s)
<1>1. Place(e, s) \in Int /\ SequenceOf(Place(e, s)) = s
  BY PlaceOf
<1>2. Place(f, SequenceOf(Place(e, s))) = Place(e, s)
  BY <1>1, PlaceIs
<1> QED
  BY <1>1, <1>2

\* What may be said of the buffered chunks from an edge e, and of the FIN.
FinNear(e, m) ==
  finAt # None => \E p \in FinAt : /\ SequenceOf(p) = finAt
                                   /\ m >= e => p \in (m - Window) .. (m + Window)
                                   /\ p <= e + Window
                                   /\ \A s \in DOMAIN pending : End(e, s) <= p

Seen(e) == Placed(e) /\ Spread(e) /\ Agree(e) /\ Covered(e) /\ Honest(e)

\* The edge once a segment at this position has anchored the direction.
Anchor(position) == IF base = None THEN position ELSE Edge

LEMMA Types ==
  ASSUME Anchored
  PROVE  /\ base \in Int /\ Len(out) \in Nat /\ Edge \in Int /\ out \in Seq(Byte)
         /\ base # None => Edge \in 0 .. Size /\ next = SequenceOf(Edge) /\ base <= Edge
         /\ next = None <=> base = None
         /\ DOMAIN out = 1 .. Len(out)
<1>1. base \in 0..Size \cup {None} /\ out \in Seq(Byte) /\ Size \in Nat
  BY Sizes DEF Anchored
<1>2. base \in Int /\ Len(out) \in Nat /\ Edge \in Int /\ DOMAIN out = 1 .. Len(out)
  BY <1>1, LenProperties DEF Edge, None
<1>3. base # None => Edge \in 0 .. Size /\ next = SequenceOf(Edge) /\ base <= Edge
  BY <1>1, <1>2 DEF Anchored, Edge
<1>4. next = None <=> base = None
  BY <1>2, <1>3, SequenceIs DEF Anchored
<1> QED
  BY <1>1, <1>2, <1>3, <1>4

\* The state a segment finds, seen from the edge it is compared with.
LEMMA Anchoring ==
  ASSUME AsmInv, ~failed, ~draining, NEW position \in Positions, Near(position),
         NEW m \in position .. (position + Window), Near(m), NearFin({position, m})
  PROVE  /\ Anchor(position) \in 0 .. Size
         /\ next # None => next = SequenceOf(Anchor(position))
         /\ Seen(Anchor(position)) /\ FinNear(Anchor(position), m)
         /\ {position, m} \subseteq (Anchor(position) - Window) .. (Anchor(position) + Window)
<1> DEFINE e == Anchor(position)
<1>0. /\ position \in Int /\ 0 <= position /\ position < Size /\ Window \in Nat /\ Size \in Nat
      /\ m \in Int /\ position <= m /\ m <= position + Window
  BY Sizes DEF Positions
<1>1. /\ base \in Int /\ Len(out) \in Nat /\ Edge \in Int
      /\ base # None => Edge \in 0 .. Size /\ next = SequenceOf(Edge)
      /\ next = None <=> base = None
  BY Types DEF AsmInv
<1>2. CASE base = None
  <2>1. pending = <<>> /\ seen = {} /\ DOMAIN pending = {} /\ next = None /\ e = position
    BY <1>2 DEF AsmInv, Anchored, Anchor
  <2>2. Placed(e) /\ Spread(e) /\ Agree(e) /\ Covered(e)
    BY <2>1 DEF Placed, Spread, Agree, Covered
  <2>3. Honest(e)
    BY <2>1 DEF Honest, AsmInv
  <2>4. FinNear(e, m)
    <3>1. ASSUME finAt # None
          PROVE  \E p \in FinAt : SequenceOf(p) = finAt /\ p <= e + Window /\ p \in (m - Window) .. (m + Window)
      <4>1. PICK p \in FinAt : SequenceOf(p) = finAt /\ {position, m} \subseteq (p - Window) .. (p + Window)
        BY <3>1 DEF NearFin
      <4>2. p \in Int
        BY Sizes, CaptureAssumption
      <4>3. p \in (m - Window) .. (m + Window) /\ p <= e + Window
        BY <1>0, <2>1, <4>1, <4>2
      <4> QED
        BY <4>1, <4>3
    <3> QED
      BY <2>1, <3>1 DEF FinNear
  <2> QED
    BY <1>0, <1>2, <2>1, <2>2, <2>3, <2>4 DEF Seen
<1>3. CASE base # None
  <2>1. e = Edge
    BY <1>3 DEF Anchor
  <2>2. Placed(e) /\ Spread(e) /\ Agree(e) /\ Covered(e) /\ Honest(e) /\ FinPlace(e)
    BY <2>1 DEF AsmInv
  <2>4. {position, m} \subseteq (e - Window) .. (e + Window)
    BY <1>3, <2>1 DEF Near
  <2>3. FinNear(e, m)
    <3>1. ASSUME finAt # None
          PROVE  \E p \in FinAt : /\ SequenceOf(p) = finAt /\ p <= e + Window
                                  /\ m >= e => p \in (m - Window) .. (m + Window)
                                  /\ \A s \in DOMAIN pending : End(e, s) <= p
      <4>1. PICK p \in FinAt : /\ SequenceOf(p) = finAt /\ p \in e .. (e + Window)
                               /\ \A s \in DOMAIN pending : End(e, s) <= p
        BY <1>3, <2>2, <3>1 DEF FinPlace
      <4>2. p <= e + Window /\ (m >= e => p \in (m - Window) .. (m + Window))
        BY <1>0, <1>1, <2>1, <2>4, <4>1
      <4> QED
        BY <4>1, <4>2
    <3> QED
      BY <3>1 DEF FinNear
  <2> QED
    BY <1>1, <1>3, <2>1, <2>2, <2>3, <2>4 DEF Seen
<1> QED
  BY <1>2, <1>3

-----------------------------------------------------------------------------
(* What a segment leaves behind, by what becomes of its bytes.              *)

\* A run of bytes b at position q, no further than the window from edge e.
Piece(e, q, b) ==
  /\ e \in 0 .. Size /\ q \in Int /\ e <= q /\ q + Len(b) <= e + Window /\ q + Len(b) <= Size
  /\ b \in Seq(Byte) /\ b # <<>>
  /\ \A i \in DOMAIN b : Right(q + i - 1, b[i])

\* The history of a segment that is compared with edge e.
Marked(e) ==
  /\ base' \in 0 .. Size /\ base' = e - Len(out)
  /\ base # None => base' = base
  /\ base = None => out = <<>> /\ DOMAIN pending = {}
  /\ seen \subseteq seen' /\ seen' \subseteq Positions /\ honest' \in BOOLEAN /\ (honest' => honest)

\* What the segment adds to it when q is the part of it that is new.
Shown(e, q, b) ==
  /\ q .. ((q + Len(b)) - 1) \subseteq seen'
  /\ \A x \in seen' : x \in seen \/ x < e \/ x \in q .. ((q + Len(b)) - 1)
  /\ honest' => \A i \in DOMAIN b : b[i] = Stream[q + i - 1]

\* What was handed on stays right when a segment only anchors the direction.
LEMMA HandedStill ==
  ASSUME AsmInv, NEW e \in Int, Marked(e)
  PROVE  /\ \A i \in DOMAIN out : Right(base' + i - 1, out[i])
         /\ base' .. (e - 1) \subseteq seen'
         /\ out \in Seq(Byte) /\ Len(out) \in Nat /\ base' = e - Len(out)
<1>1. base \in Int /\ Len(out) \in Nat /\ Edge = base + Len(out) /\ out \in Seq(Byte)
  BY Types DEF AsmInv, Edge
<1>2. CASE base = None
  <2>0. out = <<>> /\ base' = e - Len(out)
    BY <1>2 DEF Marked
  <2>1. Len(out) = 0 /\ DOMAIN out = {}
    BY <2>0
  <2>2. base' = e
    BY <2>0, <2>1
  <2>3. e .. (e - 1) = {}
    OBVIOUS
  <2> QED
    BY <1>1, <2>0, <2>1, <2>2, <2>3
<1>3. CASE base # None
  <2>1. base' = base /\ base' = e - Len(out) /\ seen \subseteq seen'
    BY <1>3 DEF Marked
  <2>2. Edge = e
    BY <1>1, <2>1
  <2> QED
    BY <1>1, <1>3, <2>1, <2>2 DEF Handed, AsmInv
<1> QED
  BY <1>2, <1>3

LEMMA HandedKept ==
  ASSUME AsmInv, NEW e \in Int, Marked(e), out' = out
  PROVE  Handed' /\ Edge' = e
<1>1. /\ \A i \in DOMAIN out : Right(base' + i - 1, out[i])
      /\ base' .. (e - 1) \subseteq seen'
      /\ Len(out) \in Nat /\ base' = e - Len(out)
  BY HandedStill
<1>2. Edge' = base' + Len(out)
  BY DEF Edge
<1>3. Edge' = e
  BY <1>1, <1>2
<1> QED
  BY <1>1, <1>3 DEF Handed

\* Bytes that are handed on behind those, and the edge moves to their end.
LEMMA HandedOn ==
  ASSUME NEW e \in Int, NEW b \in Seq(Byte), out \in Seq(Byte), out' = out \o b,
         base' = e - Len(out),
         \A i \in DOMAIN out : Right(base' + i - 1, out[i]),
         base' .. (e - 1) \subseteq seen',
         \A i \in DOMAIN b : Right(e + i - 1, b[i]),
         e .. ((e + Len(b)) - 1) \subseteq seen'
  PROVE  Handed' /\ Edge' = e + Len(b) /\ out' \in Seq(Byte)
<1>1. Len(out) \in Nat /\ Len(b) \in Nat /\ DOMAIN out = 1 .. Len(out) /\ DOMAIN b = 1 .. Len(b)
  BY LenProperties
<1>2. /\ out' \in Seq(Byte) /\ Len(out') = Len(out) + Len(b)
      /\ \A i \in 1 .. Len(out) + Len(b) : out'[i] = IF i <= Len(out) THEN out[i] ELSE b[i - Len(out)]
  BY ConcatProperties
<1>3. DOMAIN out' = 1 .. (Len(out) + Len(b))
  BY <1>2, LenProperties
<1>4. Edge' = e + Len(b)
  <2>1. Edge' = base' + (Len(out) + Len(b))
    BY <1>2 DEF Edge
  <2>2. (e - Len(out)) + (Len(out) + Len(b)) = e + Len(b)
    BY <1>1
  <2> QED
    BY <2>1, <2>2
<1>5. ASSUME NEW i \in DOMAIN out'
      PROVE  Right(base' + i - 1, out'[i])
  <2>1. i \in 1 .. Len(out) + Len(b) /\ i \in Int
    BY <1>1, <1>3
  <2>2. CASE i <= Len(out)
    <3>1. i \in DOMAIN out /\ out'[i] = out[i]
      BY <1>1, <1>2, <2>1, <2>2
    <3> QED
      BY <3>1
  <2>3. CASE ~(i <= Len(out))
    <3>1. i - Len(out) \in DOMAIN b /\ out'[i] = b[i - Len(out)]
      BY <1>1, <1>2, <2>1, <2>3
    <3>2. Right(e + (i - Len(out)) - 1, b[i - Len(out)])
      BY <3>1
    <3>3. e + ((i - Len(out)) - 1) = (e - Len(out)) + (i - 1)
      BY <1>1, <2>1
    <3> QED
      BY <3>1, <3>2, <3>3
  <2> QED
    BY <2>2, <2>3
<1>6. ASSUME NEW x \in (e - Len(out)) .. ((e + Len(b)) - 1)
      PROVE  x \in seen'
  <2>1. CASE x < e
    <3>1. x \in (e - Len(out)) .. (e - 1)
      BY <1>1, <2>1
    <3> QED
      BY <3>1
  <2>2. CASE ~(x < e)
    <3>1. x \in e .. ((e + Len(b)) - 1)
      BY <1>1, <2>2
    <3> QED
      BY <3>1
  <2> QED
    BY <2>1, <2>2
<1> QED
  BY <1>2, <1>4, <1>5, <1>6 DEF Handed

\* A state in which only the edge was anchored and more was seen.
LEMMA Marking ==
  ASSUME AsmInv, NEW e \in 0 .. Size, NEW m, Marked(e), Seen(e), FinNear(e, m), ~draining,
         next' = SequenceOf(e), failed' \in BOOLEAN,
         UNCHANGED <<pending, pendingBytes, finAt, draining, out>>,
         ~failed' => Covered(e)' /\ FinPlace(e)'
  PROVE  AsmInv'
<1>0. Edge' = e /\ base' # None /\ base' \in 0 .. Size /\ Len(out) \in Nat /\ e \in Int
  <2>1. Len(out) \in Nat /\ e \in Int /\ Size \in Nat
    BY Types, Sizes DEF AsmInv
  <2>2. base' \in 0 .. Size /\ base' = e - Len(out)
    BY DEF Marked
  <2>3. Edge' = base' + Len(out)
    BY DEF Edge
  <2>4. Edge' = e
    BY <2>1, <2>2, <2>3
  <2>5. base' # None
    BY <2>1, <2>2 DEF None
  <2> QED
    BY <2>1, <2>2, <2>4, <2>5
<1>1. Anchored'
  <2>1. e <= Size /\ next' = SequenceOf(Edge') /\ Edge' <= Size
    BY <1>0, Sizes
  <2>2. out' \in Seq(Byte) /\ draining' = FALSE /\ draining' \in BOOLEAN /\ honest' \in BOOLEAN
    BY DEF AsmInv, Anchored, Marked
  <2> QED
    BY <1>0, <2>1, <2>2 DEF Anchored, Marked
<1>2. Chunks' /\ Room'
  BY DEF AsmInv, Chunks, Room
<1>3. Placed(Edge)'
  BY <1>0 DEF Seen, Placed, End, Marked
<1>4. Spread(Edge)' /\ Agree(Edge)'
  BY <1>0 DEF Seen, Spread, Agree, End
<1>5. Handed'
  BY HandedKept
<1>6. Covered(Edge)'
  BY <1>0 DEF Covered
<1>7. FinPlace(Edge)'
  BY <1>0 DEF FinPlace, Seen, FinNear
<1>8. Honest(Edge)'
  BY <1>0 DEF Honest, Marked, Seen
<1> QED
  BY <1>1, <1>2, <1>3, <1>4, <1>5, <1>6, <1>7, <1>8 DEF AsmInv

\* A segment that ends before the edge or within what is buffered already.
LEMMA IgnoreKeeps ==
  ASSUME AsmInv, NEW e \in 0 .. Size, NEW m, Marked(e), Seen(e), FinNear(e, m),
         ~draining, ~failed, Ignore(SequenceOf(e)),
         finAt # None => \E p \in FinAt : SequenceOf(p) = finAt /\ p \in e .. (e + Window)
                                        /\ \A s \in DOMAIN pending : End(e, s) <= p,
         \A x \in seen' : \/ x \in seen \/ x < e
                          \/ \E s \in DOMAIN pending : x \in Place(e, s) .. (End(e, s) - 1)
  PROVE  AsmInv'
<1>1. /\ next' = SequenceOf(e) /\ failed' \in BOOLEAN /\ failed' = failed
      /\ UNCHANGED <<pending, pendingBytes, finAt, draining, out>>
  BY DEF Ignore, AsmInv, Anchored
<1>2. Covered(e)'
  BY <1>1 DEF Covered, Seen, End
<1>3. FinPlace(e)'
  BY <1>1 DEF FinPlace, End
<1> QED
  BY <1>1, <1>2, <1>3, Marking

\* A segment that makes the assembler give up.
LEMMA FailKeeps ==
  ASSUME AsmInv, NEW e \in 0 .. Size, NEW m, Marked(e), Seen(e), FinNear(e, m),
         ~draining, Fail(SequenceOf(e))
  PROVE  AsmInv'
<1>1. /\ next' = SequenceOf(e) /\ failed' \in BOOLEAN /\ failed'
      /\ UNCHANGED <<pending, pendingBytes, finAt, draining, out>>
  BY DEF Fail
<1> QED
  BY <1>1, Marking

LEMMA PieceFacts ==
  ASSUME NEW e, NEW q, NEW b, Piece(e, q, b)
  PROVE  /\ e \in Int /\ q \in Int /\ e <= q /\ 0 <= e /\ e <= Size
         /\ Len(b) \in Nat \ {0} /\ DOMAIN b = 1 .. Len(b)
         /\ q + Len(b) <= e + Window /\ q + Len(b) <= Size
         /\ q - e < Half /\ Place(e, SequenceOf(q)) = q
         /\ Distance(SequenceOf(e), SequenceOf(q)) = q - e
         /\ Advance(SequenceOf(q), Len(b)) = SequenceOf(q + Len(b))
         /\ SequenceOf(q) \in Sequence
<1>1. /\ e \in 0 .. Size /\ q \in Int /\ e <= q /\ q + Len(b) <= e + Window /\ q + Len(b) <= Size
      /\ b \in Seq(Byte) /\ b # <<>>
  BY DEF Piece
<1>2. Len(b) \in Nat \ {0} /\ DOMAIN b = 1 .. Len(b)
  BY <1>1, EmptySeq, LenProperties
<1>3. e \in Int /\ 0 <= e /\ e <= Size
  BY <1>1, Sizes
<1>4. q - e < Half /\ e - q < Half /\ q - e \in 0 .. (Modulus - 1)
  BY <1>1, <1>2, <1>3, Sizes
<1>5. Place(e, SequenceOf(q)) = q
  BY <1>1, <1>3, <1>4, PlaceIs
<1>6. Distance(SequenceOf(e), SequenceOf(q)) = q - e
  BY <1>1, <1>3, <1>4, DistanceIs
<1>7. Advance(SequenceOf(q), Len(b)) = SequenceOf(q + Len(b))
  BY <1>1, <1>2, AdvanceIs
<1>8. SequenceOf(q) \in Sequence
  BY <1>1, SequenceIs
<1> QED
  BY <1>1, <1>2, <1>3, <1>4, <1>5, <1>6, <1>7, <1>8

\* A run that is not past the FIN ends before it.
LEMMA BeforeFin ==
  ASSUME NEW e, NEW q, NEW b, Piece(e, q, b), FinNear(e, q + Len(b)), ~PastFin(SequenceOf(q), b)
  PROVE  finAt # None => \E p \in FinAt : /\ SequenceOf(p) = finAt /\ p \in Int
                                          /\ q + Len(b) <= p /\ p <= e + Window
                                          /\ \A s \in DOMAIN pending : End(e, s) <= p
<1> DEFINE m == q + Len(b)
<1>1. m \in Int /\ m >= e /\ e \in Int /\ Advance(SequenceOf(q), Len(b)) = SequenceOf(m)
  BY PieceFacts
<1>2. SUFFICES ASSUME finAt # None
               PROVE  \E p \in FinAt : /\ SequenceOf(p) = finAt /\ p \in Int
                                       /\ m <= p /\ p <= e + Window
                                       /\ \A s \in DOMAIN pending : End(e, s) <= p
  OBVIOUS
<1>3. PICK p \in FinAt : /\ SequenceOf(p) = finAt
                         /\ m >= e => p \in (m - Window) .. (m + Window)
                         /\ p <= e + Window
                         /\ \A s \in DOMAIN pending : End(e, s) <= p
  BY <1>2 DEF FinNear
<1>4. p \in Int
  BY CaptureAssumption, Sizes
<1> HIDE DEF m
<1>5. m - p < Half /\ p - m < Half
  BY <1>1, <1>3, <1>4, Sizes
<1>6. ~Before(SequenceOf(p), SequenceOf(m))
  BY <1>1, <1>2, <1>3 DEF PastFin
<1>7. ~(p < m)
  BY <1>1, <1>4, <1>5, <1>6, BeforeIs
<1> QED
  BY <1>1, <1>3, <1>4, <1>7

\* Chunks ahead of the edge.
LEMMA Ahead ==
  ASSUME Chunks, NEW e \in Int, Placed(e), ~draining, NEW s \in DOMAIN pending
  PROVE  /\ Place(e, s) > e /\ Place(e, s) <= e + Window
         /\ Distance(SequenceOf(e), s) = Place(e, s) - e
<1>1. Place(e, s) \in Int /\ SequenceOf(Place(e, s)) = s
  BY ChunkFacts
<1>2. Place(e, s) > e /\ Place(e, s) <= e + Window
  BY <1>1, Sizes DEF Placed
<1>3. Place(e, s) - e \in 0 .. (Modulus - 1)
  BY <1>1, <1>2, Sizes
<1>4. Distance(SequenceOf(e), SequenceOf(Place(e, s))) = Place(e, s) - e
  BY <1>1, <1>3, DistanceIs
<1> QED
  BY <1>1, <1>2, <1>4

\* The comparison of the code is one of bytes at the same position.
LEMMA Agreement ==
  ASSUME Chunks, NEW e, NEW q, NEW b, Piece(e, q, b), Placed(e), ~draining
  PROVE  ~Disagrees(SequenceOf(e), Distance(SequenceOf(e), SequenceOf(q)), b)
           <=> \A s \in DOMAIN pending : \A i \in DOMAIN b, j \in DOMAIN pending[s] :
                  q + i = Place(e, s) + j => b[i] = pending[s][j]
<1>1. /\ e \in Int /\ q \in Int /\ Len(b) \in Nat /\ DOMAIN b = 1 .. Len(b)
      /\ Distance(SequenceOf(e), SequenceOf(q)) = q - e
  BY PieceFacts
<1> DEFINE Shift(s, i) == Distance(SequenceOf(e), SequenceOf(q)) + (i - Distance(SequenceOf(e), s))
<1>2. Disagrees(SequenceOf(e), Distance(SequenceOf(e), SequenceOf(q)), b)
        <=> \E s \in DOMAIN pending, i \in DOMAIN b :
              Shift(s, i) \in DOMAIN pending[s] /\ pending[s][Shift(s, i)] # b[i]
  BY DEF Disagrees
<1>3. ASSUME NEW s \in DOMAIN pending, NEW i \in DOMAIN b
      PROVE  Shift(s, i) = (q + i) - Place(e, s)
  BY <1>1, Ahead, ChunkFacts
<1>4. ASSUME NEW s \in DOMAIN pending, NEW i \in DOMAIN b, NEW j \in DOMAIN pending[s]
      PROVE  q + i = Place(e, s) + j <=> j = (q + i) - Place(e, s)
  BY <1>1, ChunkFacts
<1> HIDE DEF Shift
<1>5. ASSUME NEW s \in DOMAIN pending, NEW i \in DOMAIN b, NEW j \in DOMAIN pending[s]
      PROVE  q + i = Place(e, s) + j <=> j = Shift(s, i)
  BY <1>3, <1>4
<1> QED
  BY <1>2, <1>5

\* A run ahead of the edge that is buffered, on its own or in place of a
\* shorter one that starts where it does.
Stores(q, b) ==
  /\ pending' = [t \in DOMAIN pending \cup {SequenceOf(q)} |->
                   IF t = SequenceOf(q) THEN b ELSE pending[t]]
  /\ \/ SequenceOf(q) \in DOMAIN pending /\ Len(pending[SequenceOf(q)]) <= Len(b)
     \/ SequenceOf(q) \notin DOMAIN pending /\ Cardinality(DOMAIN pending) < MaxPending
  /\ pendingBytes' \in Int

LEMMA StoreKeeps ==
  ASSUME AsmInv, NEW e \in 0 .. Size, NEW q, NEW b, Piece(e, q, b), q # e,
         Marked(e), Shown(e, q, b), Seen(e), FinNear(e, q + Len(b)), ~draining, ~failed,
         ~PastFin(SequenceOf(q), b),
         ~Disagrees(SequenceOf(e), Distance(SequenceOf(e), SequenceOf(q)), b),
         Stores(q, b), next' = SequenceOf(e), UNCHANGED <<finAt, failed, draining, out>>
  PROVE  AsmInv'
<1> DEFINE s == SequenceOf(q)
           m == q + Len(b)
<1>0. /\ e \in Int /\ q \in Int /\ e < q /\ m \in Int /\ q < m /\ m <= e + Window /\ m <= Size
      /\ Len(b) \in Nat \ {0} /\ DOMAIN b = 1 .. Len(b) /\ Place(e, s) = q /\ s \in Sequence
  BY PieceFacts
<1>1. DOMAIN pending' = DOMAIN pending \cup {s} /\ pending'[s] = b
      /\ \A t \in DOMAIN pending' \ {s} : t \in DOMAIN pending /\ pending'[t] = pending[t]
  BY DEF Stores
<1>2. /\ \A t \in DOMAIN pending' \ {s} : t \in DOMAIN pending /\ End(e, t)' = End(e, t)
      /\ End(e, s)' = m
  BY <1>0, <1>1 DEF End
<1>3. Edge' = e /\ base' # None /\ base' \in 0 .. Size
  <2>1. Len(out) \in Nat
    BY Types DEF AsmInv
  <2>2. base' \in 0 .. Size /\ base' = e - Len(out)
    BY DEF Marked
  <2>3. Edge' = base' + Len(out)
    BY DEF Edge
  <2> QED
    BY <1>0, <2>1, <2>2, <2>3, Sizes DEF None
<1>4. Chunks
  BY DEF AsmInv
<1>5. Anchored'
  <2>1. e <= Size /\ next' = SequenceOf(Edge') /\ Edge' <= Size
    BY <1>3, Sizes
  <2>2. out' \in Seq(Byte) /\ draining' = FALSE /\ draining' \in BOOLEAN /\ honest' \in BOOLEAN
        /\ failed' \in BOOLEAN
    BY DEF AsmInv, Anchored, Marked
  <2> QED
    BY <1>3, <2>1, <2>2 DEF Anchored, Marked
<1>6. Chunks'
  <2>1. pending' = [t \in DOMAIN pending' |-> pending'[t]]
    BY DEF Stores
  <2>2. b \in Seq(Byte) /\ b # <<>>
    BY DEF Piece
  <2> QED
    BY <1>0, <1>1, <1>4, <2>1, <2>2 DEF Chunks
<1>7. Room'
  <2>1. IsFiniteSet(DOMAIN pending) /\ Cardinality(DOMAIN pending) <= MaxPending
        /\ Cardinality(DOMAIN pending) \in Nat
    BY FS_CardinalityType DEF AsmInv, Room
  <2>2. CASE s \in DOMAIN pending
    <3>1. DOMAIN pending' = DOMAIN pending
      BY <1>1, <2>2
    <3> QED
      BY <2>1, <3>1 DEF Room, Stores
  <2>3. CASE s \notin DOMAIN pending
    <3>1. IsFiniteSet(DOMAIN pending') /\ Cardinality(DOMAIN pending') = Cardinality(DOMAIN pending) + 1
      BY <1>1, <2>1, <2>3, FS_AddElement
    <3>2. Cardinality(DOMAIN pending) < MaxPending /\ pendingBytes' \in Int
      BY <2>3 DEF Stores
    <3> QED
      BY <2>1, <3>1, <3>2, Sizes DEF Room
  <2> QED
    BY <2>2, <2>3
<1>8. Placed(Edge)'
  <2>1. \A t \in DOMAIN pending' :
          /\ Place(e, t) \in (e - Window) .. (e + Window)
          /\ End(e, t)' <= e + Window
          /\ Place(e, t) > e
          /\ Place(e, t) .. (End(e, t)' - 1) \subseteq seen'
          /\ \A i \in DOMAIN pending'[t] : Right(Place(e, t) + i - 1, pending'[t][i])
    <3>1. ASSUME NEW t \in DOMAIN pending' \ {s}
          PROVE  /\ Place(e, t) \in (e - Window) .. (e + Window)
                 /\ End(e, t)' <= e + Window
                 /\ Place(e, t) > e
                 /\ Place(e, t) .. (End(e, t)' - 1) \subseteq seen'
                 /\ \A i \in DOMAIN pending'[t] : Right(Place(e, t) + i - 1, pending'[t][i])
      BY <1>1, <1>2 DEF Seen, Placed, Marked
    <3>2. q \in (e - Window) .. (e + Window)
      BY <1>0, Sizes
    <3>3. q .. (m - 1) \subseteq seen'
      BY DEF Shown
    <3>4. \A i \in DOMAIN b : Right(q + i - 1, b[i])
      BY DEF Piece
    <3> HIDE DEF s, m
    <3> QED
      BY <1>0, <1>1, <1>2, <3>1, <3>2, <3>3, <3>4
  <2> QED
    BY <1>3, <2>1 DEF Placed
<1>9. Spread(Edge)'
  <2>1. \A t \in DOMAIN pending' : Place(e, t) > e /\ End(e, t)' <= e + Window /\ Place(e, t) \in Int /\ End(e, t)' \in Int
    <3>1. ASSUME NEW t \in DOMAIN pending' \ {s}
          PROVE  Place(e, t) > e /\ End(e, t)' <= e + Window /\ Place(e, t) \in Int /\ End(e, t)' \in Int
      <4>1. t \in DOMAIN pending /\ End(e, t)' = End(e, t)
        BY <1>2
      <4>2. Place(e, t) > e /\ End(e, t) <= e + Window
        BY <4>1 DEF Seen, Placed
      <4> QED
        BY <1>0, <1>4, <4>1, <4>2, ChunkFacts
    <3> HIDE DEF s, m
    <3> QED
      BY <1>0, <1>2, <3>1
  <2>2. ASSUME NEW t \in DOMAIN pending', NEW u \in DOMAIN pending'
        PROVE  End(e, u)' - Place(e, t) <= Window
    BY <1>0, <2>1, Sizes
  <2> QED
    BY <1>3, <2>2 DEF Spread
<1>10. Agree(Edge)'
  <2>1. \A t \in DOMAIN pending : \A i \in DOMAIN b, j \in DOMAIN pending[t] :
           q + i = Place(e, t) + j => b[i] = pending[t][j]
    BY <1>4, Agreement DEF Seen
  <2>2. ASSUME NEW t \in DOMAIN pending', NEW u \in DOMAIN pending',
               NEW i \in DOMAIN pending'[t], NEW j \in DOMAIN pending'[u],
               Place(e, t) + i = Place(e, u) + j
        PROVE  pending'[t][i] = pending'[u][j]
    <3> HIDE DEF s, m
    <3>1. CASE t # s /\ u # s
      <4>1. t \in DOMAIN pending /\ u \in DOMAIN pending /\ pending'[t] = pending[t] /\ pending'[u] = pending[u]
        BY <1>1, <3>1
      <4>2. Agree(e)
        BY DEF Seen
      <4> QED
        BY <2>2, <4>1, <4>2 DEF Agree
    <3>2. CASE t = s /\ u # s
      <4>1. u \in DOMAIN pending /\ pending'[t] = b /\ pending'[u] = pending[u]
        BY <1>1, <3>2
      <4> QED
        BY <1>0, <2>1, <2>2, <3>2, <4>1
    <3>3. CASE t # s /\ u = s
      <4>1. t \in DOMAIN pending /\ pending'[u] = b /\ pending'[t] = pending[t]
        BY <1>1, <3>3
      <4> QED
        BY <1>0, <2>1, <2>2, <3>3, <4>1
    <3>4. CASE t = s /\ u = s
      BY <1>0, <1>1, <2>2, <3>4
    <3> QED
      BY <3>1, <3>2, <3>3, <3>4
  <2> QED
    BY <1>3, <2>2 DEF Agree
<1>11. Handed'
  BY HandedKept
<1>12. Covered(Edge)'
  <2>1. ASSUME NEW x \in seen'
        PROVE  x < e \/ \E t \in DOMAIN pending' : x \in Place(e, t) .. (End(e, t)' - 1)
    <3>1. CASE x < e
      BY <3>1
    <3>2. CASE x \in q .. (m - 1)
      BY <1>0, <1>1, <1>2, <3>2
    <3>3. CASE x \in seen /\ ~(x < e)
      <4>1. PICK t \in DOMAIN pending : x \in Place(e, t) .. (End(e, t) - 1)
        BY <3>3 DEF Seen, Covered
      <4>2. CASE t # s
        BY <1>1, <1>2, <4>1, <4>2
      <4>3. CASE t = s
        <5>1. Len(pending[s]) <= Len(b) /\ End(e, s) = q + Len(pending[s]) /\ Len(pending[s]) \in Nat
          BY <1>0, <1>4, <4>3, ChunkFacts DEF Stores
        <5>2. x \in q .. (m - 1)
          BY <1>0, <4>1, <4>3, <5>1
        <5> QED
          BY <1>0, <1>1, <1>2, <5>2
      <4> QED
        BY <4>2, <4>3
    <3> QED
      BY <3>1, <3>2, <3>3 DEF Shown
  <2> QED
    BY <1>3, <2>1 DEF Covered
<1>13. FinPlace(Edge)'
  <2>1. ASSUME finAt # None
        PROVE  \E p \in FinAt : /\ SequenceOf(p) = finAt /\ p \in e .. (e + Window)
                                /\ \A t \in DOMAIN pending' : End(e, t)' <= p
    <3>1. PICK p \in FinAt : /\ SequenceOf(p) = finAt /\ p \in Int /\ m <= p /\ p <= e + Window
                             /\ \A t \in DOMAIN pending : End(e, t) <= p
      BY <2>1, BeforeFin
    <3>2. p \in e .. (e + Window)
      BY <1>0, <3>1
    <3> HIDE DEF s, m
    <3>3. \A t \in DOMAIN pending' : End(e, t)' <= p
      BY <1>1, <1>2, <3>1
    <3> QED
      BY <3>1, <3>2, <3>3
  <2> QED
    BY <1>3, <2>1 DEF FinPlace
<1>14. Honest(Edge)'
  <2>1. ASSUME honest'
        PROVE  \A t \in DOMAIN pending' : \A i \in DOMAIN pending'[t] :
                  pending'[t][i] = Stream[Place(e, t) + i - 1]
    <3>1. honest /\ \A i \in DOMAIN b : b[i] = Stream[q + i - 1]
      BY <2>1 DEF Marked, Shown
    <3> HIDE DEF s, m
    <3> QED
      BY <1>0, <1>1, <3>1 DEF Seen, Honest
  <2>2. honest' => (finAt' # None => Size \in FinAt /\ finAt' = SequenceOf(Size))
    BY DEF Marked, Seen, Honest
  <2> QED
    BY <1>3, <2>1, <2>2 DEF Honest
<1> QED
  BY <1>5, <1>6, <1>7, <1>8, <1>9, <1>10, <1>11, <1>12, <1>13, <1>14 DEF AsmInv

\* When the edge moves on and the chunks keep their places, what is said of
\* their bytes is still true.
Same(e, f) ==
  \A s \in DOMAIN pending' : /\ s \in DOMAIN pending /\ pending'[s] = pending[s]
                             /\ Place(f, s) = Place(e, s) /\ End(f, s)' = End(e, s)

\* A run that is due at once: it is handed on and the drain loop starts.
LEMMA ConsumeKeeps ==
  ASSUME AsmInv, NEW e \in 0 .. Size, NEW b, Piece(e, e, b),
         Marked(e), Shown(e, e, b), Seen(e), FinNear(e, e + Len(b)), ~draining, ~failed,
         ~PastFin(SequenceOf(e), b), Consume(SequenceOf(e), b)
  PROVE  AsmInv'
<1> DEFINE f == e + Len(b)
<1>0. /\ e \in Int /\ f \in Int /\ e < f /\ f <= e + Window /\ f <= Size
      /\ Len(b) \in Nat \ {0} /\ DOMAIN b = 1 .. Len(b)
  BY PieceFacts
<1>1. next' = SequenceOf(f) /\ out' = out \o b /\ draining' = TRUE
      /\ UNCHANGED <<pending, pendingBytes, finAt, failed>>
  BY PieceFacts DEF Consume
<1>2. Len(out) \in Nat /\ DOMAIN out = 1 .. Len(out) /\ out \in Seq(Byte) /\ b \in Seq(Byte)
  BY Types DEF AsmInv, Piece
<1>4. base' # None /\ base' \in 0 .. Size /\ base' = e - Len(out)
  BY Sizes DEF Marked, None
<1>3. Handed' /\ Edge' = f /\ out' \in Seq(Byte)
  <2>1. /\ \A i \in DOMAIN out : Right(base' + i - 1, out[i])
        /\ base' .. (e - 1) \subseteq seen'
    BY <1>0, HandedStill
  <2>2. (\A i \in DOMAIN b : Right(e + i - 1, b[i])) /\ e .. ((e + Len(b)) - 1) \subseteq seen'
    BY DEF Piece, Shown
  <2> QED
    BY <1>0, <1>1, <1>2, <1>4, <2>1, <2>2, HandedOn
<1>5. Edge' = f
  BY <1>3
<1> HIDE DEF f
<1>6. Chunks /\ Room /\ failed \in BOOLEAN
  BY DEF AsmInv, Anchored
<1>7. Anchored'
  <2>1. next' = SequenceOf(Edge') /\ Edge' <= Size /\ failed' = FALSE /\ draining' \in BOOLEAN
    BY <1>0, <1>1, <1>5, <1>6
  <2>2. honest' \in BOOLEAN
    BY DEF Marked
  <2> QED
    BY <1>3, <1>4, <2>1, <2>2 DEF Anchored, Marked
<1>8. Chunks' /\ Room'
  BY <1>1, <1>6 DEF Chunks, Room
<1>9. ASSUME NEW t \in DOMAIN pending
      PROVE  /\ Place(f, t) = Place(e, t) /\ End(f, t)' = End(e, t)
             /\ Place(e, t) \in Int /\ End(e, t) \in Int
             /\ e < Place(e, t) /\ End(e, t) <= e + Window /\ Place(e, t) < End(e, t)
  <2>1. /\ Place(e, t) \in Int /\ End(e, t) \in Int /\ Place(e, t) < End(e, t)
        /\ End(e, t) = Place(e, t) + Len(pending[t])
    BY <1>0, <1>6, ChunkFacts
  <2>2. e < Place(e, t) /\ End(e, t) <= e + Window /\ t \in Sequence
    BY <1>6 DEF Seen, Placed, Chunks
  <2>3. Place(e, t) - f < Half /\ f - Place(e, t) < Half
    BY <1>0, <2>1, <2>2, Sizes
  <2>4. Place(f, t) = Place(e, t)
    BY <1>0, <2>2, <2>3, Moved
  <2>5. End(f, t)' = Place(f, t) + Len(pending[t])
    BY <1>1 DEF End
  <2> QED
    BY <2>1, <2>2, <2>4, <2>5
<1>10. Same(e, f)
  BY <1>1, <1>9 DEF Same
<1>11. Placed(Edge)'
  <2>1. ASSUME NEW t \in DOMAIN pending
        PROVE  /\ Place(f, t) \in (f - Window) .. (f + Window)
               /\ End(f, t)' <= f + Window
               /\ Place(f, t) .. (End(f, t)' - 1) \subseteq seen'
               /\ \A i \in DOMAIN pending[t] : Right(Place(f, t) + i - 1, pending[t][i])
    <3>1. Place(f, t) \in (f - Window) .. (f + Window) /\ End(f, t)' <= f + Window
      BY <1>0, <1>9, Sizes
    <3>2. /\ Place(f, t) .. (End(f, t)' - 1) \subseteq seen'
          /\ \A i \in DOMAIN pending[t] : Right(Place(f, t) + i - 1, pending[t][i])
      BY <1>9 DEF Seen, Placed, Marked
    <3> QED
      BY <3>1, <3>2
  <2> QED
    BY <1>1, <1>5, <2>1 DEF Placed
<1>12. Spread(Edge)'
  <2>1. ASSUME NEW t \in DOMAIN pending, NEW u \in DOMAIN pending
        PROVE  End(f, u)' - Place(f, t) <= Window
    BY <1>0, <1>9, Sizes
  <2> QED
    BY <1>1, <1>5, <2>1 DEF Spread
<1>13. Agree(Edge)' /\ (honest' => \A s \in DOMAIN pending' : \A i \in DOMAIN pending'[s] :
                                     pending'[s][i] = Stream[Place(f, s) + i - 1])
  BY <1>5, <1>10 DEF Same, Seen, Agree, Honest, Marked
<1>15. Covered(Edge)'
  <2>1. ASSUME NEW x \in seen'
        PROVE  x < f \/ \E t \in DOMAIN pending : x \in Place(f, t) .. (End(f, t)' - 1)
    <3>0. x \in Int
      BY Sizes DEF Marked, Positions
    <3>1. CASE x < e
      BY <1>0, <3>0, <3>1
    <3>2. CASE x \in e .. (f - 1)
      BY <1>0, <3>2
    <3>3. CASE \E t \in DOMAIN pending : x \in Place(e, t) .. (End(e, t) - 1)
      BY <1>9, <3>3
    <3> QED
      BY <3>1, <3>2, <3>3 DEF Shown, f, Seen, Covered
  <2> QED
    BY <1>1, <1>5, <2>1 DEF Covered
<1>16. FinPlace(Edge)'
  <2>1. ASSUME finAt # None
        PROVE  \E p \in FinAt : /\ SequenceOf(p) = finAt /\ p \in f .. (f + Window)
                                /\ \A t \in DOMAIN pending : End(f, t)' <= p
    <3>1. PICK p \in FinAt : /\ SequenceOf(p) = finAt /\ p \in Int /\ f <= p /\ p <= e + Window
                             /\ \A t \in DOMAIN pending : End(e, t) <= p
      BY <2>1, BeforeFin DEF f
    <3>2. p \in f .. (f + Window)
      BY <1>0, <3>1, Sizes
    <3> QED
      BY <1>9, <3>1, <3>2
  <2> QED
    BY <1>1, <1>5, <2>1 DEF FinPlace
<1>17. Honest(Edge)'
  <2>1. honest' => (finAt' # None => Size \in FinAt /\ finAt' = SequenceOf(Size))
    BY <1>1 DEF Marked, Seen, Honest
  <2> QED
    BY <1>5, <1>13, <2>1 DEF Honest
<1> QED
  BY <1>3, <1>7, <1>8, <1>11, <1>12, <1>13, <1>15, <1>16, <1>17 DEF AsmInv

-----------------------------------------------------------------------------
(* The operations.                                                          *)

\* What is left of a sequence once its first k elements are cut off.
LEMMA CutOff ==
  ASSUME NEW S, NEW b \in Seq(S), NEW k \in 0 .. Len(b)
  PROVE  /\ SubSeq(b, k + 1, Len(b)) \in Seq(S) /\ Len(SubSeq(b, k + 1, Len(b))) = Len(b) - k
         /\ \A i \in 1 .. (Len(b) - k) : SubSeq(b, k + 1, Len(b))[i] = b[k + i]
<1> DEFINE r == SubSeq(b, k + 1, Len(b))
<1>1. Len(b) \in Nat /\ k \in Int /\ 0 <= k /\ k <= Len(b) /\ DOMAIN b = 1 .. Len(b)
      /\ \A i \in 1 .. Len(b) : b[i] \in S
  BY LenProperties
<1>2. k + 1 \in Int /\ \A i \in (k + 1) .. Len(b) : b[i] \in S
  BY <1>1
<1>3. /\ r \in Seq(S)
      /\ Len(r) = IF k + 1 <= Len(b) THEN (Len(b) - (k + 1)) + 1 ELSE 0
      /\ \A i \in 1 .. ((Len(b) - (k + 1)) + 1) : r[i] = b[(k + 1) + (i - 1)]
  BY <1>1, <1>2, SubSeqProperties
<1> HIDE DEF r
<1>4. Len(r) = Len(b) - k
  <2>1. PICK n \in Nat : n = Len(b)
    BY <1>1
  <2>2. Len(r) = IF k + 1 <= n THEN (n - (k + 1)) + 1 ELSE 0
    BY <1>3, <2>1
  <2>3. k \in Int /\ k <= n
    BY <1>1, <2>1
  <2>4. Len(r) = n - k
    BY <2>2, <2>3
  <2> QED
    BY <2>1, <2>4
<1>5. (Len(b) - (k + 1)) + 1 = Len(b) - k
  BY <1>1
<1>6. \A i \in 1 .. (Len(b) - k) : (k + 1) + (i - 1) = k + i
  BY <1>1
<1>7. \A i \in 1 .. (Len(b) - k) : r[i] = b[k + i]
  BY <1>3, <1>5, <1>6
<1> QED
  BY <1>3, <1>4, <1>7 DEF r

\* A run that agrees with a shorter chunk extends it to itself.
LEMMA Extended ==
  ASSUME NEW S, NEW w \in Seq(S), NEW b \in Seq(S), Len(w) < Len(b),
         \A i \in DOMAIN w : w[i] = b[i]
  PROVE  w \o SubSeq(b, Len(w) + 1, Len(b)) = b
<1> DEFINE r == SubSeq(b, Len(w) + 1, Len(b))
           c == w \o r
<1>1. Len(w) \in Nat /\ Len(b) \in Nat /\ DOMAIN w = 1 .. Len(w) /\ DOMAIN b = 1 .. Len(b)
  BY LenProperties
<1>2. r \in Seq(S) /\ Len(r) = Len(b) - Len(w)
      /\ \A i \in 1 .. (Len(b) - Len(w)) : r[i] = b[Len(w) + i]
  <2>1. Len(w) \in 0 .. Len(b)
    BY <1>1
  <2> QED
    BY <2>1, CutOff
<1> HIDE DEF r
<1>3. c \in Seq(S) /\ Len(c) = Len(b)
  <2>1. c \in Seq(S) /\ Len(c) = Len(w) + Len(r)
    BY <1>2, ConcatProperties
  <2> QED
    BY <1>1, <1>2, <2>1
<1>4. \A i \in 1 .. Len(b) : c[i] = b[i]
  <2>1. \A i \in 1 .. Len(w) + Len(r) : c[i] = IF i <= Len(w) THEN w[i] ELSE r[i - Len(w)]
    BY <1>2, ConcatProperties
  <2>2. ASSUME NEW i \in 1 .. Len(b)
        PROVE  c[i] = b[i]
    <3>1. i \in 1 .. Len(w) + Len(r)
      BY <1>1, <1>2
    <3>2. CASE i <= Len(w)
      BY <1>1, <2>1, <3>1, <3>2
    <3>3. CASE ~(i <= Len(w))
      <4>1. i - Len(w) \in 1 .. (Len(b) - Len(w)) /\ Len(w) + (i - Len(w)) = i
        BY <1>1, <3>3
      <4> QED
        BY <1>2, <2>1, <3>1, <3>3, <4>1
    <3> QED
      BY <3>2, <3>3
  <2> QED
    BY <2>2
<1> HIDE DEF c
<1>5. c = b
  BY <1>1, <1>3, <1>4, SeqEqual
<1> QED
  BY <1>5 DEF c, r

\* What becomes of a run that starts at the edge or ahead of it.
LEMMA PushFromKeeps ==
  ASSUME AsmInv, NEW e \in 0 .. Size, NEW q, NEW b, Piece(e, q, b),
         Marked(e), Shown(e, q, b), Seen(e), FinNear(e, q + Len(b)), ~draining, ~failed,
         PushFrom(SequenceOf(e), SequenceOf(q), b)
  PROVE  AsmInv'
<1> DEFINE s == SequenceOf(q)
<1>0. /\ e \in Int /\ q \in Int /\ e <= q /\ q - e < Half /\ Place(e, s) = q
      /\ Len(b) \in Nat \ {0} /\ DOMAIN b = 1 .. Len(b) /\ b \in Seq(Byte)
  BY PieceFacts DEF Piece
<1>1. CASE Fail(SequenceOf(e))
  BY <1>1, FailKeeps
<1>2. CASE PastFin(s, b) \/ Disagrees(SequenceOf(e), Distance(SequenceOf(e), s), b)
  <2>1. Fail(SequenceOf(e))
    BY <1>2 DEF PushFrom
  <2> QED
    BY <1>1, <2>1
<1>3. CASE /\ ~PastFin(s, b) /\ ~Disagrees(SequenceOf(e), Distance(SequenceOf(e), s), b)
           /\ ~Fail(SequenceOf(e))
  <2>1. CASE s = SequenceOf(e)
    <3>1. q = e
      BY <1>0, <2>1, SamePosition, Sizes
    <3>2. Consume(SequenceOf(e), b)
      BY <1>3, <2>1 DEF PushFrom
    <3> QED
      BY <1>3, <3>1, <3>2, ConsumeKeeps
  <2>2. CASE s # SequenceOf(e) /\ s \in DOMAIN pending
    <3>1. Extend(SequenceOf(e), s, b)
      BY <1>3, <2>2 DEF PushFrom
    <3>2. Len(pending[s]) \in Nat /\ DOMAIN pending[s] = 1 .. Len(pending[s]) /\ pending[s] \in Seq(Byte)
          /\ End(e, s) = q + Len(pending[s])
      BY <1>0, <2>2, ChunkFacts DEF AsmInv, Chunks
    <3>3. CASE Len(b) <= Len(pending[s])
      <4>1. Len(b) - Len(pending[s]) <= 0
        BY <1>0, <3>2, <3>3
      <4>2. Ignore(SequenceOf(e))
        BY <3>1, <4>1 DEF Extend
      <4>3. finAt # None => \E p \in FinAt : SequenceOf(p) = finAt /\ p \in e .. (e + Window)
                                           /\ \A t \in DOMAIN pending : End(e, t) <= p
        <5>1. SUFFICES ASSUME finAt # None
                       PROVE  \E p \in FinAt : SequenceOf(p) = finAt /\ p \in e .. (e + Window)
                                           /\ \A t \in DOMAIN pending : End(e, t) <= p
          OBVIOUS
        <5>2. PICK p \in FinAt : /\ SequenceOf(p) = finAt /\ p \in Int
                                 /\ q + Len(b) <= p /\ p <= e + Window
                                 /\ \A t \in DOMAIN pending : End(e, t) <= p
          BY <1>3, <5>1, BeforeFin
        <5>3. p \in e .. (e + Window)
          BY <1>0, <5>2, Sizes
        <5> QED
          BY <5>2, <5>3
      <4>4. \A x \in seen' : \/ x \in seen \/ x < e
                             \/ \E t \in DOMAIN pending : x \in Place(e, t) .. (End(e, t) - 1)
        <5>1. \A x \in q .. ((q + Len(b)) - 1) : x \in Place(e, s) .. (End(e, s) - 1)
          BY <1>0, <3>2, <3>3
        <5> QED
          BY <2>2, <5>1 DEF Shown
      <4> QED
        BY <4>2, <4>3, <4>4, IgnoreKeeps
    <3>4. CASE ~(Len(b) <= Len(pending[s]))
      <4>1. ~(Len(b) - Len(pending[s]) <= 0) /\ Len(pending[s]) < Len(b)
        BY <1>0, <3>2, <3>4
      <4>2. \A i \in DOMAIN pending[s] : pending[s][i] = b[i]
        <5>1. \A i \in DOMAIN b, j \in DOMAIN pending[s] :
                 q + i = Place(e, s) + j => b[i] = pending[s][j]
          BY <1>3, <2>2, Agreement DEF Seen, AsmInv
        <5>2. \A i \in DOMAIN pending[s] : i \in DOMAIN b
          BY <1>0, <3>2, <4>1
        <5> QED
          BY <1>0, <5>1, <5>2
      <4>3. pending[s] \o SubSeq(b, Len(pending[s]) + 1, Len(b)) = b
        BY <1>0, <3>2, <4>1, <4>2, Extended
      <4>4. /\ pending' = [pending EXCEPT ![s] = b]
            /\ pendingBytes' = pendingBytes + (Len(b) - Len(pending[s]))
            /\ next' = SequenceOf(e) /\ UNCHANGED <<finAt, failed, draining, out>>
        BY <1>3, <3>1, <4>1, <4>3 DEF Extend
      <4>5. pendingBytes' \in Int
        BY <1>0, <3>2, <4>4 DEF AsmInv, Room
      <4>6. pending' = [t \in DOMAIN pending \cup {s} |-> IF t = s THEN b ELSE pending[t]]
        BY <2>2, <4>4
      <4>7. Stores(q, b)
        BY <2>2, <4>1, <4>5, <4>6, <1>0, <3>2 DEF Stores
      <4> QED
        BY <1>3, <2>2, <4>4, <4>7, StoreKeeps
    <3> QED
      BY <3>3, <3>4
  <2>3. CASE s # SequenceOf(e) /\ s \notin DOMAIN pending
    <3>1. Buffer(SequenceOf(e), s, b)
      BY <1>3, <2>3 DEF PushFrom
    <3>2. ~(Cardinality(DOMAIN pending) >= MaxPending \/ pendingBytes + Len(b) > Limit)
      BY <1>3, <3>1 DEF Buffer
    <3>3. /\ pending' = [t \in DOMAIN pending \cup {s} |-> IF t = s THEN b ELSE pending[t]]
          /\ pendingBytes' = pendingBytes + Len(b)
          /\ next' = SequenceOf(e) /\ UNCHANGED <<finAt, failed, draining, out>>
      BY <3>1, <3>2 DEF Buffer
    <3>4. Cardinality(DOMAIN pending) < MaxPending
      BY <3>2, FS_CardinalityType, Sizes DEF AsmInv, Room
    <3>5. pendingBytes' \in Int
      BY <1>0, <3>3 DEF AsmInv, Room
    <3>6. Stores(q, b)
      BY <2>3, <3>3, <3>4, <3>5 DEF Stores
    <3> QED
      BY <1>3, <2>3, <3>3, <3>6, StoreKeeps
  <2> QED
    BY <2>1, <2>2, <2>3
<1> QED
  BY <1>1, <1>2, <1>3

\* The payload of a segment.
LEMMA BytesAre ==
  ASSUME NEW position \in Positions, NEW n \in 1 .. SegmentMax, position + n <= Size,
         NEW bytes \in Bytes(position, n)
  PROVE  /\ bytes \in Seq(Byte) /\ Len(bytes) = n /\ bytes # <<>>
         /\ \A i \in 1 .. n : Right(position + i - 1, bytes[i])
<1>0. n \in Nat /\ 1 <= n /\ position \in Int /\ 0 <= position /\ Size \in Nat
  BY Sizes DEF Positions
<1>1. PICK A \in SUBSET (Alter \cap position .. (position + n - 1)) :
        bytes = [i \in 1 .. n |-> IF position + i - 1 \in A THEN Forged ELSE Stream[position + i - 1]]
  BY DEF Bytes
<1>2. ASSUME NEW i \in 1 .. n
      PROVE  Right(position + i - 1, bytes[i]) /\ bytes[i] \in Byte
  <2>1. position + (i - 1) \in Positions
    BY <1>0 DEF Positions
  <2>2. bytes[i] = IF position + i - 1 \in A THEN Forged ELSE Stream[position + i - 1]
    BY <1>1
  <2>3. CASE position + i - 1 \in A
    BY <1>1, <2>1, <2>2, <2>3 DEF Right, Byte
  <2>4. CASE position + i - 1 \notin A
    BY <2>1, <2>2, <2>4 DEF Right, Byte
  <2> QED
    BY <2>3, <2>4
<1>3. bytes \in [1 .. n -> Byte]
  BY <1>1, <1>2
<1>4. bytes \in Seq(Byte) /\ Len(bytes) = n
  BY <1>0, <1>3, IsASeq, LenProperties
<1>5. bytes # <<>>
  BY <1>0, <1>4, EmptySeq
<1> QED
  BY <1>2, <1>4, <1>5

\* What a segment shows the assembler: nothing new, or a run of bytes that
\* starts at the edge or ahead of it.
Offered(e, q, b) ==
  /\ Piece(e, q, b) /\ Shown(e, q, b) /\ FinNear(e, q + Len(b)) /\ Len(b) <= SegmentMax
  /\ PushFrom(SequenceOf(e), SequenceOf(q), b)

LEMMA SegmentIs ==
  ASSUME AsmInv, ~failed, NEW position \in Positions, NEW n \in 1 .. SegmentMax,
         Segment(position, n)
  PROVE  LET e == Anchor(position)
         IN  /\ e \in 0 .. Size /\ ~draining /\ Marked(e) /\ Seen(e)
             /\ \/ /\ Ignore(SequenceOf(e)) /\ FinNear(e, position + n) /\ base # None /\ e = Edge
                   /\ \A x \in seen' : x \in seen \/ x < e
                \/ \E q, b : Offered(e, q, b)
<1> DEFINE e == Anchor(position)
           m == position + n
<1>0. /\ n \in Nat /\ 1 <= n /\ n <= SegmentMax /\ position \in Int /\ 0 <= position
      /\ m \in Int /\ position < m /\ m <= Size /\ m \in position .. (position + Window)
      /\ Size \in Nat /\ Window \in Nat /\ Window < Half /\ Half \in Nat
  BY Sizes DEF Positions, Segment
<1>1. ~draining /\ Near(position) /\ Near(m) /\ NearFin({position, m})
  BY DEF Segment
<1>2. /\ e \in 0 .. Size /\ Seen(e) /\ FinNear(e, m) /\ (next # None => next = SequenceOf(e))
      /\ {position, m} \subseteq (e - Window) .. (e + Window)
  BY <1>0, <1>1, Anchoring
<1>3. PICK bytes \in Bytes(position, n) :
        /\ Push(SequenceOf(position), bytes)
        /\ honest' = (honest /\ \A i \in 1 .. n : bytes[i] = Stream[position + i - 1])
  BY DEF Segment
<1>4. /\ bytes \in Seq(Byte) /\ Len(bytes) = n /\ bytes # <<>>
      /\ \A i \in 1 .. n : Right(position + i - 1, bytes[i])
  BY <1>0, <1>3, BytesAre
<1>5. /\ base' = IF next = None /\ next' # None THEN position ELSE base
      /\ seen' = seen \cup position .. (m - 1)
  <2>1. seen' = seen \cup position .. (position + n - 1)
    BY DEF Segment
  <2>2. (position + n) - 1 = position + (n - 1)
    BY <1>0
  <2> QED
    BY <2>1, <2>2 DEF Segment
<1>6. /\ next = None <=> base = None
      /\ base \in 0 .. Size \cup {None} /\ Len(out) \in Nat /\ Edge = base + Len(out)
      /\ base = None => out = <<>> /\ DOMAIN pending = {} /\ e = position
      /\ base # None => e = Edge
      /\ seen \subseteq Positions /\ honest \in BOOLEAN
  BY Types DEF AsmInv, Anchored, Anchor, Edge
<1> HIDE DEF e, m
<1>7. e \in Int /\ 0 <= e /\ e <= Size
  BY <1>0, <1>2
<1>8. SequenceOf(e) = IF next = None THEN SequenceOf(position) ELSE next
  BY <1>2, <1>6
<1>9. ASSUME next' # None
      PROVE  Marked(e)
  <2>1. base' \in 0 .. Size /\ base' = e - Len(out) /\ (base # None => base' = base)
    <3>1. CASE base = None
      <4>1. base' = e /\ Len(out) = 0
        BY <1>5, <1>6, <1>9, <3>1
      <4> QED
        BY <1>2, <1>7, <3>1, <4>1
    <3>2. CASE base # None
      <4>1. base' = base /\ base \in Int /\ e = base + Len(out)
        BY <1>0, <1>5, <1>6, <3>2
      <4> QED
        BY <1>6, <3>2, <4>1
    <3> QED
      BY <3>1, <3>2
  <2>2. seen' \subseteq Positions
    <3>1. position .. (m - 1) \subseteq Positions
      BY <1>0 DEF Positions
    <3> QED
      BY <1>5, <1>6, <3>1
  <2>3. seen \subseteq seen' /\ honest' \in BOOLEAN /\ (honest' => honest)
    BY <1>3, <1>5, <1>6
  <2> QED
    BY <1>6, <2>1, <2>2, <2>3 DEF Marked
<1>10. Before(SequenceOf(position), SequenceOf(e)) <=> position < e
  <2>1. e - position < Half /\ position - e < Half
    BY <1>0, <1>2, <1>7
  <2> QED
    BY <1>0, <1>7, <2>1, BeforeIs
<1>11. ASSUME NEW q, NEW b, PushFrom(SequenceOf(e), SequenceOf(q), b), Piece(e, q, b)
       PROVE  next' # None
  <2>1. SequenceOf(e) # None /\ Advance(SequenceOf(e), Len(b)) # None
    BY <1>7, <1>11, PieceFacts, AdvanceIs, SequenceIs
  <2> QED
    BY <1>11, <2>1 DEF PushFrom, Fail, Consume, Ignore, Extend, Buffer
<1>12. CASE ~(position < e)
  <2>1. PushFrom(SequenceOf(e), SequenceOf(position), bytes)
    BY <1>3, <1>4, <1>8, <1>10, <1>12 DEF Push
  <2>2. Piece(e, position, bytes)
    <3>1. DOMAIN bytes = 1 .. n
      BY <1>4, LenProperties
    <3> QED
      BY <1>0, <1>2, <1>4, <1>7, <1>12, <3>1 DEF Piece, m
  <2>3. Shown(e, position, bytes)
    <3>1. DOMAIN bytes = 1 .. n
      BY <1>4, LenProperties
    <3> QED
      BY <1>3, <1>4, <1>5, <3>1 DEF Shown, m
  <2>4. Offered(e, position, bytes)
    BY <1>0, <1>2, <1>4, <2>1, <2>2, <2>3 DEF Offered, m
  <2>5. Marked(e)
    BY <1>9, <1>11, <2>1, <2>2
  <2> QED
    BY <1>1, <1>2, <2>4, <2>5 DEF e
<1>13. CASE position < e
  <2>0. Distance(SequenceOf(position), SequenceOf(e)) = e - position
    <3>1. e - position \in 0 .. (Modulus - 1)
      BY <1>0, <1>2, <1>7, <1>13, Sizes
    <3> QED
      BY <1>0, <1>7, <3>1, DistanceIs
  <2>1. base # None /\ e = Edge
    BY <1>0, <1>6, <1>13
  <2>2. CASE e - position >= n
    <3>1. Ignore(SequenceOf(e))
      BY <1>3, <1>4, <1>8, <1>10, <1>13, <2>0, <2>2 DEF Push
    <3>2. next' # None
      BY <1>7, <3>1, SequenceIs DEF Ignore
    <3>3. ASSUME NEW x \in seen'
          PROVE  x \in seen \/ x < e
      <4>1. m <= e
        BY <1>0, <1>7, <2>2 DEF m
      <4>2. x \in seen \/ x \in position .. (m - 1)
        BY <1>5
      <4> QED
        BY <1>0, <1>7, <4>1, <4>2
    <3> QED
      BY <1>1, <1>2, <1>9, <2>1, <3>1, <3>2, <3>3 DEF e, m
  <2>3. CASE ~(e - position >= n)
    <3> DEFINE k == e - position
               b == SubSeq(bytes, k + 1, Len(bytes))
    <3>0. k \in 0 .. Len(bytes) /\ k \in Int /\ k < n /\ position + k = e
      BY <1>0, <1>4, <1>7, <1>13, <2>3
    <3>1. PushFrom(SequenceOf(e), SequenceOf(e), b)
      BY <1>3, <1>4, <1>8, <1>10, <1>13, <2>0, <2>3 DEF Push
    <3>2. b \in Seq(Byte) /\ Len(b) = n - k /\ \A i \in 1 .. (n - k) : b[i] = bytes[k + i]
      BY <1>4, <3>0, CutOff
    <3> HIDE DEF b, k
    <3>3. DOMAIN b = 1 .. (n - k) /\ b # <<>> /\ e + Len(b) = m /\ Len(b) <= SegmentMax
      <4>1. n - k > 0 /\ n - k <= SegmentMax /\ e + (n - k) = m
        BY <1>0, <1>7, <1>13, <3>0, Sizes DEF m, k
      <4>2. DOMAIN b = 1 .. (n - k)
        BY <3>2, LenProperties
      <4>3. b # <<>>
        BY <3>2, <4>1, EmptySeq
      <4> QED
        BY <3>2, <4>1, <4>2, <4>3
    <3>4. ASSUME NEW i \in 1 .. (n - k)
          PROVE  k + i \in 1 .. n /\ b[i] = bytes[k + i] /\ position + ((k + i) - 1) = e + (i - 1)
      BY <1>0, <1>7, <3>0, <3>2
    <3>5. Piece(e, e, b)
      <4>1. \A i \in DOMAIN b : Right(e + i - 1, b[i])
        <5>1. ASSUME NEW i \in DOMAIN b
              PROVE  Right(e + i - 1, b[i])
          <6>1. Right(position + ((k + i) - 1), bytes[k + i])
            BY <1>4, <3>3, <3>4
          <6> QED
            BY <3>3, <3>4, <6>1
        <5> QED
          BY <5>1
      <4>2. e + Len(b) <= e + Window /\ e + Len(b) <= Size
        BY <1>0, <1>2, <1>7, <3>3
      <4> QED
        BY <1>2, <1>7, <3>2, <3>3, <4>1, <4>2 DEF Piece
    <3>6. Shown(e, e, b)
      <4>1. e .. (m - 1) \subseteq seen'
        BY <1>0, <1>5, <1>7, <1>13
      <4>2. \A x \in seen' : x \in seen \/ x < e \/ x \in e .. (m - 1)
        BY <1>0, <1>5, <1>7
      <4>3. honest' => \A i \in DOMAIN b : b[i] = Stream[e + i - 1]
        <5>1. ASSUME honest', NEW i \in DOMAIN b
              PROVE  b[i] = Stream[e + i - 1]
          <6>1. bytes[k + i] = Stream[position + ((k + i) - 1)]
            BY <1>3, <3>3, <3>4, <5>1
          <6> QED
            BY <3>3, <3>4, <6>1
        <5> QED
          BY <5>1
      <4> QED
        BY <3>3, <4>1, <4>2, <4>3 DEF Shown
    <3>7. Offered(e, e, b)
      BY <1>2, <3>1, <3>3, <3>5, <3>6 DEF Offered
    <3>8. Marked(e)
      BY <1>9, <1>11, <3>1, <3>5
    <3> QED
      BY <1>1, <1>2, <3>7, <3>8 DEF e
  <2> QED
    BY <2>2, <2>3
<1> QED
  BY <1>12, <1>13

LEMMA SegmentKeeps ==
  ASSUME AsmInv, NEW position \in Positions, NEW n \in 1 .. SegmentMax, Segment(position, n)
  PROVE  AsmInv'
<1>1. CASE failed
  <2>1. PICK bytes \in Bytes(position, n) :
          /\ Push(SequenceOf(position), bytes)
          /\ honest' = (honest /\ \A i \in 1 .. n : bytes[i] = Stream[position + i - 1])
    BY DEF Segment
  <2>2. UNCHANGED <<next, pending, pendingBytes, finAt, failed, draining, out>>
    BY <1>1, <2>1 DEF Push, code
  <2>3. base' = base /\ seen' = seen
    BY <1>1, <2>2 DEF Segment
  <2>4. honest' \in BOOLEAN /\ (honest' => honest)
    BY <2>1 DEF AsmInv, Anchored
  <2>5. Anchored' /\ Chunks' /\ Room'
    BY <2>2, <2>3, <2>4 DEF AsmInv, Anchored, Chunks, Room, Edge
  <2>6. Placed(Edge)' /\ Spread(Edge)' /\ Agree(Edge)'
    BY <2>2, <2>3 DEF AsmInv, Placed, Spread, Agree, End, Edge
  <2>7. Handed' /\ Covered(Edge)'
    BY <2>2, <2>3 DEF AsmInv, Handed, Covered, End, Edge
  <2>8. FinPlace(Edge)' /\ Honest(Edge)'
    BY <2>2, <2>3, <2>4 DEF AsmInv, FinPlace, Honest, End, Edge
  <2> QED
    BY <2>5, <2>6, <2>7, <2>8 DEF AsmInv
<1>2. CASE ~failed
  <2> DEFINE e == Anchor(position)
  <2>1. /\ e \in 0 .. Size /\ ~draining /\ Marked(e) /\ Seen(e)
        /\ \/ /\ Ignore(SequenceOf(e)) /\ FinNear(e, position + n) /\ base # None /\ e = Edge
              /\ \A x \in seen' : x \in seen \/ x < e
           \/ \E q, b : Offered(e, q, b)
    BY <1>2, SegmentIs
  <2> HIDE DEF e
  <2>2. CASE /\ Ignore(SequenceOf(e)) /\ FinNear(e, position + n) /\ base # None /\ e = Edge
             /\ \A x \in seen' : x \in seen \/ x < e
    <3>1. finAt # None => \E p \in FinAt : SequenceOf(p) = finAt /\ p \in e .. (e + Window)
                                         /\ \A s \in DOMAIN pending : End(e, s) <= p
      <4>1. FinPlace(e)
        BY <2>2 DEF AsmInv
      <4> QED
        BY <1>2, <2>2, <4>1 DEF FinPlace
    <3> QED
      BY <1>2, <2>1, <2>2, <3>1, IgnoreKeeps
  <2>3. CASE \E q, b : Offered(e, q, b)
    BY <1>2, <2>1, <2>3, PushFromKeeps DEF Offered
  <2> QED
    BY <2>1, <2>2, <2>3
<1> QED
  BY <1>1, <1>2

\* The first packet of the sender anchors the direction at position 0.
LEMMA SynKeeps == AsmInv /\ Syn => AsmInv'
<1> SUFFICES ASSUME AsmInv, Syn PROVE AsmInv'
  OBVIOUS
<1>0. /\ ~draining /\ UNCHANGED <<pending, pendingBytes, finAt, failed, draining, out, seen, honest>>
      /\ next' = IF next = None THEN SequenceOf(0) ELSE next
      /\ base' = IF base = None THEN 0 ELSE base
  BY DEF Syn, SeedAt
<1>1. CASE base # None
  <2>1. next' = next /\ base' = base
    BY <1>0, <1>1, Types DEF AsmInv
  <2>5. Anchored' /\ Chunks' /\ Room'
    BY <1>0, <2>1 DEF AsmInv, Anchored, Chunks, Room, Edge
  <2>6. Placed(Edge)' /\ Spread(Edge)' /\ Agree(Edge)'
    BY <1>0, <2>1 DEF AsmInv, Placed, Spread, Agree, End, Edge
  <2>7. Handed' /\ Covered(Edge)'
    BY <1>0, <2>1 DEF AsmInv, Handed, Covered, End, Edge
  <2>8. FinPlace(Edge)' /\ Honest(Edge)'
    BY <1>0, <2>1 DEF AsmInv, FinPlace, Honest, End, Edge
  <2> QED
    BY <2>5, <2>6, <2>7, <2>8 DEF AsmInv
<1>2. CASE base = None
  <2>1. /\ next = None /\ out = <<>> /\ seen = {} /\ pending = <<>> /\ DOMAIN pending = {}
        /\ base' = 0 /\ next' = SequenceOf(0) /\ DOMAIN pending' = {} /\ seen' = {}
    BY <1>0, <1>2 DEF AsmInv, Anchored
  <2>2. Len(out) = 0 /\ Edge' = 0 /\ 0 # None /\ 0 \in 0 .. Size /\ 0 <= Size /\ DOMAIN out = {}
    BY <1>0, <2>1, Sizes DEF Edge, None
  <2>3. Anchored'
    BY <1>0, <2>1, <2>2 DEF Anchored, AsmInv
  <2>4. Chunks' /\ Room'
    BY <1>0 DEF AsmInv, Chunks, Room
  <2>5. Placed(Edge)' /\ Spread(Edge)' /\ Agree(Edge)' /\ Covered(Edge)'
    BY <2>1 DEF Placed, Spread, Agree, Covered
  <2>6. Honest(Edge)'
    BY <1>0, <2>1 DEF Honest, AsmInv
  <2>7. Handed'
    BY <1>0, <2>1, <2>2 DEF Handed
  <2>8. FinPlace(Edge)'
    <3>1. ASSUME finAt # None
          PROVE  \E p \in FinAt : SequenceOf(p) = finAt /\ p \in 0 .. (0 + Window)
      <4>1. PICK p \in FinAt : SequenceOf(p) = finAt /\ 0 \in (p - Window) .. (p + Window)
        BY <3>1 DEF Syn, NearFin
      <4>2. p \in 0 .. (0 + Window)
        BY <4>1, CaptureAssumption, Sizes
      <4> QED
        BY <4>1, <4>2
    <3> QED
      BY <1>0, <2>1, <2>2, <3>1 DEF FinPlace
  <2> QED
    BY <2>3, <2>4, <2>5, <2>6, <2>7, <2>8 DEF AsmInv
<1> QED
  BY <1>1, <1>2

LEMMA FinKeeps ==
  ASSUME AsmInv, NEW position \in FinAt, Fin(position)
  PROVE  AsmInv'
<1>0. /\ ~draining /\ Near(position) /\ finAt' = SequenceOf(position)
      /\ failed' = (\/ failed
                    \/ finAt # None /\ finAt # SequenceOf(position)
                    \/ next # None /\ Before(SequenceOf(position), next)
                    \/ \E s \in DOMAIN pending :
                         Before(SequenceOf(position), Advance(s, Len(pending[s]))))
      /\ honest' = (honest /\ position = Size)
      /\ UNCHANGED <<next, pending, pendingBytes, draining, out, base, seen>>
  BY DEF Fin, FinSeen
<1>1. Edge' = Edge /\ failed' \in BOOLEAN /\ (failed => failed') /\ honest' \in BOOLEAN /\ (honest' => honest)
  BY <1>0 DEF Edge, AsmInv, Anchored
<1>2. position \in Int /\ Window \in Nat /\ Window < Half /\ Half \in Nat
  BY Sizes, CaptureAssumption
<1>3. Anchored' /\ Chunks' /\ Room'
  BY <1>0, <1>1 DEF AsmInv, Anchored, Chunks, Room
<1>4. Placed(Edge)' /\ Spread(Edge)' /\ Agree(Edge)'
  BY <1>0, <1>1 DEF AsmInv, Placed, Spread, Agree, End
<1>5. Handed' /\ Covered(Edge)'
  BY <1>0, <1>1 DEF AsmInv, Handed, Covered, End
<1>6. Honest(Edge)'
  BY <1>0, <1>1 DEF AsmInv, Honest
<1>7. FinPlace(Edge)'
  <2>1. ASSUME base # None, ~failed'
        PROVE  position \in Edge .. (Edge + Window) /\ \A s \in DOMAIN pending : End(Edge, s) <= position
    <3>1. Edge \in Int /\ next = SequenceOf(Edge) /\ next # None /\ Chunks /\ Placed(Edge)
      BY <2>1, Types DEF AsmInv
    <3>2. position \in (Edge - Window) .. (Edge + Window)
      BY <2>1, <1>0 DEF Near
    <3>3. ~Before(SequenceOf(position), SequenceOf(Edge))
      BY <1>0, <2>1, <3>1
    <3>4. Edge - position < Half /\ position - Edge < Half
      BY <1>2, <3>1, <3>2
    <3>5. position >= Edge
      BY <1>2, <3>1, <3>3, <3>4, BeforeIs
    <3>6. ASSUME NEW s \in DOMAIN pending
          PROVE  End(Edge, s) <= position
      <4>1. /\ End(Edge, s) \in Int /\ Place(Edge, s) \in Int /\ Place(Edge, s) < End(Edge, s)
            /\ Advance(s, Len(pending[s])) = SequenceOf(End(Edge, s))
        <5>1. /\ Place(Edge, s) \in Int /\ SequenceOf(Place(Edge, s)) = s
              /\ Len(pending[s]) \in Nat \ {0} /\ End(Edge, s) = Place(Edge, s) + Len(pending[s])
          BY <3>1, ChunkFacts
        <5>2. Advance(SequenceOf(Place(Edge, s)), Len(pending[s])) = SequenceOf(Place(Edge, s) + Len(pending[s]))
          BY <5>1, AdvanceIs
        <5> QED
          BY <5>1, <5>2
      <4>2. Place(Edge, s) > Edge /\ End(Edge, s) <= Edge + Window
        BY <1>0, <3>1 DEF Placed
      <4>3. ~Before(SequenceOf(position), SequenceOf(End(Edge, s)))
        BY <1>0, <2>1, <4>1
      <4>4. End(Edge, s) - position < Half /\ position - End(Edge, s) < Half
        BY <1>2, <3>1, <3>2, <3>5, <4>1, <4>2
      <4> QED
        BY <1>2, <4>1, <4>3, <4>4, BeforeIs
    <3> QED
      BY <1>2, <3>1, <3>2, <3>5, <3>6
  <2> QED
    BY <1>0, <1>1, <2>1 DEF FinPlace, End
<1> QED
  BY <1>3, <1>4, <1>5, <1>6, <1>7 DEF AsmInv

LEMMA DrainEndsKeeps == AsmInv /\ DrainEnds => AsmInv'
<1> SUFFICES ASSUME AsmInv, DrainEnds PROVE AsmInv'
  OBVIOUS
<1>0. /\ draining /\ Due = {} /\ draining' = FALSE
      /\ UNCHANGED <<next, pending, pendingBytes, finAt, failed, base, out, seen, honest>>
  BY DEF DrainEnds, history
<1>1. Edge' = Edge /\ base # None
  BY <1>0 DEF Edge, AsmInv, Anchored
<1>2. Edge \in Int /\ next = SequenceOf(Edge)
  BY <1>1, Types DEF AsmInv
<1>3. ASSUME NEW s \in DOMAIN pending
      PROVE  Place(Edge, s) > Edge
  <2>1. Before(SequenceOf(Edge), s)
    BY <1>0, <1>2 DEF Due
  <2>2. Place(Edge, s) \in Int /\ SequenceOf(Place(Edge, s)) = s
    BY <1>2, ChunkFacts DEF AsmInv
  <2>3. Place(Edge, s) - Edge < Half /\ Edge - Place(Edge, s) < Half
    BY <1>2, <2>2, Sizes DEF AsmInv, Placed
  <2> QED
    BY <1>2, <2>1, <2>2, <2>3, BeforeIs
<1>4. Anchored' /\ Chunks' /\ Room'
  BY <1>0, <1>1 DEF AsmInv, Anchored, Chunks, Room
<1>5. Placed(Edge)'
  BY <1>0, <1>1, <1>3 DEF AsmInv, Placed, End
<1>6. Spread(Edge)' /\ Agree(Edge)'
  BY <1>0, <1>1 DEF AsmInv, Spread, Agree, End
<1>7. Handed' /\ Covered(Edge)'
  BY <1>0, <1>1 DEF AsmInv, Handed, Covered, End
<1>8. FinPlace(Edge)' /\ Honest(Edge)'
  BY <1>0, <1>1 DEF AsmInv, FinPlace, Honest, End
<1> QED
  BY <1>4, <1>5, <1>6, <1>7, <1>8 DEF AsmInv

\* What of a chunk that is due lies ahead of the edge.
LEMMA FreshIs ==
  ASSUME AsmInv, draining, NEW s \in Due
  PROVE  LET f == IF End(Edge, s) > Edge THEN End(Edge, s) ELSE Edge
             fresh == SubSeq(pending[s], Distance(s, next) + 1, Len(pending[s]))
         IN  /\ fresh \in Seq(Byte) /\ Len(fresh) = f - Edge
             /\ \A i \in DOMAIN fresh : Right(Edge + i - 1, fresh[i])
             /\ next = SequenceOf(Edge) /\ s \in DOMAIN pending /\ Place(Edge, s) <= Edge
<1> DEFINE e == Edge
           f == IF End(e, s) > e THEN End(e, s) ELSE e
           k == e - Place(e, s)
           fresh == SubSeq(pending[s], k + 1, Len(pending[s]))
<1>1. e \in Int /\ next = SequenceOf(e) /\ s \in DOMAIN pending /\ ~Before(SequenceOf(e), s)
  BY Types DEF AsmInv, Anchored, Due
<1> HIDE DEF e
<1>2. /\ Place(e, s) \in Int /\ SequenceOf(Place(e, s)) = s /\ End(e, s) \in Int
      /\ Len(pending[s]) \in Nat \ {0} /\ DOMAIN pending[s] = 1 .. Len(pending[s])
      /\ End(e, s) = Place(e, s) + Len(pending[s]) /\ pending[s] \in Seq(Byte)
  BY <1>1, ChunkFacts DEF AsmInv, Chunks
<1>3. /\ Place(e, s) \in (e - Window) .. (e + Window)
      /\ \A i \in DOMAIN pending[s] : Right(Place(e, s) + i - 1, pending[s][i])
  BY <1>1 DEF e, AsmInv, Placed
<1>4. Place(e, s) <= e
  <2>1. Place(e, s) - e < Half /\ e - Place(e, s) < Half
    BY <1>1, <1>2, <1>3, Sizes
  <2> QED
    BY <1>1, <1>2, <2>1, BeforeIs
<1>5. Distance(s, next) = k /\ k \in Nat
  <2>1. e - Place(e, s) \in 0 .. (Modulus - 1)
    BY <1>1, <1>2, <1>3, <1>4, Sizes
  <2> QED
    BY <1>1, <1>2, <2>1, DistanceIs
<1>6. CASE End(e, s) > e
  <2>1. f = End(e, s) /\ k \in 0 .. Len(pending[s]) /\ f - e = Len(pending[s]) - k
    BY <1>1, <1>2, <1>4, <1>6
  <2>2. fresh \in Seq(Byte) /\ Len(fresh) = Len(pending[s]) - k
        /\ \A i \in 1 .. (Len(pending[s]) - k) : fresh[i] = pending[s][k + i]
    BY <1>2, <2>1, CutOff
  <2> HIDE DEF fresh
  <2>3. ASSUME NEW i \in DOMAIN fresh
        PROVE  Right(e + i - 1, fresh[i])
    <3>1. i \in 1 .. (Len(pending[s]) - k)
      BY <2>2, LenProperties
    <3>2. k + i \in DOMAIN pending[s] /\ fresh[i] = pending[s][k + i]
      BY <1>2, <1>5, <2>2, <3>1
    <3>3. Place(e, s) + ((k + i) - 1) = e + (i - 1)
      BY <1>1, <1>2, <3>1
    <3>4. Right(Place(e, s) + ((k + i) - 1), pending[s][k + i])
      BY <1>3, <3>2
    <3> QED
      BY <3>2, <3>3, <3>4
  <2>4. Len(fresh) = f - e
    BY <2>1, <2>2
  <2> QED
    BY <1>1, <1>4, <1>5, <2>2, <2>3, <2>4 DEF e, fresh
<1>7. CASE ~(End(e, s) > e)
  <2>1. f = e /\ f - e = 0 /\ Len(pending[s]) < k + 1 /\ k + 1 \in Int
    BY <1>1, <1>2, <1>4, <1>7
  <2>2. fresh = <<>>
    BY <1>2, <2>1, SubSeqEmpty
  <2>6. <<>> \in Seq(Byte) /\ Len(<<>>) = 0 /\ DOMAIN <<>> = {}
    OBVIOUS
  <2> HIDE DEF fresh
  <2>3. fresh \in Seq(Byte) /\ Len(fresh) = 0 /\ DOMAIN fresh = {}
    BY <2>2, <2>6
  <2>4. \A i \in DOMAIN fresh : Right(e + i - 1, fresh[i])
    BY <2>3
  <2>5. Len(fresh) = f - e
    BY <2>1, <2>3
  <2> QED
    BY <1>1, <1>4, <1>5, <2>3, <2>4, <2>5 DEF e, fresh
<1> QED
  BY <1>6, <1>7

LEMMA DrainKeeps == AsmInv /\ Drain => AsmInv'
<1> SUFFICES ASSUME AsmInv, Drain PROVE AsmInv'
  OBVIOUS
<1>0. PICK s \in Due : DrainOne(s)
  BY DEF Drain
<1>30. PICK e \in Int : e = Edge
  BY Types DEF AsmInv
<1>31. End(e, s) \in Int
  BY <1>0, ChunkFacts DEF AsmInv, Due
<1>32. PICK f \in Int : f = IF End(e, s) > e THEN End(e, s) ELSE e
  BY <1>31
<1> DEFINE fresh == SubSeq(pending[s], Distance(s, next) + 1, Len(pending[s]))
<1>1. /\ fresh \in Seq(Byte) /\ Len(fresh) = f - e
      /\ \A i \in DOMAIN fresh : Right(e + i - 1, fresh[i])
      /\ next = SequenceOf(e) /\ s \in DOMAIN pending /\ Place(e, s) <= e /\ draining
  BY <1>30, <1>32, FreshIs DEF Drain
<1>2. /\ pending' = [t \in DOMAIN pending \ {s} |-> pending[t]]
      /\ pendingBytes' = pendingBytes - Len(pending[s])
      /\ out' = out \o fresh /\ next' = Advance(next, Len(fresh))
      /\ UNCHANGED <<finAt, failed, draining, base, seen, honest>>
  BY <1>0 DEF DrainOne, Drain
<1>3. /\ e \in Int /\ base # None /\ base \in 0 .. Size /\ Len(out) \in Nat /\ out \in Seq(Byte)
      /\ base = e - Len(out) /\ e <= Size /\ ~failed /\ seen \subseteq Positions
  <2>1. base # None /\ ~failed /\ base \in 0 .. Size /\ seen \subseteq Positions
    BY <1>1 DEF AsmInv, Anchored
  <2>2. e \in Int /\ Len(out) \in Nat /\ out \in Seq(Byte) /\ e <= Size /\ base \in Int
    BY <1>30, <2>1, Types, Sizes DEF AsmInv
  <2>3. e = base + Len(out)
    BY <1>30 DEF Edge
  <2> QED
    BY <2>1, <2>2, <2>3
<1>4. Placed(e) /\ Spread(e) /\ Agree(e) /\ Handed /\ Covered(e) /\ FinPlace(e) /\ Honest(e)
      /\ Chunks /\ Room
  BY <1>30 DEF AsmInv
<1> HIDE DEF fresh
<1>5. ASSUME NEW t \in DOMAIN pending
      PROVE  /\ t \in Sequence /\ Place(e, t) \in Int /\ End(e, t) \in Int /\ Place(e, t) < End(e, t)
             /\ Len(pending[t]) \in Nat /\ End(e, t) = Place(e, t) + Len(pending[t])
             /\ Place(e, t) \in (e - Window) .. (e + Window) /\ End(e, t) <= e + Window
             /\ End(e, s) - Place(e, t) <= Window
  BY <1>1, <1>3, <1>4, ChunkFacts DEF Placed, Spread, Chunks
<1>6. f \in Int /\ e <= f /\ f <= e + Window /\ End(e, s) <= f
  <2>1. End(e, s) <= e + Window /\ End(e, s) \in Int /\ Window \in Nat
    BY <1>1, <1>5, Sizes
  <2>2. CASE End(e, s) > e
    BY <1>3, <1>32, <2>1, <2>2
  <2>3. CASE ~(End(e, s) > e)
    BY <1>3, <1>32, <2>1, <2>3
  <2> QED
    BY <2>2, <2>3
<1>7. f <= Size
  <2>1. CASE End(e, s) > e
    <3>1. f = End(e, s) /\ End(e, s) - 1 \in Place(e, s) .. (End(e, s) - 1)
      BY <1>1, <1>5, <1>32, <2>1
    <3>2. End(e, s) - 1 \in Positions
      BY <1>1, <1>3, <1>4, <3>1 DEF Placed
    <3> QED
      BY <1>1, <1>5, <3>1, <3>2, Sizes DEF Positions
  <2>2. CASE ~(End(e, s) > e)
    BY <1>3, <1>32, <2>2
  <2> QED
    BY <2>1, <2>2
<1>8. next' = SequenceOf(f)
  <2>1. Advance(SequenceOf(e), f - e) = SequenceOf(e + (f - e)) /\ e + (f - e) = f
    <3>1. f - e \in Int /\ e + (f - e) = f
      BY <1>3, <1>6
    <3> QED
      BY <1>3, <3>1, AdvanceIs
  <2> QED
    BY <1>1, <1>2, <2>1
<1>9. Handed' /\ Edge' = f /\ out' \in Seq(Byte)
  <2>1. base' = e - Len(out) /\ (\A i \in DOMAIN out : Right(base' + i - 1, out[i]))
        /\ base' .. (e - 1) \subseteq seen'
    BY <1>2, <1>3, <1>4, <1>30 DEF Handed
  <2>2. e .. ((e + Len(fresh)) - 1) \subseteq seen'
    <3>1. e + Len(fresh) = f
      BY <1>1, <1>3, <1>6
    <3>2. CASE End(e, s) > e
      <4>1. f = End(e, s)
        BY <1>32, <3>2
      <4>2. \A x \in e .. (f - 1) : x \in Place(e, s) .. (End(e, s) - 1)
        BY <1>1, <1>3, <1>5, <4>1
      <4> QED
        BY <1>1, <1>2, <1>4, <3>1, <4>2 DEF Placed
    <3>3. CASE ~(End(e, s) > e)
      <4>1. f = e /\ e .. (e - 1) = {}
        BY <1>3, <1>32, <3>3
      <4> QED
        BY <3>1, <4>1
    <3> QED
      BY <3>2, <3>3
  <2>3. Edge' = e + Len(fresh) /\ e + Len(fresh) = f /\ Handed' /\ out' \in Seq(Byte)
    <3>1. e + Len(fresh) = f
      BY <1>1, <1>3, <1>6
    <3> QED
      BY <1>1, <1>2, <1>3, <2>1, <2>2, <3>1, HandedOn
  <2> QED
    BY <2>3
<1>10. Anchored'
  BY <1>1, <1>2, <1>3, <1>7, <1>8, <1>9 DEF Anchored, AsmInv
<1>11. DOMAIN pending' = DOMAIN pending \ {s} /\ \A t \in DOMAIN pending' : pending'[t] = pending[t]
  BY <1>2
<1>12. ASSUME NEW t \in DOMAIN pending'
       PROVE  Place(f, t) = Place(e, t) /\ End(f, t)' = End(e, t) /\ t \in DOMAIN pending
  <2>1. t \in DOMAIN pending /\ pending'[t] = pending[t]
    BY <1>11
  <2>4. PICK w \in Int, x \in Int :
          /\ w = Place(e, t) /\ x = End(e, s) /\ x - w <= Window
          /\ w \in (e - Window) .. (e + Window)
    <3>1. /\ Place(e, t) \in Int /\ End(e, s) \in Int /\ End(e, s) - Place(e, t) <= Window
          /\ Place(e, t) \in (e - Window) .. (e + Window)
      BY <1>1, <1>5, <2>1
    <3> QED
      BY <3>1
  <2>5. e <= f /\ (f = x \/ f = e)
    BY <1>6, <1>32, <2>4
  <2>2. Place(e, t) - f < Half /\ f - Place(e, t) < Half
    <3>1. e - Window <= w /\ w <= e + Window
      BY <1>3, <2>4, Sizes
    <3> QED
      BY <2>4, <2>5, <3>1, Sizes
  <2>3. Place(f, t) = Place(e, t)
    BY <1>3, <1>5, <1>6, <2>1, <2>2, Moved
  <2> QED
    BY <2>1, <2>3 DEF End
<1>13. Same(e, f)
  BY <1>11, <1>12 DEF Same
<1>14. Chunks'
  BY <1>2, <1>4, <1>11 DEF Chunks
<1>15. Room'
  <2>1. IsFiniteSet(DOMAIN pending) /\ Cardinality(DOMAIN pending) \in Nat
    BY <1>4, FS_CardinalityType DEF Room
  <2>2. IsFiniteSet(DOMAIN pending') /\ Cardinality(DOMAIN pending') = Cardinality(DOMAIN pending) - 1
    BY <1>1, <1>11, <2>1, FS_RemoveElement
  <2>3. pendingBytes' \in Int
    BY <1>1, <1>2, <1>4, <1>5 DEF Room
  <2> QED
    BY <1>4, <2>1, <2>2, <2>3, Sizes DEF Room
<1>16. Placed(Edge)'
  <2>1. ASSUME NEW t \in DOMAIN pending'
        PROVE  /\ Place(f, t) \in (f - Window) .. (f + Window)
               /\ End(f, t)' <= f + Window
               /\ Place(f, t) .. (End(f, t)' - 1) \subseteq seen
               /\ \A i \in DOMAIN pending'[t] : Right(Place(f, t) + i - 1, pending'[t][i])
    <3>1. Place(f, t) \in (f - Window) .. (f + Window) /\ End(f, t)' <= f + Window
      BY <1>3, <1>5, <1>6, <1>12, <1>32, Sizes
    <3>2. /\ Place(f, t) .. (End(f, t)' - 1) \subseteq seen
          /\ \A i \in DOMAIN pending'[t] : Right(Place(f, t) + i - 1, pending'[t][i])
      BY <1>4, <1>11, <1>12 DEF Placed
    <3> QED
      BY <3>1, <3>2
  <2> QED
    BY <1>1, <1>2, <1>9, <2>1 DEF Placed
<1>17. Spread(Edge)'
  BY <1>4, <1>9, <1>12 DEF Spread
<1>18. Agree(Edge)'
  BY <1>4, <1>9, <1>13 DEF Same, Agree
<1>19. Covered(Edge)'
  <2>1. ASSUME NEW x \in seen
        PROVE  x < f \/ \E t \in DOMAIN pending' : x \in Place(f, t) .. (End(f, t)' - 1)
    <3>0. x \in Int
      BY <1>3, Sizes DEF Positions
    <3>1. CASE x < e
      BY <1>3, <1>6, <3>0, <3>1
    <3>2. CASE \E t \in DOMAIN pending : x \in Place(e, t) .. (End(e, t) - 1)
      <4>1. PICK t \in DOMAIN pending : x \in Place(e, t) .. (End(e, t) - 1)
        BY <3>2
      <4>2. CASE t = s
        BY <1>5, <1>6, <3>0, <4>1, <4>2
      <4>3. CASE t # s
        BY <1>11, <1>12, <4>1, <4>3
      <4> QED
        BY <4>2, <4>3
    <3> QED
      BY <1>3, <1>4, <3>1, <3>2 DEF Covered
  <2> QED
    BY <1>2, <1>9, <2>1 DEF Covered
<1>20. FinPlace(Edge)'
  <2>1. ASSUME finAt # None
        PROVE  \E p \in FinAt : /\ SequenceOf(p) = finAt /\ p \in f .. (f + Window)
                                /\ \A t \in DOMAIN pending' : End(f, t)' <= p
    <3>1. PICK p \in FinAt : /\ SequenceOf(p) = finAt /\ p \in e .. (e + Window)
                             /\ \A t \in DOMAIN pending : End(e, t) <= p
      BY <1>3, <1>4, <2>1 DEF FinPlace
    <3>2. p \in f .. (f + Window)
      BY <1>1, <1>3, <1>6, <3>1, <1>32, Sizes
    <3> QED
      BY <1>12, <3>1, <3>2
  <2> QED
    BY <1>2, <1>9, <2>1 DEF FinPlace
<1>21. Honest(Edge)'
  BY <1>2, <1>4, <1>9, <1>13 DEF Same, Honest
<1> QED
  BY <1>9, <1>10, <1>14, <1>15, <1>16, <1>17, <1>18, <1>19, <1>20, <1>21 DEF AsmInv

-----------------------------------------------------------------------------
(* The invariant holds in every state.                                      *)

LEMMA Starts == Init => AsmInv
<1> SUFFICES ASSUME Init PROVE AsmInv
  OBVIOUS
<1>1. /\ next = None /\ pending = <<>> /\ pendingBytes = 0 /\ finAt = None /\ failed = FALSE
      /\ draining = FALSE /\ base = None /\ out = <<>> /\ seen = {} /\ honest = TRUE
  BY DEF Init
<1>2. DOMAIN pending = {} /\ pending = [s \in DOMAIN pending |-> pending[s]]
  BY <1>1
<1>3. Anchored
  <2>1. out \in Seq(Byte)
    BY <1>1
  <2>2. base \in 0..Size \cup {None} /\ seen \subseteq Positions
    BY <1>1
  <2> QED
    BY <1>1, <2>1, <2>2 DEF Anchored
<1>4. Chunks /\ Placed(Edge) /\ Spread(Edge) /\ Agree(Edge)
  BY <1>2 DEF Chunks, Placed, Spread, Agree
<1>5. Handed /\ Covered(Edge) /\ FinPlace(Edge) /\ Honest(Edge)
  BY <1>1, <1>2 DEF Handed, Covered, FinPlace, Honest
<1>6. Room
  <2>1. IsFiniteSet({}) /\ Cardinality({}) = 0
    BY FS_EmptySet
  <2> QED
    BY <1>1, <1>2, <2>1, Sizes DEF Room
<1> QED
  BY <1>3, <1>4, <1>5, <1>6 DEF AsmInv

LEMMA Steps == AsmInv /\ [Next]_vars => AsmInv'
<1> SUFFICES ASSUME AsmInv, [Next]_vars PROVE AsmInv'
  OBVIOUS
<1>1. CASE Syn
  BY <1>1, SynKeeps
<1>2. CASE \E position \in Positions, n \in 1..SegmentMax : Segment(position, n)
  BY <1>2, SegmentKeeps
<1>3. CASE Drain
  BY <1>3, DrainKeeps
<1>4. CASE DrainEnds
  BY <1>4, DrainEndsKeeps
<1>5. CASE \E position \in FinAt : Fin(position)
  BY <1>5, FinKeeps
<1>6. CASE UNCHANGED vars
  <2>1. UNCHANGED <<next, pending, pendingBytes, finAt, failed, draining, base, out, seen, honest>>
    BY <1>6 DEF vars
  <2>2. Anchored' /\ Chunks' /\ Room'
    BY <2>1 DEF AsmInv, Anchored, Chunks, Room, Edge
  <2>3. Placed(Edge)' /\ Spread(Edge)' /\ Agree(Edge)'
    BY <2>1 DEF AsmInv, Placed, Spread, Agree, End, Edge
  <2>4. Handed' /\ Covered(Edge)'
    BY <2>1 DEF AsmInv, Handed, Covered, End, Edge
  <2>5. FinPlace(Edge)' /\ Honest(Edge)'
    BY <2>1 DEF AsmInv, FinPlace, Honest, End, Edge
  <2> QED
    BY <2>2, <2>3, <2>4, <2>5 DEF AsmInv
<1> QED
  BY <1>1, <1>2, <1>3, <1>4, <1>5, <1>6 DEF Next

\* Every reachable state of an assembler satisfies the invariant the
\* theorems below follow from.
THEOREM Invariance == Spec => []AsmInv
<1> QED
  BY Starts, Steps, PTL DEF Spec

-----------------------------------------------------------------------------
(* What it says of the properties.                                          *)

LEMMA Agreeing == AsmInv => ChunksAgree
<1> SUFFICES ASSUME AsmInv, NEW s \in DOMAIN pending, NEW t \in DOMAIN pending,
                    NEW i \in 1..SegmentMax, NEW j \in 1..SegmentMax,
                    i \in DOMAIN pending[s], j \in DOMAIN pending[t], Advance(s, i) = Advance(t, j)
             PROVE  pending[s][i] = pending[t][j]
  BY DEF ChunksAgree
<1>1. Edge \in Int /\ Chunks /\ Spread(Edge) /\ Agree(Edge)
  BY Types DEF AsmInv
<1>2. ASSUME NEW u \in {s, t}
      PROVE  /\ Place(Edge, u) \in Int /\ SequenceOf(Place(Edge, u)) = u /\ End(Edge, u) \in Int
             /\ End(Edge, u) = Place(Edge, u) + Len(pending[u])
             /\ DOMAIN pending[u] = 1 .. Len(pending[u]) /\ Len(pending[u]) \in Nat
  BY <1>1, ChunkFacts
<1>3. /\ Place(Edge, s) + i <= End(Edge, s) /\ Place(Edge, t) + j <= End(Edge, t)
      /\ i \in Int /\ j \in Int /\ i >= 1 /\ j >= 1
  BY <1>2
<1>4. End(Edge, t) - Place(Edge, s) <= Window /\ End(Edge, s) - Place(Edge, t) <= Window
  BY <1>1 DEF Spread
<1>5. SequenceOf(Place(Edge, s) + i) = SequenceOf(Place(Edge, t) + j)
  BY <1>2, <1>3, AdvanceIs
<1>6. Place(Edge, s) + i = Place(Edge, t) + j
  <2>1. PICK a \in Int : a = Place(Edge, s) + i
    BY <1>2, <1>3
  <2>2. PICK c \in Int : c = Place(Edge, t) + j
    BY <1>2, <1>3
  <2>3. a - c < Modulus /\ c - a < Modulus
    <3>1. a <= End(Edge, s) /\ c <= End(Edge, t) /\ a > Place(Edge, s) /\ c > Place(Edge, t)
      BY <1>2, <1>3, <2>1, <2>2
    <3>2. PICK w \in Int, x \in Int, y \in Int, z \in Int :
            w = Place(Edge, s) /\ x = End(Edge, s) /\ y = Place(Edge, t) /\ z = End(Edge, t)
      BY <1>2
    <3> QED
      BY <1>4, <3>1, <3>2, Sizes
  <2>4. SequenceOf(a) = SequenceOf(c)
    BY <1>5, <2>1, <2>2
  <2>5. a = c
    BY <2>3, <2>4, SamePosition
  <2> QED
    BY <2>1, <2>2, <2>5
<1> QED
  BY <1>1, <1>6 DEF Agree

LEMMA Ordered == AsmInv => InOrder
BY Agreeing DEF InOrder, AsmInv, Handed, Right

LEMMA Prompted == AsmInv => Prompt
<1> SUFFICES ASSUME AsmInv, base # None, ~draining, ~failed
             PROVE  Edge \notin seen /\ \A s \in DOMAIN pending : Before(next, s)
  BY DEF Prompt
<1>1. Edge \in Int /\ next = SequenceOf(Edge) /\ Chunks /\ Placed(Edge) /\ Covered(Edge)
  BY Types DEF AsmInv
<1>2. ASSUME NEW s \in DOMAIN pending
      PROVE  /\ Place(Edge, s) \in Int /\ End(Edge, s) \in Int
             /\ SequenceOf(Place(Edge, s)) = s /\ Place(Edge, s) > Edge /\ Before(next, s)
  <2>1. Place(Edge, s) \in Int /\ SequenceOf(Place(Edge, s)) = s /\ End(Edge, s) \in Int
    BY <1>1, ChunkFacts
  <2>2. Place(Edge, s) > Edge /\ Place(Edge, s) <= Edge + Window
    BY <1>1, Ahead
  <2>3. Before(SequenceOf(Edge), SequenceOf(Place(Edge, s)))
    BY <1>1, <2>1, <2>2, BeforeIs, Sizes
  <2> QED
    BY <1>1, <2>1, <2>2, <2>3
<1>3. Edge \notin seen
  <2>1. SUFFICES ASSUME Edge \in seen PROVE FALSE
    OBVIOUS
  <2>2. PICK s \in DOMAIN pending : Edge \in Place(Edge, s) .. (End(Edge, s) - 1)
    BY <1>1, <2>1 DEF Covered
  <2> QED
    BY <1>1, <1>2, <2>2
<1> QED
  BY <1>2, <1>3

LEMMA Completed == AsmInv => ClosedComplete
<1> SUFFICES ASSUME AsmInv, ~failed, finAt # None, finAt = next, ~draining
             PROVE  /\ ~HasGap
                    /\ \E p \in FinAt : SequenceOf(p) = finAt /\ Edge = p
                    /\ base .. (Edge - 1) \subseteq seen
  BY DEF ClosedComplete, Closed
<1>1. base # None /\ Edge \in Int /\ next = SequenceOf(Edge)
  BY Types DEF AsmInv
<1>2. Chunks /\ Placed(Edge) /\ Handed /\ FinPlace(Edge)
  BY DEF AsmInv
<1>3. PICK p \in FinAt : /\ SequenceOf(p) = finAt /\ p \in Edge .. (Edge + Window)
                         /\ \A s \in DOMAIN pending : End(Edge, s) <= p
  BY <1>1, <1>2 DEF FinPlace
<1>4. p = Edge
  <2>1. p \in Int /\ p - Edge < Modulus /\ Edge - p < Modulus
    BY <1>1, <1>3, Sizes
  <2> QED
    BY <1>1, <1>3, <2>1, SamePosition
<1>5. DOMAIN pending = {}
  <2>1. SUFFICES ASSUME NEW s \in DOMAIN pending PROVE FALSE
    OBVIOUS
  <2>2. Place(Edge, s) > Edge /\ End(Edge, s) <= Edge
    BY <1>1, <1>2, <1>3, <1>4, Ahead
  <2>3. Place(Edge, s) < End(Edge, s) /\ Place(Edge, s) \in Int /\ End(Edge, s) \in Int
    BY <1>1, <1>2, ChunkFacts
  <2> QED
    BY <1>1, <2>2, <2>3
<1>6. pending = <<>>
  <2>1. pending = [s \in {} |-> pending[s]]
    BY <1>2, <1>5 DEF Chunks
  <2> QED
    BY <2>1
<1>7. ~HasGap
  BY <1>6 DEF HasGap, Closed
<1> QED
  BY <1>1, <1>2, <1>3, <1>4, <1>7 DEF Handed

\* An honest FIN is the end of the stream, wherever its number is read.
LEMMA HonestFin ==
  ASSUME AsmInv, honest, finAt # None, NEW p \in FinAt, SequenceOf(p) = finAt
  PROVE  p = Size
<1>1. Size \in FinAt /\ finAt = SequenceOf(Size)
  BY DEF AsmInv, Honest
<1>2. p - Size < Modulus /\ Size - p < Modulus /\ p \in Int /\ Size \in Int
  BY <1>1, CaptureAssumption, Sizes
<1> QED
  BY <1>1, <1>2, SamePosition

\* Bytes of the sender that are ahead of the edge are refused for want of
\* room only.
LEMMA HonestRun ==
  ASSUME AsmInv, NEW e \in 0 .. Size, NEW q, NEW b, Offered(e, q, b),
         Marked(e), Seen(e), ~draining, ~failed, failed', honest'
  PROVE  \/ Cardinality(DOMAIN pending) = MaxPending
         \/ pendingBytes + SegmentMax > Limit
<1> DEFINE s == SequenceOf(q)
           m == q + Len(b)
<1>0. Piece(e, q, b) /\ Shown(e, q, b) /\ FinNear(e, m) /\ PushFrom(SequenceOf(e), s, b)
  BY DEF Offered
<1>1. /\ e \in Int /\ q \in Int /\ m \in Int /\ e <= m /\ m <= Size /\ Len(b) \in Nat
      /\ Len(b) <= SegmentMax /\ Advance(s, Len(b)) = SequenceOf(m)
  BY <1>0, PieceFacts DEF Offered
<1>2. honest /\ \A i \in DOMAIN b : b[i] = Stream[q + i - 1]
  BY <1>0 DEF Shown, Marked
<1>3. pendingBytes \in Int /\ Cardinality(DOMAIN pending) \in Nat
      /\ Cardinality(DOMAIN pending) <= MaxPending /\ Chunks
  BY FS_CardinalityType DEF AsmInv, Room
<1>4. ~PastFin(s, b)
  <2>1. SUFFICES ASSUME finAt # None PROVE ~Before(finAt, SequenceOf(m))
    BY <1>1 DEF PastFin
  <2>2. PICK p \in FinAt : SequenceOf(p) = finAt /\ (m >= e => p \in (m - Window) .. (m + Window))
    BY <1>0, <2>1 DEF FinNear
  <2>3. p = Size /\ p \in Int
    BY <1>2, <2>1, <2>2, HonestFin, Sizes
  <2>4. m - p < Half /\ p - m < Half
    BY <1>1, <2>2, <2>3, Sizes
  <2> HIDE DEF m
  <2>5. ~(p < m)
    BY <1>1, <2>3
  <2> QED
    BY <1>1, <2>2, <2>3, <2>4, <2>5, BeforeIs
<1>5. ~Disagrees(SequenceOf(e), Distance(SequenceOf(e), s), b)
  <2>1. ASSUME NEW t \in DOMAIN pending, NEW i \in DOMAIN b, NEW j \in DOMAIN pending[t],
               q + i = Place(e, t) + j
        PROVE  b[i] = pending[t][j]
    <3>1. pending[t][j] = Stream[Place(e, t) + (j - 1)] /\ b[i] = Stream[q + (i - 1)]
      BY <1>2 DEF Seen, Honest
    <3>2. Place(e, t) \in Int /\ i \in Int /\ j \in Int
      <4>1. Place(e, t) \in Int /\ DOMAIN pending[t] = 1 .. Len(pending[t])
        BY <1>1, <1>3, ChunkFacts
      <4>2. DOMAIN b = 1 .. Len(b)
        BY <1>0, PieceFacts
      <4> QED
        BY <4>1, <4>2
    <3>3. Place(e, t) + (j - 1) = q + (i - 1)
      <4>1. PICK c \in Int : c = Place(e, t)
        BY <3>2
      <4>2. q + i = c + j
        BY <2>1, <4>1
      <4> QED
        BY <1>1, <3>2, <4>1, <4>2
    <3> QED
      BY <3>1, <3>3
  <2> QED
    BY <1>0, <1>3, <2>1, Agreement DEF Seen
<1>6. \/ Consume(SequenceOf(e), b)
      \/ s \in DOMAIN pending /\ Extend(SequenceOf(e), s, b)
      \/ Buffer(SequenceOf(e), s, b)
  BY <1>0, <1>4, <1>5 DEF PushFrom
<1> HIDE DEF s, m
<1>7. CASE Consume(SequenceOf(e), b)
  BY <1>7 DEF Consume
<1>8. CASE s \in DOMAIN pending /\ Extend(SequenceOf(e), s, b)
  <2>1. pendingBytes + (Len(b) - Len(pending[s])) > Limit
    BY <1>8 DEF Extend, Ignore
  <2>2. PICK n \in Nat : n = Len(pending[s])
    BY <1>1, <1>3, <1>8, ChunkFacts
  <2>3. pendingBytes + (Len(b) - n) > Limit
    BY <2>1, <2>2
  <2> QED
    BY <1>1, <1>3, <2>3, Sizes
<1>9. CASE Buffer(SequenceOf(e), s, b)
  <2>1. Cardinality(DOMAIN pending) >= MaxPending \/ pendingBytes + Len(b) > Limit
    BY <1>9 DEF Buffer
  <2> QED
    BY <1>1, <1>3, <2>1, Sizes
<1> QED
  BY <1>6, <1>7, <1>8, <1>9

\* A FIN at the end of an honest stream is never refused.
LEMMA HonestEnd ==
  ASSUME AsmInv, NEW position \in FinAt, Fin(position), ~failed, failed', honest'
  PROVE  FALSE
<1>0. /\ ~draining /\ Near(position) /\ honest /\ position = Size
      /\ \/ finAt # None /\ finAt # SequenceOf(Size)
         \/ next # None /\ Before(SequenceOf(Size), next)
         \/ \E s \in DOMAIN pending : Before(SequenceOf(Size), Advance(s, Len(pending[s])))
  BY DEF Fin, FinSeen
<1>1. CASE finAt # None /\ finAt # SequenceOf(Size)
  BY <1>0, <1>1 DEF AsmInv, Honest
<1>2. ASSUME base # None
      PROVE  /\ Edge \in Int /\ Edge <= Size /\ next = SequenceOf(Edge)
             /\ Size \in (Edge - Window) .. (Edge + Window) /\ Chunks /\ Placed(Edge)
             /\ seen \subseteq Positions
  BY <1>0, <1>2, Types, Sizes DEF AsmInv, Near, Anchored
<1>3. CASE next # None /\ Before(SequenceOf(Size), next)
  <2>1. base # None
    BY <1>3, Types DEF AsmInv
  <2>2. Edge - Size < Half /\ Size - Edge < Half
    BY <1>2, <2>1, Sizes
  <2> QED
    BY <1>2, <1>3, <2>1, <2>2, BeforeIs, Sizes
<1>4. ASSUME NEW s \in DOMAIN pending, Before(SequenceOf(Size), Advance(s, Len(pending[s])))
      PROVE  FALSE
  <2>1. base # None
    <3>1. base = None => DOMAIN pending = {}
      BY DEF AsmInv, Anchored
    <3> QED
      BY <1>4, <3>1
  <2>2. /\ Place(Edge, s) \in Int /\ SequenceOf(Place(Edge, s)) = s
        /\ Len(pending[s]) \in Nat \ {0} /\ End(Edge, s) = Place(Edge, s) + Len(pending[s])
        /\ End(Edge, s) \in Int
    BY <1>2, <2>1, ChunkFacts
  <2>3. Advance(s, Len(pending[s])) = SequenceOf(End(Edge, s))
    <3>1. Advance(SequenceOf(Place(Edge, s)), Len(pending[s])) = SequenceOf(Place(Edge, s) + Len(pending[s]))
      BY <2>2, AdvanceIs
    <3> QED
      BY <2>2, <3>1
  <2>4. Place(Edge, s) > Edge /\ End(Edge, s) <= Edge + Window
        /\ Place(Edge, s) .. (End(Edge, s) - 1) \subseteq Positions
    BY <1>0, <1>2, <2>1 DEF Placed
  <2>5. End(Edge, s) - 1 \in Positions
    BY <2>2, <2>4
  <2>6. End(Edge, s) <= Size
    BY <2>2, <2>5, Sizes DEF Positions
  <2>7. End(Edge, s) - Size < Half /\ Size - End(Edge, s) < Half
    BY <1>2, <2>1, <2>2, <2>4, <2>6, Sizes
  <2> QED
    BY <1>4, <2>2, <2>3, <2>6, <2>7, BeforeIs, Sizes
<1> QED
  BY <1>0, <1>1, <1>3, <1>4

LEMMA Caused ==
  AsmInv /\ [Next]_vars =>
    ((~failed /\ failed' /\ honest') =>
        \/ Cardinality(DOMAIN pending) = MaxPending
        \/ pendingBytes + SegmentMax > Limit)
<1> SUFFICES ASSUME AsmInv, [Next]_vars, ~failed, failed', honest'
             PROVE  \/ Cardinality(DOMAIN pending) = MaxPending
                    \/ pendingBytes + SegmentMax > Limit
  OBVIOUS
<1>1. CASE Syn \/ Drain \/ DrainEnds \/ UNCHANGED vars
  <2>1. failed' = failed
    BY <1>1 DEF Syn, SeedAt, Drain, DrainOne, DrainEnds, vars
  <2> QED
    BY <2>1
<1>2. CASE \E position \in FinAt : Fin(position)
  BY <1>2, HonestEnd
<1>3. CASE \E position \in Positions, n \in 1..SegmentMax : Segment(position, n)
  <2>1. PICK position \in Positions, n \in 1..SegmentMax : Segment(position, n)
    BY <1>3
  <2>2. PICK e : e = Anchor(position)
    OBVIOUS
  <2>3. /\ e \in 0 .. Size /\ ~draining /\ Marked(e) /\ Seen(e)
        /\ Ignore(SequenceOf(e)) \/ \E q, b : Offered(e, q, b)
    BY <2>1, <2>2, SegmentIs
  <2>4. CASE Ignore(SequenceOf(e))
    BY <2>4 DEF Ignore
  <2>5. CASE \E q, b : Offered(e, q, b)
    BY <2>3, <2>5, HonestRun
  <2> QED
    BY <2>3, <2>4, <2>5
<1> QED
  BY <1>1, <1>2, <1>3 DEF Next

-----------------------------------------------------------------------------
(* The theorems.                                                            *)

\* What a direction hands on is the sender's stream from the anchor on, and
\* no two buffered chunks disagree, whatever the order, the overlaps, the
\* repetitions and the wrap-around of the segments.
THEOREM StreamInOrder == Spec => []InOrder
BY Invariance, Ordered, PTL

\* Between two packets nothing that could be handed on is held back.
THEOREM NothingHeldBack == Spec => []Prompt
BY Invariance, Prompted, PTL

\* A direction that counts as closed is complete up to its FIN.
THEOREM ClosedIsComplete == Spec => []ClosedComplete
BY Invariance, Completed, PTL

\* An honest capture is given up on for want of room only.
THEOREM GivesUpForRoom == Spec => FailsForCause
<1>1. AsmInv /\ [Next]_vars =>
        [(~failed /\ failed' /\ honest') =>
            \/ Cardinality(DOMAIN pending) = MaxPending
            \/ pendingBytes + SegmentMax > Limit]_vars
  BY Caused
<1> QED
  BY <1>1, Invariance, PTL DEF Spec, FailsForCause

-----------------------------------------------------------------------------
(* The byte counter. *)

Lengths == [s \in DOMAIN pending |-> Len(pending[s])]

Metered == SumIs(Lengths, pendingBytes) /\ pendingBytes \in 0..Limit

LEMMA LengthsAre ==
  ASSUME AsmInv
  PROVE  /\ DOMAIN Lengths = DOMAIN pending /\ IsFiniteSet(DOMAIN Lengths)
         /\ \A s \in DOMAIN Lengths : Lengths[s] = Len(pending[s]) /\ Lengths[s] \in Nat \ {0}
<1>1. \A s \in DOMAIN pending : Len(pending[s]) \in Nat \ {0}
  BY ChunkFacts DEF AsmInv
<1> QED
  BY <1>1 DEF Lengths, AsmInv, Room

\* What a step may do to the buffered chunks and their counter.
Added(s, n) ==
  /\ s \notin DOMAIN pending /\ DOMAIN pending' = DOMAIN pending \cup {s}
  /\ \A t \in DOMAIN pending : pending'[t] = pending[t]
  /\ n = Len(pending'[s]) /\ pendingBytes' = pendingBytes + n /\ pendingBytes + n <= Limit

Grown(s, n) ==
  /\ s \in DOMAIN pending /\ DOMAIN pending' = DOMAIN pending
  /\ \A t \in DOMAIN pending \ {s} : pending'[t] = pending[t]
  /\ n = Len(pending'[s]) - Len(pending[s])
  /\ pendingBytes' = pendingBytes + n /\ pendingBytes + n <= Limit

Removed(s) ==
  /\ s \in DOMAIN pending /\ DOMAIN pending' = DOMAIN pending \ {s}
  /\ \A t \in DOMAIN pending' : pending'[t] = pending[t]
  /\ pendingBytes' = pendingBytes - Len(pending[s])

LEMMA MeteredKept ==
  ASSUME AsmInv, Metered, UNCHANGED <<pending, pendingBytes>>
  PROVE  Metered'
BY DEF Metered, Lengths

\* What Lengths is in the next state, too.
LEMMA LengthsNext ==
  ASSUME AsmInv'
  PROVE  /\ DOMAIN Lengths' = DOMAIN pending' /\ IsFiniteSet(DOMAIN Lengths')
         /\ \A s \in DOMAIN Lengths' : Lengths'[s] = Len(pending'[s]) /\ Lengths'[s] \in Nat
<1>1. IsFiniteSet(DOMAIN pending')
  BY DEF AsmInv, Room
<1>2. ASSUME NEW s \in DOMAIN pending'
      PROVE  Len(pending'[s]) \in Nat
  <2>1. pending'[s] \in Seq(Byte)
    BY DEF AsmInv, Chunks
  <2> QED
    BY <2>1, LenProperties
<1> QED
  BY <1>1, <1>2 DEF Lengths

LEMMA MeteredAdded ==
  ASSUME AsmInv, AsmInv', Metered, NEW s, NEW n, Added(s, n)
  PROVE  Metered'
<1>1. PICK m : SumIs(Lengths', m)
  BY LengthsNext, SumFacts
<1>2. pendingBytes \in Nat /\ SumIs(Lengths, pendingBytes)
  BY DEF Metered
<1>3. /\ s \in DOMAIN Lengths' /\ DOMAIN Lengths = DOMAIN Lengths' \ {s}
      /\ \A t \in DOMAIN Lengths : Lengths[t] = Lengths'[t]
      /\ Lengths'[s] = n /\ n \in Nat
  BY LengthsAre, LengthsNext DEF Added
<1>4. m = Lengths'[s] + pendingBytes
  <2>1. IsFiniteSet(DOMAIN Lengths') /\ \A x \in DOMAIN Lengths' : Lengths'[x] \in Nat
    BY LengthsNext
  <2> QED
    BY ONLY <1>1, <1>2, <1>3, <2>1, SumWithout
<1>5. m = pendingBytes'
  BY <1>2, <1>3, <1>4 DEF Added
<1> QED
  BY <1>1, <1>2, <1>3, <1>5 DEF Metered, Added

LEMMA MeteredGrown ==
  ASSUME AsmInv, AsmInv', Metered, NEW s, NEW n \in Nat, Grown(s, n)
  PROVE  Metered'
<1>1. PICK m : SumIs(Lengths', m)
  BY LengthsNext, SumFacts
<1>2. pendingBytes \in Nat /\ SumIs(Lengths, pendingBytes)
  BY DEF Metered
<1>3. /\ s \in DOMAIN Lengths /\ DOMAIN Lengths' = DOMAIN Lengths
      /\ \A t \in DOMAIN Lengths \ {s} : Lengths'[t] = Lengths[t]
      /\ Lengths'[s] = Len(pending'[s]) /\ Lengths[s] = Len(pending[s])
      /\ Lengths'[s] \in Nat /\ Lengths[s] \in Nat
  BY LengthsAre, LengthsNext DEF Grown
<1>4. m \in Nat /\ m - Lengths'[s] = pendingBytes - Lengths[s]
  <2>1. IsFiniteSet(DOMAIN Lengths) /\ (\A x \in DOMAIN Lengths : Lengths[x] \in Nat)
        /\ \A x \in DOMAIN Lengths' : Lengths'[x] \in Nat
    BY LengthsAre, LengthsNext
  <2> QED
    BY ONLY <1>1, <1>2, <1>3, <2>1, SumChanged
<1>5. n = Lengths'[s] - Lengths[s] /\ pendingBytes' = pendingBytes + n /\ pendingBytes + n <= Limit
  BY <1>3 DEF Grown
<1>6. PICK a \in Nat, b \in Nat : a = Lengths[s] /\ b = Lengths'[s]
  BY <1>3
<1>7. m = pendingBytes'
  BY <1>2, <1>4, <1>5, <1>6
<1> QED
  BY <1>1, <1>2, <1>4, <1>5, <1>7, BoundsAssumption DEF Metered

LEMMA MeteredRemoved ==
  ASSUME AsmInv, AsmInv', Metered, NEW s, Removed(s)
  PROVE  Metered'
<1>1. PICK m : SumIs(Lengths', m) /\ m \in Nat
  BY LengthsNext, SumFacts
<1>2. pendingBytes \in 0..Limit /\ SumIs(Lengths, pendingBytes)
  BY DEF Metered
<1>3. /\ s \in DOMAIN Lengths /\ DOMAIN Lengths' = DOMAIN Lengths \ {s}
      /\ \A t \in DOMAIN Lengths' : Lengths'[t] = Lengths[t]
      /\ Lengths[s] = Len(pending[s]) /\ Lengths[s] \in Nat
  BY LengthsAre, LengthsNext DEF Removed
<1>4. pendingBytes = Lengths[s] + m
  <2>1. IsFiniteSet(DOMAIN Lengths) /\ \A x \in DOMAIN Lengths : Lengths[x] \in Nat
    BY LengthsAre
  <2> QED
    BY ONLY <1>1, <1>2, <1>3, <2>1, SumWithout
<1>5. pendingBytes' = pendingBytes - Lengths[s]
  BY <1>3 DEF Removed
<1>6. PICK a \in Nat : a = Lengths[s]
  BY <1>3
<1>7. m = pendingBytes' /\ m \in 0..Limit
  BY <1>1, <1>2, <1>4, <1>5, <1>6, BoundsAssumption
<1> QED
  BY <1>1, <1>7 DEF Metered

LEMMA GrownLength ==
  ASSUME NEW T, NEW w \in Seq(T), NEW b \in Seq(T), ~(Len(b) - Len(w) <= 0)
  PROVE  /\ Len(b) - Len(w) \in Nat
         /\ Len(w \o SubSeq(b, Len(w) + 1, Len(b))) - Len(w) = Len(b) - Len(w)
<1> DEFINE r == SubSeq(b, Len(w) + 1, Len(b))
<1>1. Len(w) \in Nat /\ Len(b) \in Nat /\ Len(w) \in 0 .. Len(b)
  BY LenProperties
<1>2. r \in Seq(T) /\ Len(r) = Len(b) - Len(w)
  BY <1>1, CutOff
<1> HIDE DEF r
<1>3. Len(w \o r) = Len(w) + Len(r)
  BY <1>2, ConcatProperties
<1> QED
  BY <1>1, <1>2, <1>3 DEF r

LEMMA MeteredSegment ==
  ASSUME AsmInv, AsmInv', Metered, NEW position \in Positions, NEW n \in 1 .. SegmentMax,
         Segment(position, n)
  PROVE  Metered'
<1>1. CASE failed
  <2>1. UNCHANGED <<pending, pendingBytes>>
    BY <1>1 DEF Segment, Push, code
  <2> QED
    BY <2>1, MeteredKept
<1>2. CASE ~failed
  <2> DEFINE e == Anchor(position)
  <2>1. \/ Ignore(SequenceOf(e))
        \/ \E q, b : Offered(e, q, b)
    BY <1>2, SegmentIs
  <2>2. CASE Ignore(SequenceOf(e))
    BY <2>2, MeteredKept DEF Ignore
  <2>3. CASE \E q, b : Offered(e, q, b)
    <3>1. PICK q, b : Offered(e, q, b)
      BY <2>3
    <3> DEFINE s == SequenceOf(q)
    <3>2. b \in Seq(Byte) /\ PushFrom(SequenceOf(e), s, b) /\ Len(b) \in Nat
      BY <3>1, LenProperties DEF Offered, Piece
    <3> HIDE DEF s, e
    <3>3. CASE UNCHANGED <<pending, pendingBytes>>
      BY <3>3, MeteredKept
    <3>4. CASE ~UNCHANGED <<pending, pendingBytes>>
      <4>1. \/ s \in DOMAIN pending /\ Extend(SequenceOf(e), s, b)
            \/ s \notin DOMAIN pending /\ Buffer(SequenceOf(e), s, b)
        <5>1. ~Fail(SequenceOf(e)) /\ ~Consume(SequenceOf(e), b)
          BY <3>4 DEF Fail, Consume
        <5> QED
          <6>1. CASE PastFin(s, b) \/ Disagrees(SequenceOf(e), Distance(SequenceOf(e), s), b)
            BY <3>2, <5>1, <6>1 DEF PushFrom
          <6>2. CASE ~(PastFin(s, b) \/ Disagrees(SequenceOf(e), Distance(SequenceOf(e), s), b))
            <7>1. CASE s = SequenceOf(e)
              BY <3>2, <5>1, <6>2, <7>1 DEF PushFrom
            <7>2. CASE s # SequenceOf(e) /\ s \in DOMAIN pending
              <8>1. Extend(SequenceOf(e), s, b)
                BY <3>2, <6>2, <7>2 DEF PushFrom
              <8> QED
                BY <7>2, <8>1
            <7>3. CASE s # SequenceOf(e) /\ s \notin DOMAIN pending
              BY <3>2, <6>2, <7>3 DEF PushFrom
            <7> QED
              BY <7>1, <7>2, <7>3
          <6> QED
            BY <6>1, <6>2
      <4>2. CASE s \notin DOMAIN pending /\ Buffer(SequenceOf(e), s, b)
        <5>1. /\ pending' = [t \in DOMAIN pending \cup {s} |-> IF t = s THEN b ELSE pending[t]]
              /\ pendingBytes' = pendingBytes + Len(b)
              /\ ~(pendingBytes + Len(b) > Limit)
          BY <3>4, <4>2 DEF Buffer, Fail
        <5>2. Added(s, Len(b))
          <6>1. pendingBytes \in Nat
            BY DEF Metered
          <6>2. pendingBytes + Len(b) <= Limit
            BY <3>2, <5>1, <6>1, BoundsAssumption
          <6> QED
            BY <4>2, <5>1, <6>2 DEF Added
        <5> QED
          BY <5>2, MeteredAdded
      <4>3. CASE s \in DOMAIN pending /\ Extend(SequenceOf(e), s, b)
        <5> DEFINE old == pending[s]
                   extra == Len(b) - Len(old)
                   new == SubSeq(b, Len(old) + 1, Len(b))
        <5>1. /\ ~(extra <= 0) /\ ~(pendingBytes + extra > Limit)
              /\ pending' = [pending EXCEPT ![s] = old \o new]
              /\ pendingBytes' = pendingBytes + extra
          BY <3>4, <4>3 DEF Extend, Fail, Ignore
        <5>2. old \in Seq(Byte) /\ Len(old) \in Nat
          BY <4>3, LenProperties DEF AsmInv, Chunks
        <5>3. extra \in Nat /\ Len(old \o new) - Len(old) = extra
          BY <3>2, <5>1, <5>2, GrownLength
        <5>5. Grown(s, extra)
          <6>1. pendingBytes \in Nat
            BY DEF Metered
          <6>2. pendingBytes + extra <= Limit
            <7> HIDE DEF extra
            <7> QED
              BY <5>1, <5>3, <6>1, BoundsAssumption
          <6>3. DOMAIN pending' = DOMAIN pending /\ pending'[s] = old \o new
                /\ \A t \in DOMAIN pending \ {s} : pending'[t] = pending[t]
            BY <4>3, <5>1
          <6>4. extra = Len(pending'[s]) - Len(pending[s])
            <7> HIDE DEF extra, new
            <7> QED
              BY <5>3, <6>3
          <6> HIDE DEF extra, new
          <6> QED
            BY <4>3, <5>1, <6>2, <6>3, <6>4 DEF Grown
        <5> HIDE DEF extra, new
        <5> QED
          BY <5>3, <5>5, MeteredGrown
      <4> QED
        BY <4>1, <4>2, <4>3
    <3> QED
      BY <3>3, <3>4
  <2> QED
    BY <2>1, <2>2, <2>3
<1> QED
  BY <1>1, <1>2

LEMMA MeteredSteps == AsmInv /\ Metered /\ [Next]_vars => Metered'
<1> SUFFICES ASSUME AsmInv, Metered, [Next]_vars PROVE Metered'
  OBVIOUS
<1>0. AsmInv'
  BY Steps
<1>1. CASE Syn
  BY <1>1, MeteredKept DEF Syn, SeedAt
<1>2. CASE \E position \in Positions, n \in 1..SegmentMax : Segment(position, n)
  BY <1>0, <1>2, MeteredSegment
<1>3. CASE Drain
  <2>1. PICK s \in DOMAIN pending : DrainOne(s)
    BY <1>3 DEF Drain, Due
  <2>2. Removed(s)
    BY <2>1 DEF DrainOne, Removed
  <2> QED
    BY <1>0, <2>2, MeteredRemoved
<1>4. CASE DrainEnds
  BY <1>4, MeteredKept DEF DrainEnds
<1>5. CASE \E position \in FinAt : Fin(position)
  BY <1>5, MeteredKept DEF Fin, FinSeen
<1>6. CASE UNCHANGED vars
  BY <1>6, MeteredKept DEF vars
<1> QED
  BY <1>1, <1>2, <1>3, <1>4, <1>5, <1>6 DEF Next

LEMMA MeteredStarts == Init => Metered
<1> SUFFICES ASSUME Init PROVE Metered
  OBVIOUS
<1>1. pending = <<>> /\ pendingBytes = 0 /\ AsmInv
  BY Starts DEF Init
<1>2. DOMAIN Lengths = {}
  BY <1>1, LengthsAre
<1>3. PICK m : SumIs(Lengths, m)
  BY <1>1, LengthsAre, SumFacts
<1>4. m = 0
  BY <1>1, <1>2, <1>3, LengthsAre, SumFacts
<1> QED
  BY <1>1, <1>3, <1>4, BoundsAssumption DEF Metered

LEMMA Typed == AsmInv /\ Metered => TypeOK
<1> SUFFICES ASSUME AsmInv, Metered PROVE TypeOK
  OBVIOUS
<1>1. CounterExact
  <2>1. SumIs(Lengths, SumFunction(Lengths))
    BY LengthsAre, SumFunctionIs
  <2>2. pendingBytes = SumFunction(Lengths)
    BY <2>1, LengthsAre, SumFacts DEF Metered
  <2> QED
    BY <2>2 DEF CounterExact, Lengths
<1>2. next \in Sequence \cup {None}
  <2>1. base = None => next = None
    BY DEF AsmInv, Anchored
  <2>2. base # None => next = SequenceOf(Edge) /\ Edge \in Int
    BY Types DEF AsmInv
  <2> QED
    BY <2>1, <2>2, SequenceIs
<1>3. DOMAIN pending \subseteq Sequence /\ \A s \in DOMAIN pending : Len(pending[s]) > 0
  BY ChunkFacts DEF AsmInv, Chunks
<1>4. finAt \in Sequence \cup {None}
  <2>1. finAt # None => \E p \in FinAt : SequenceOf(p) = finAt
    BY DEF AsmInv, FinPlace
  <2>2. \A p \in FinAt : p \in Int
    BY CaptureAssumption, Sizes
  <2> QED
    BY <2>1, <2>2, SequenceIs
<1> QED
  BY <1>1, <1>2, <1>3, <1>4 DEF TypeOK, Metered, AsmInv, Anchored

\* The counter of the buffered bytes is the sum of the buffered chunks and
\* within the limit, whatever was added, grown or handed on, and every
\* variable keeps its type.
THEOREM TypesHold == Spec => []TypeOK
<1>1. AsmInv /\ Metered => TypeOK
  BY Typed
<1>2. Init => Metered
  BY MeteredStarts
<1>3. AsmInv /\ Metered /\ [Next]_vars => Metered'
  BY MeteredSteps
<1> QED
  BY <1>1, <1>2, <1>3, Invariance, PTL DEF Spec
=============================================================================
