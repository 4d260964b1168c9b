---------------------------- MODULE TcpAssembler ----------------------------
(***************************************************************************)
(* One direction of one captured TCP flow: TcpAssembler of                 *)
(* crates/analyzer/src/flow.rs.                                            *)
(*                                                                         *)
(* The sender's bytes are numbered by their POSITION 0, 1, ... in the      *)
(* stream.  A packet names a position only by its 32-bit sequence number,  *)
(* (First + position) modulo 2^32, so the assembler compares sequence      *)
(* numbers by signed wrapping difference.  The capture may start anywhere  *)
(* in the stream and shows segments cut at any boundary, in any order,     *)
(* repeatedly or not at all; at the positions of Alter a retransmission    *)
(* may even carry another byte, and a FIN may be shown at any position of  *)
(* FinAt.                                                                  *)
(*                                                                         *)
(* The `loop` at the end of push, which hands on the buffered chunks that  *)
(* have become due, is a step of its own for each chunk (Drain).  No other *)
(* step can happen until it has ended: one task owns the assembler.        *)
(*                                                                         *)
(* base, out, seen and honest are history: the position at which the       *)
(* assembler was anchored, the bytes it handed on, the positions it was    *)
(* shown before it failed, and whether all it was shown is the sender's.   *)
(***************************************************************************)
EXTENDS Integers, Sequences, FiniteSets, Functions

CONSTANTS Modulus,     \* 2^32 in the code
          Limit,       \* bytes that may wait: max_session_bytes in the code
          MaxPending,  \* chunks that may wait: 256 in the code
          First,       \* the sequence number of position 0, the ISN + 1
          Size,        \* how many bytes the sender sent
          Stream,      \* the byte at each position
          Alter,       \* the positions at which another byte may be shown,
          Forged,      \* and that byte
          FinAt,       \* the positions at which a FIN may be shown
          SegmentMax,  \* bound: the longest payload of a segment
          Window       \* bound: how far from the edge a segment can reach

None == -1
Half == Modulus \div 2
Sequence == 0..Modulus-1
Positions == 0..Size-1

ASSUME ModulusAssumption ==
  Modulus \in Nat /\ Half \in Nat /\ Half > 0 /\ Modulus = Half + Half
ASSUME StreamAssumption ==
  First \in Sequence /\ Size \in Nat /\ DOMAIN Stream = Positions
ASSUME BoundsAssumption ==
  Limit \in Nat /\ MaxPending \in Nat /\ SegmentMax \in Nat
ASSUME WindowAssumption == Window \in Nat /\ SegmentMax <= Window /\ Window < Half
ASSUME CaptureAssumption ==
  /\ Alter \subseteq Positions /\ FinAt \subseteq 0..Size
  /\ \A p, q \in FinAt : p - q < Modulus   \* a FIN's number names one of them

VARIABLES next, pending, pendingBytes, finAt, failed, draining,
          base, out, seen, honest

code == <<next, pending, pendingBytes, finAt, failed, draining>>
history == <<base, out, seen, honest>>
vars == <<next, pending, pendingBytes, finAt, failed, draining,
          base, out, seen, honest>>

-----------------------------------------------------------------------------
(* Sequence numbers. *)

\* right.wrapping_sub(left): how far right is ahead of left.
Distance(left, right) == (right - left) % Modulus

\* sequence_before: the signed difference of the two is negative.
Before(left, right) == Distance(right, left) >= Half

Advance(sequence, n) == (sequence + n) % Modulus

\* The sequence number of a position.
SequenceOf(position) == (First + position) % Modulus

-----------------------------------------------------------------------------
(* What the buffered chunks and a new one say of each other. *)

Due == {s \in DOMAIN pending : ~Before(next, s)}

\* Slip: the two chunks are compared one byte out of step.
DisagreesShifted(edge, start, bytes) ==
  \E s \in DOMAIN pending, i \in DOMAIN bytes :
     LET j == start + i - Distance(edge, s) + 1
     IN  j \in DOMAIN pending[s] /\ pending[s][j] # bytes[i]

\* Does a chunk that starts `start` bytes ahead of `edge` disagree with a
\* buffered one on a byte they share?
Disagrees(edge, start, bytes) ==
  \E s \in DOMAIN pending, i \in DOMAIN bytes :
     LET j == start + i - Distance(edge, s)
     IN  j \in DOMAIN pending[s] /\ pending[s][j] # bytes[i]

PastFin(sequence, bytes) ==
  finAt # None /\ Before(finAt, Advance(sequence, Len(bytes)))

\* Slip: a FIN closes the direction before its bytes have arrived.
ClosedEarly == ~failed /\ finAt # None

Closed == ~failed /\ finAt # None /\ finAt = next

HasGap == failed \/ pending # <<>> \/ (finAt # None /\ ~Closed)

-----------------------------------------------------------------------------
(* The operations. *)

Fail(edge) ==
  /\ failed' = TRUE
  /\ next' = edge
  /\ UNCHANGED <<pending, pendingBytes, finAt, draining, out>>

\* The bytes were all handed on already, or add nothing to a buffered chunk.
Ignore(edge) ==
  /\ next' = edge
  /\ UNCHANGED <<pending, pendingBytes, finAt, failed, draining, out>>

\* Slip: the buffered chunks that have become due are not looked for.
ConsumeOnly(edge, bytes) ==
  /\ out' = out \o bytes
  /\ next' = Advance(edge, Len(bytes))
  /\ UNCHANGED <<pending, pendingBytes, finAt, failed, draining>>

\* The chunk is the next one: hand it on and start the drain loop.
Consume(edge, bytes) ==
  /\ out' = out \o bytes
  /\ next' = Advance(edge, Len(bytes))
  /\ draining' = TRUE
  /\ UNCHANGED <<pending, pendingBytes, finAt, failed>>

\* Slip: the byte limit is compared before the chunk is added.
BufferOverLimit(edge, sequence, bytes) ==
  IF Cardinality(DOMAIN pending) >= MaxPending \/ pendingBytes > Limit
  THEN Fail(edge)
  ELSE /\ pending' = [s \in DOMAIN pending \cup {sequence} |->
                        IF s = sequence THEN bytes ELSE pending[s]]
       /\ pendingBytes' = pendingBytes + Len(bytes)
       /\ next' = edge
       /\ UNCHANGED <<finAt, failed, draining, out>>

\* The chunk is ahead of the next byte and starts where no buffered one does.
Buffer(edge, sequence, bytes) ==
  IF \/ Cardinality(DOMAIN pending) >= MaxPending
     \/ pendingBytes + Len(bytes) > Limit
  THEN Fail(edge)
  ELSE /\ pending' = [s \in DOMAIN pending \cup {sequence} |->
                        IF s = sequence THEN bytes ELSE pending[s]]
       /\ pendingBytes' = pendingBytes + Len(bytes)
       /\ next' = edge
       /\ UNCHANGED <<finAt, failed, draining, out>>

\* The chunk starts where a buffered one does: keep the longer of the two.
Extend(edge, sequence, bytes) ==
  LET old == pending[sequence]
      extra == Len(bytes) - Len(old)
  IN  IF extra <= 0 THEN Ignore(edge)
      ELSE IF pendingBytes + extra > Limit THEN Fail(edge)
      ELSE /\ pending' = [pending EXCEPT ![sequence] =
                            old \o SubSeq(bytes, Len(old) + 1, Len(bytes))]
           /\ pendingBytes' = pendingBytes + extra
           /\ next' = edge
           /\ UNCHANGED <<finAt, failed, draining, out>>

\* push once the bytes already handed on have been cut off.
PushFrom(edge, sequence, bytes) ==
  LET start == Distance(edge, sequence)
  IN  IF PastFin(sequence, bytes) \/ Disagrees(edge, start, bytes)
      THEN Fail(edge)
      ELSE IF sequence = edge THEN Consume(edge, bytes)
      ELSE IF sequence \in DOMAIN pending THEN Extend(edge, sequence, bytes)
      ELSE Buffer(edge, sequence, bytes)

Push(sequence, bytes) ==
  IF failed \/ bytes = <<>>
  THEN UNCHANGED <<code, out>>
  ELSE LET edge == IF next = None THEN sequence ELSE next
           overlap == Distance(sequence, edge)
       IN  IF ~Before(sequence, edge) THEN PushFrom(edge, sequence, bytes)
           ELSE IF overlap >= Len(bytes) THEN Ignore(edge)
           ELSE PushFrom(edge, edge, SubSeq(bytes, overlap + 1, Len(bytes)))

\* Slip: the overlap with what was handed on is handed on again.
DrainOneWhole(s) ==
  /\ pending' = [t \in DOMAIN pending \ {s} |-> pending[t]]
  /\ pendingBytes' = pendingBytes - Len(pending[s])
  /\ out' = out \o pending[s]
  /\ next' = Advance(next, Len(pending[s]))
  /\ UNCHANGED <<finAt, failed, draining>>

\* One turn of the drain loop: take the nearest chunk that is due, hand on
\* what of it is new.
DrainOne(s) ==
  LET overlap == Distance(s, next)
      fresh == SubSeq(pending[s], overlap + 1, Len(pending[s]))
  IN  /\ \A t \in Due : overlap <= Distance(t, next)
      /\ pending' = [t \in DOMAIN pending \ {s} |-> pending[t]]
      /\ pendingBytes' = pendingBytes - Len(pending[s])
      /\ out' = out \o fresh
      /\ next' = Advance(next, Len(fresh))
      /\ UNCHANGED <<finAt, failed, draining>>

SeedAt(sequence) ==
  /\ next' = IF next = None THEN sequence ELSE next
  /\ UNCHANGED <<pending, pendingBytes, finAt, failed, draining, out>>

FinSeen(sequence) ==
  /\ finAt' = sequence
  /\ failed' = \/ failed
               \/ finAt # None /\ finAt # sequence
               \/ next # None /\ Before(sequence, next)
               \/ \E s \in DOMAIN pending :
                    Before(sequence, Advance(s, Len(pending[s])))
  /\ UNCHANGED <<next, pending, pendingBytes, draining, out>>

-----------------------------------------------------------------------------
(* The capture.  A position is shown only while it is within Window of the  *)
(* first byte not yet handed on: TCP never has 2^31 bytes in flight, and    *)
(* the buffer limit stops the assembler long before it lags that far.       *)

Edge == base + Len(out)

Near(position) == base = None \/ position \in (Edge - Window)..(Edge + Window)

\* The same of a FIN that has been shown.
NearFin(positions) ==
  finAt # None => \E p \in FinAt : SequenceOf(p) = finAt
                                 /\ positions \subseteq (p - Window)..(p + Window)

Bytes(position, n) ==
  {[i \in 1..n |-> IF position + i - 1 \in A THEN Forged
                   ELSE Stream[position + i - 1]] :
     A \in SUBSET (Alter \cap position..(position + n - 1))}

Segment(position, n) ==
  /\ ~draining
  /\ position + n <= Size
  /\ Near(position) /\ Near(position + n)
  /\ NearFin({position, position + n})
  /\ \E bytes \in Bytes(position, n) :
        /\ Push(SequenceOf(position), bytes)
        /\ honest' = (honest /\ \A i \in 1..n : bytes[i] = Stream[position + i - 1])
  /\ base' = IF next = None /\ next' # None THEN position ELSE base
  /\ seen' = IF failed THEN seen ELSE seen \cup position..(position + n - 1)

Drain ==
  /\ draining /\ Due # {}
  /\ \E s \in Due : DrainOne(s)
  /\ UNCHANGED <<base, seen, honest>>

DrainEnds ==
  /\ draining /\ Due = {}
  /\ draining' = FALSE
  /\ UNCHANGED <<next, pending, pendingBytes, finAt, failed, history>>

Syn ==
  /\ ~draining
  /\ Near(0) /\ NearFin({0})
  /\ SeedAt(SequenceOf(0))
  /\ base' = IF base = None THEN 0 ELSE base
  /\ UNCHANGED <<seen, honest>>

Fin(position) ==
  /\ ~draining
  /\ Near(position)
  /\ FinSeen(SequenceOf(position))
  /\ honest' = (honest /\ position = Size)
  /\ UNCHANGED <<base, seen>>

Init ==
  /\ next = None /\ pending = <<>> /\ pendingBytes = 0
  /\ finAt = None /\ failed = FALSE /\ draining = FALSE
  /\ base = None /\ out = <<>> /\ seen = {} /\ honest = TRUE

Next ==
  \/ Syn
  \/ \E position \in Positions, n \in 1..SegmentMax : Segment(position, n)
  \/ Drain
  \/ DrainEnds
  \/ \E position \in FinAt : Fin(position)

Spec == Init /\ [][Next]_vars

-----------------------------------------------------------------------------
(* Correctness. *)

\* The byte counter is exact (it is subtracted from without a check).
CounterExact ==
  pendingBytes = SumFunction([s \in DOMAIN pending |-> Len(pending[s])])

\* Types, and the limits of the buffer, which the counter stands for.
TypeOK ==
  /\ CounterExact
  /\ next \in Sequence \cup {None}
  /\ DOMAIN pending \subseteq Sequence
  /\ \A s \in DOMAIN pending : Len(pending[s]) > 0
  /\ pendingBytes \in 0..Limit
  /\ finAt \in Sequence \cup {None}
  /\ failed \in BOOLEAN /\ draining \in BOOLEAN
  /\ base \in 0..Size \cup {None}
  /\ seen \subseteq Positions /\ honest \in BOOLEAN

\* Two buffered chunks never disagree on a byte, so the order in which the
\* drain loop takes them does not matter.
ChunksAgree ==
  \A s, t \in DOMAIN pending, i \in 1..SegmentMax, j \in 1..SegmentMax :
    (/\ i \in DOMAIN pending[s] /\ j \in DOMAIN pending[t]
     /\ Advance(s, i) = Advance(t, j)) => pending[s][i] = pending[t][j]

\* What was handed on is the sender's stream from the anchor on: every byte
\* once, in order, whatever the order, the overlaps and the repetitions of
\* the segments, also when the sequence numbers wrap around; and what is still
\* buffered cannot make it depend on the order of arrival.
InOrder ==
  /\ base # None =>
       \A i \in DOMAIN out :
         \/ out[i] = Stream[base + i - 1]
         \/ base + i - 1 \in Alter /\ out[i] = Forged
  /\ ChunksAgree

\* Nothing is withheld: between two packets, everything up to the first byte
\* that was not shown has been handed on, and nothing that is still buffered
\* lies behind the edge.
Prompt ==
  (base # None /\ ~draining /\ ~failed) =>
    /\ Edge \notin seen
    /\ \A s \in DOMAIN pending : Before(next, s)

\* A direction that counts as closed has handed on everything between its
\* anchor and the sequence number of its FIN, and buffers nothing more.
ClosedComplete ==
  (Closed /\ ~draining) =>
    /\ ~HasGap
    /\ \E p \in FinAt : SequenceOf(p) = finAt /\ Edge = p
    /\ base..(Edge - 1) \subseteq seen

\* Only a disagreement, data behind the FIN, or a full buffer makes the
\* assembler give up: an honest capture is refused for want of room only.
FailsForCause ==
  [][(~failed /\ failed' /\ honest') =>
        \/ Cardinality(DOMAIN pending) = MaxPending
        \/ pendingBytes + SegmentMax > Limit]_vars
=============================================================================
