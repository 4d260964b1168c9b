------------------------- MODULE StorageWriterProof -------------------------
(***************************************************************************)
(* Theorems about the storage writer, for every size of the queue, the     *)
(* batch, the segments and the retention, any number of sessions, crashes  *)
(* and input or output errors.                                             *)
(***************************************************************************)
EXTENDS StorageWriter, DataLemmas

-----------------------------------------------------------------------------
(* The inductive invariant, of the states before any run begins late.      *)
(*                                                                         *)
(* Resolvable alone is not inductive: that a commit keeps it depends on    *)
(* what is known of the rows of the batch, that a rotation keeps it on the *)
(* segment just opened being the newest, and that a crash keeps it on the  *)
(* committed records being synced.                                         *)

Record == [id : Nat, key : Nat]
Session == [key : Nat, time : Nat]

Types ==
  /\ pc \in Pcs
  /\ queue \in Seq(Session) /\ batch \in Seq(Session)
  /\ offered \in Nat /\ nextId \in Nat \ {0} /\ lastCreated \in Nat
  /\ active \in [id : Nat, created : Nat, size : Nat]
  /\ rows \subseteq [id : Nat \ {0}, key : Nat, segment : Nat, offset : Nat]
  /\ segments \in [DOMAIN segments -> Nat]
  /\ DOMAIN segments \subseteq Nat \ {0} /\ IsFiniteSet(DOMAIN segments)
  /\ sessions \in [DOMAIN sessions -> [segment : Nat, offset : Nat, key : Nat]]
  /\ DOMAIN sessions \subseteq Nat \ {0} /\ \A i \in DOMAIN sessions : i < nextId
  /\ \A r \in rows : r.id < nextId
  /\ files \in [DOMAIN files -> Seq(Record)]
  /\ synced \in [DOMAIN files -> Nat]
  /\ \A f \in DOMAIN files : synced[f] <= Len(files[f])
  /\ expired \subseteq DOMAIN segments

\* Segment ids and creation times grow together.
Ordered == \A s, t \in DOMAIN segments : s < t => segments[s] < segments[t]
Created == \A s \in DOMAIN segments : segments[s] <= lastCreated

\* The segment being opened is younger than all segments: what "late" excludes.
Newest ==
  /\ pc \in {"open", "insert"} => batch # <<>>
  /\ pc = "insert" =>
       /\ \A s \in DOMAIN segments : segments[s] < batch[1].time
       /\ batch[1].time \in DOMAIN files /\ batch[1].time <= lastCreated

\* The active segment is in the catalog, is the newest, and is never one of
\* those to expire; its file is there and its size is known.
ActiveKnown ==
  /\ (Running /\ active # NoSegment) =>
       /\ active.id \in DOMAIN segments \ expired
       /\ segments[active.id] = active.created
       /\ \A s \in DOMAIN segments : segments[s] <= active.created
       /\ active.created \in DOMAIN files
       /\ active.size = Len(files[active.created])
  /\ pc \in {"expire", "unlink", "write"} => active # NoSegment
  /\ pc = "down" => active = NoSegment

Doomed == pc = "unlink" => \A s \in DOMAIN segments : segments[s] # doomed

\* The committed records are there and synced.
SessionsSafe ==
  \A i \in DOMAIN sessions :
     Points(i, sessions[i]) /\ sessions[i].offset <= synced[segments[sessions[i].segment]]

\* The rows of the batch will be, unless their segment expired meanwhile.
RowSafe(r) ==
  /\ r.segment <= active.id
  /\ r.segment \in DOMAIN segments =>
       /\ Points(r.id, r)
       /\ (pc \in {"open", "insert", "commit"} \/ r.segment # active.id) =>
             r.offset <= synced[segments[r.segment]]
RowsSafe ==
  /\ Running => \A r \in rows : RowSafe(r)
  /\ (Running /\ active = NoSegment) \/ pc = "down" => rows = {}

IInv == /\ Types /\ Ordered /\ Created /\ Newest /\ ActiveKnown
        /\ Doomed /\ SessionsSafe /\ RowsSafe

-----------------------------------------------------------------------------
(* Lemmas on the operators of StorageWriter. *)

\* Largest picks the greatest element of a finite set of naturals.
LEMMA LargestIs ==
  ASSUME NEW S \in SUBSET Nat, IsFiniteSet(S)
  PROVE  Largest(S) \in Nat /\ \A s \in S : s <= Largest(S)
<1>1. CASE S = {}
  BY <1>1 DEF Largest
<1>2. CASE S # {}
  <2>1. \E m \in S : \A s \in S : s <= m
    BY <1>2, GreatestExists
  <2>2. Largest(S) \in S /\ \A s \in S : s <= Largest(S)
    BY <1>2, <2>1 DEF Largest
  <2> QED
    BY <2>2
<1> QED
  BY <1>1, <1>2

\* What a crash leaves of a file is a sequence of records that begins with
\* the records it had to keep.
LEMMA RemainsIs ==
  ASSUME NEW content \in Seq(Record), NEW from \in Nat, from <= Len(content),
         NEW left \in Remains(content, from)
  PROVE  /\ left \in Seq(Record)
         /\ from <= Len(left)
         /\ \A k \in 1..from : left[k] = content[k]
<1>1. PICK n \in from..Len(content) :
         left = SubSeq(content, 1, n) \/ left = Append(SubSeq(content, 1, n), Torn)
  BY DEF Remains
<1>2. n \in Nat /\ from <= n /\ n <= Len(content)
  OBVIOUS
<1> DEFINE head == SubSeq(content, 1, n)
<1>3. head \in Seq(Record) /\ Len(head) = n /\ \A k \in 1..n : head[k] = content[k]
  BY <1>2
<1>4. Torn \in Record
  BY DEF Torn, Record
<1> HIDE DEF head
<1>5. CASE left = head
  BY <1>2, <1>3, <1>5
<1>6. CASE left = Append(head, Torn)
  BY <1>2, <1>3, <1>4, <1>6
<1> QED
  BY <1>1, <1>5, <1>6 DEF head

-----------------------------------------------------------------------------
(* Every step keeps the invariant, action by action. *)

\* A reader's steps change nothing the invariant speaks of.
LEMMA ReaderStep ==
  ASSUME IInv, UNCHANGED <<queue, offered, pc, batch, rows, nextId, active, expired,
                           doomed, segments, sessions, files, synced, lastCreated>>
  PROVE  IInv'
<1>1. Types' /\ Ordered' /\ Created' /\ Newest'
  BY DEF IInv, Types, Ordered, Created, Newest
<1>2. ActiveKnown' /\ Doomed' /\ SessionsSafe' /\ RowsSafe'
  BY DEF IInv, ActiveKnown, Doomed, SessionsSafe, RowsSafe, RowSafe, Points, Running
<1> QED
  BY <1>1, <1>2 DEF IInv

LEMMA TryStoreStep ==
  ASSUME IInv, NEW time \in Times, TryStore(time)
  PROVE  IInv'
<1> USE DEF IInv
<1> time \in Nat
  BY BoundsAssumption, SizesAssumption DEF Times
<1>0. UNCHANGED <<pc, batch, rows, nextId, active, expired, doomed,
                  segments, sessions, files, synced, lastCreated>>
  BY DEF TryStore, retention, catalog, directory, history
<1> DEFINE session == [key |-> offered', time |-> time]
<1>2. queue' = queue \/ queue' = Append(queue, session)
  BY DEF TryStore
<1>3. Types'
  <2>1. offered' \in Nat /\ queue \in Seq(Session) /\ session \in Session
    BY DEF TryStore, Types, Session
  <2>2. queue' \in Seq(Session)
    BY <1>2, <2>1
  <2> QED
    BY <1>0, <2>1, <2>2 DEF Types
<1>4. Ordered' /\ Created' /\ Newest' /\ ActiveKnown' /\ Doomed'
  BY <1>0 DEF Ordered, Created, Newest, ActiveKnown, Doomed, Running
<1>5. SessionsSafe' /\ RowsSafe'
  BY <1>0 DEF SessionsSafe, RowsSafe, RowSafe, Points, Running
<1> QED
  BY <1>3, <1>4, <1>5

LEMMA StartStep ==
  ASSUME IInv, Start
  PROVE  IInv'
<1> USE DEF IInv
<1>0. /\ pc = "down" /\ pc' = "receive" /\ active' = NoSegment
      /\ UNCHANGED <<queue, offered, batch, rows, expired, doomed,
                     segments, sessions, files, synced, lastCreated>>
  BY DEF Start, channel, retention, catalog, directory, history
<1>1. nextId' \in Nat \ {0} /\ \A i \in DOMAIN sessions : i < nextId'
  <2>1. /\ DOMAIN sessions \in SUBSET Nat /\ nextId \in Nat
        /\ \A i \in DOMAIN sessions : i <= nextId
    BY DEF Types
  <2>2. IsFiniteSet(DOMAIN sessions)
    BY <2>1, FS_BoundedSetOfNaturals
  <2>3. Largest(DOMAIN sessions) \in Nat
        /\ \A i \in DOMAIN sessions : i <= Largest(DOMAIN sessions)
    BY <2>1, <2>2, LargestIs
  <2> QED
    BY <2>1, <2>3 DEF Start
<1>2. Types'
  BY <1>0, <1>1 DEF Types, NoSegment, Pcs, RowsSafe
<1>4. Ordered' /\ Created' /\ Newest' /\ ActiveKnown' /\ Doomed'
  BY <1>0 DEF Ordered, Created, Newest, ActiveKnown, Doomed
<1>5. SessionsSafe' /\ RowsSafe'
  BY <1>0 DEF SessionsSafe, RowsSafe, RowSafe, Points
<1> QED
  BY <1>2, <1>4, <1>5

LEMMA ReceiveStep ==
  ASSUME IInv, Receive
  PROVE  IInv'
<1> USE DEF IInv
<1> DEFINE n == IF Len(queue) < BatchMax THEN Len(queue) ELSE BatchMax
<1>0. /\ pc = "receive" /\ pc' = "append" /\ rows' = {}
      /\ batch' = SubSeq(queue, 1, n) /\ queue' = SubSeq(queue, n + 1, Len(queue))
      /\ UNCHANGED <<offered, nextId, active, expired, doomed,
                     segments, sessions, files, synced, lastCreated>>
  BY DEF Receive, retention, catalog, directory, history
<1>1. n \in Nat /\ n <= Len(queue) /\ queue \in Seq(Session)
  BY SizesAssumption DEF Types
<1> HIDE DEF n
<1>2. /\ batch' \in Seq(Session) /\ Len(batch') = n
      /\ \A k \in 1..n : batch'[k] = queue[k]
  BY <1>0, <1>1
<1>3. /\ queue' \in Seq(Session) /\ Len(queue') = Len(queue) - n
      /\ \A k \in 1..Len(queue') : queue'[k] = queue[n + k]
  BY <1>0, <1>1
<1>4. Types'
  BY <1>0, <1>2, <1>3 DEF Types, Pcs
<1>6. Ordered' /\ Created' /\ Newest' /\ ActiveKnown' /\ Doomed'
  BY <1>0 DEF Ordered, Created, Newest, ActiveKnown, Doomed, Running
<1>7. SessionsSafe' /\ RowsSafe'
  BY <1>0 DEF SessionsSafe, RowsSafe, RowSafe, Points
<1> QED
  BY <1>4, <1>6, <1>7

\* Syncing the active file makes the rows of the batch safe to commit.
LEMMA SyncedRows ==
  ASSUME IInv, pc = "append", pc' \in {"open", "commit"},
         UNCHANGED <<rows, active, segments, files>>,
         synced' \in [DOMAIN files -> Nat],
         \A f \in DOMAIN files : synced[f] <= synced'[f] /\ synced'[f] <= Len(files[f]),
         active.created \in DOMAIN files =>
           synced'[active.created] = Len(files[active.created])
  PROVE  RowsSafe'
<1> USE DEF IInv
<1>1. CASE active = NoSegment
  BY <1>1 DEF RowsSafe, Running
<1>2. ASSUME active # NoSegment, NEW r \in rows, r.segment \in DOMAIN segments
      PROVE  Points(r.id, r) /\ r.offset <= synced'[segments[r.segment]]
  <2>1. Points(r.id, r) /\ (r.segment # active.id => r.offset <= synced[segments[r.segment]])
    BY <1>2 DEF RowsSafe, RowSafe, Running
  <2>2. r.offset \in Nat
    BY DEF Types
  <2>3. CASE r.segment # active.id
    BY <2>1, <2>2, <2>3 DEF Points, Types
  <2>4. CASE r.segment = active.id
    BY <1>2, <2>1, <2>4 DEF Points, ActiveKnown, Running, Types
  <2> QED
    BY <2>1, <2>3, <2>4
<1>3. \A r \in rows : RowSafe(r)'
  BY <1>2, <1>1 DEF RowsSafe, RowSafe, Points, Running
<1> QED
  BY <1>3, <1>1 DEF RowsSafe, Running

LEMMA CloseSegmentStep ==
  ASSUME IInv, CloseSegment
  PROVE  IInv'
<1> USE DEF IInv
<1>0. /\ pc = "append" /\ pc' = "open" /\ batch # <<>>
      /\ UNCHANGED <<queue, offered, batch, rows, nextId, active, expired, doomed,
                     segments, sessions, files, lastCreated>>
  BY DEF CloseSegment, channel, retention, catalog, history
<1>1. /\ synced' \in [DOMAIN files -> Nat]
      /\ \A f \in DOMAIN files : synced[f] <= synced'[f] /\ synced'[f] <= Len(files[f])
      /\ active.created \in DOMAIN files =>
           synced'[active.created] = Len(files[active.created])
  BY DEF CloseSegment, Types
<1>2. Types'
  BY <1>0, <1>1 DEF Types, Pcs
<1>3. Newest'
  BY <1>0 DEF Newest
<1>4. Ordered' /\ Created' /\ ActiveKnown' /\ Doomed'
  BY <1>0 DEF Ordered, Created, ActiveKnown, Doomed, Running
<1>5. SessionsSafe'
  BY <1>0, <1>1 DEF SessionsSafe, Points, Types
<1>6. RowsSafe'
  BY <1>0, <1>1, SyncedRows
<1> QED
  BY <1>2, <1>3, <1>4, <1>5, <1>6

\* A segment that is not opened late is younger than all opened before.
LEMMA OpensYounger == OpenFile /\ ~late' => ~ (Head(batch).time <= lastCreated)
<1>1. OpenFile => (late' = (late \/ Head(batch).time <= lastCreated))
  BY DEF OpenFile
<1> QED
  BY <1>1, Zenon

LEMMA OpenFileStep ==
  ASSUME IInv, ~late', OpenFile
  PROVE  IInv'
<1> USE DEF IInv
<1> DEFINE now == batch[1].time
<1>0. /\ pc = "open" /\ pc' = "insert" /\ batch # <<>> /\ Head(batch) = batch[1]
      /\ UNCHANGED <<queue, offered, batch, rows, nextId, active, expired, doomed,
                     segments, sessions>>
  BY DEF OpenFile, channel, retention, catalog, Newest, Types
<1>1. now \in Nat
  <2>1. batch[1] \in Session
    BY <1>0 DEF Types
  <2> QED
    BY <2>1 DEF Session
<1>2. /\ DOMAIN files \subseteq DOMAIN files' /\ now \in DOMAIN files'
      /\ \A f \in DOMAIN files : files'[f] = files[f] /\ synced'[f] = synced[f]
      /\ files' \in [DOMAIN files' -> Seq(Record)]
      /\ synced' \in [DOMAIN files' -> Nat]
      /\ \A f \in DOMAIN files' : synced'[f] <= Len(files'[f])
  <2>1. CASE now \in DOMAIN files
    BY <1>0, <2>1 DEF OpenFile, Types
  <2>2. CASE now \notin DOMAIN files
    <3>1. files' = With(files, now, <<>>) /\ synced' = With(synced, now, 0)
      BY <1>0, <2>2 DEF OpenFile
    <3>2. DOMAIN files' = DOMAIN files \cup {now} /\ DOMAIN synced' = DOMAIN files'
      BY <3>1 DEF With, Types
    <3>3. files'[now] = <<>> /\ synced'[now] = 0
      BY <3>1 DEF With
    <3>4. \A f \in DOMAIN files : files'[f] = files[f] /\ synced'[f] = synced[f]
      BY <2>2, <3>1 DEF With, Types
    <3>5. files' \in [DOMAIN files' -> Seq(Record)]
      BY <3>1, <3>2, <3>3, <3>4 DEF With, Types
    <3>6. synced' \in [DOMAIN files' -> Nat]
      BY <3>1, <3>2, <3>3, <3>4 DEF With, Types
    <3>7. \A f \in DOMAIN files' : synced'[f] <= Len(files'[f])
      BY <3>2, <3>3, <3>4 DEF Types
    <3> QED
      BY <3>2, <3>4, <3>5, <3>6, <3>7
  <2> QED
    BY <2>1, <2>2
<1>3. /\ lastCreated' \in Nat /\ lastCreated <= lastCreated' /\ now <= lastCreated'
  BY <1>0, <1>1 DEF OpenFile, Types
<1>4. Types'
  BY <1>0, <1>2, <1>3 DEF Types, Pcs
<1>5. Newest'
  <2>1. now > lastCreated
    BY <1>0, <1>1, OpensYounger DEF Types
  <2>2. \A s \in DOMAIN segments : segments[s] < now
    BY <1>1, <2>1 DEF Created, Types
  <2> QED
    BY <1>0, <1>2, <1>3, <2>2 DEF Newest
<1>6. Created'
  BY <1>0, <1>3 DEF Created, Types
<1>7. Ordered' /\ Doomed'
  BY <1>0 DEF Ordered, Doomed
<1>8. ActiveKnown'
  BY <1>0, <1>2 DEF ActiveKnown, Running
<1>9. SessionsSafe'
  BY <1>0, <1>2 DEF SessionsSafe, Points
<1>10. RowsSafe'
  BY <1>0, <1>2 DEF RowsSafe, RowSafe, Points, Running
<1> QED
  BY <1>4, <1>5, <1>6, <1>7, <1>8, <1>9, <1>10

LEMMA InsertSegmentStep ==
  ASSUME IInv, InsertSegment
  PROVE  IInv'
<1> USE DEF IInv
<1> DEFINE now == batch[1].time
           id == Largest(DOMAIN segments) + 1
<1>0. /\ pc = "insert" /\ batch # <<>> /\ Head(batch) = batch[1]
      /\ UNCHANGED <<offered, nextId, doomed, sessions, files, synced, lastCreated>>
  BY DEF InsertSegment, directory, history, Newest, Types
<1>1. now \in Nat
  <2>1. batch[1] \in Session
    BY <1>0 DEF Types
  <2> QED
    BY <2>1 DEF Session
<1>2. /\ \A s \in DOMAIN segments : segments[s] < now
      /\ now \in DOMAIN files /\ now <= lastCreated
  BY <1>0 DEF Newest
<1>3. now \notin Range(segments)
  BY <1>1, <1>2 DEF Range, Types
<1>4. /\ segments' = With(segments, id, now)
      /\ active' = [id |-> id, created |-> now, size |-> Len(files[now])]
      /\ expired' = Surplus(segments') /\ pc' = "expire"
      /\ UNCHANGED <<queue, batch, rows>>
  BY <1>0, <1>3 DEF InsertSegment
<1>5. id \in Nat \ {0} /\ \A s \in DOMAIN segments : s < id
  <2>1. DOMAIN segments \in SUBSET Nat /\ IsFiniteSet(DOMAIN segments)
    BY DEF Types
  <2>2. Largest(DOMAIN segments) \in Nat
        /\ \A s \in DOMAIN segments : s <= Largest(DOMAIN segments)
    BY <2>1, LargestIs
  <2> QED
    BY <2>1, <2>2
<1> HIDE DEF id
<1>6. /\ DOMAIN segments' = DOMAIN segments \cup {id}
      /\ segments'[id] = now
      /\ \A s \in DOMAIN segments : segments'[s] = segments[s]
      /\ segments' \in [DOMAIN segments' -> Nat]
  <2>1. id \notin DOMAIN segments
    BY <1>5 DEF Types
  <2> QED
    BY <1>1, <1>4, <2>1 DEF With, Types
<1>7. \A s \in DOMAIN segments' : segments'[s] <= now
  BY <1>1, <1>2, <1>6 DEF Types
<1>8. id \notin expired' /\ expired' \subseteq DOMAIN segments'
  <2>1. {t \in DOMAIN segments' : segments'[t] > segments'[id]} = {}
    BY <1>1, <1>6, <1>7
  <2>2. Cardinality({}) = 0
    BY FS_EmptySet
  <2>3. ~ (Cardinality({t \in DOMAIN segments' : segments'[t] > segments'[id]}) >= Retention)
    BY <2>1, <2>2, SegmentsAssumption
  <2> QED
    BY <1>4, <2>3 DEF Surplus
<1>9. Types'
  <2>1. IsFiniteSet(DOMAIN segments')
    <3>1. IsFiniteSet(DOMAIN segments)
      BY DEF Types
    <3> QED
      BY <1>6, <3>1, FS_AddElement
  <2>2. Len(files[now]) \in Nat
    BY <1>2 DEF Types
  <2> QED
    BY <1>0, <1>1, <1>4, <1>5, <1>6, <1>8, <2>1, <2>2 DEF Types, Pcs
<1>10. Ordered'
  BY <1>1, <1>2, <1>5, <1>6 DEF Ordered, Types
<1>11. Created'
  BY <1>0, <1>1, <1>2, <1>6 DEF Created, Types
<1>12. active'.id = id /\ active'.created = now /\ active'.size = Len(files[now])
  BY <1>4
<1>13. active' # NoSegment
  BY <1>5, <1>12 DEF NoSegment
<1>14. Newest' /\ Doomed'
  BY <1>4, <1>13 DEF Newest, Doomed
<1>15. ActiveKnown'
  BY <1>0, <1>2, <1>4, <1>6, <1>7, <1>8, <1>12, <1>13 DEF ActiveKnown
<1>16. SessionsSafe'
  BY <1>0, <1>6 DEF SessionsSafe, Points
<1>17. RowsSafe'
  <2>1. CASE rows = {}
    BY <1>0, <1>4, <1>13, <2>1 DEF RowsSafe
  <2>2. ASSUME NEW r \in rows
        PROVE  RowSafe(r)'
    <3>1. active # NoSegment
      BY <1>0, <2>2 DEF RowsSafe, Running
    <3>2. RowSafe(r) /\ active.id \in DOMAIN segments
      BY <1>0, <2>2, <3>1 DEF RowsSafe, ActiveKnown, Running
    <3>3. r.segment \in Nat /\ active.id \in Nat
      BY <2>2 DEF Types
    <3>4. r.segment < id
      BY <1>5, <3>2, <3>3 DEF RowSafe
    <3>5. r.segment \in DOMAIN segments' => r.segment \in DOMAIN segments
      BY <1>5, <1>6, <3>3, <3>4
    <3> QED
      BY <1>0, <1>4, <1>5, <1>6, <1>12, <3>2, <3>3, <3>4, <3>5 DEF RowSafe, Points
  <2> QED
    BY <1>0, <1>4, <1>13, <2>2 DEF RowsSafe
<1> QED
  BY <1>9, <1>10, <1>11, <1>14, <1>15, <1>16, <1>17

LEMMA ExpireRowsStep ==
  ASSUME IInv, NEW s \in expired, ExpireRows(s)
  PROVE  IInv'
<1> USE DEF IInv
<1>0. /\ pc = "expire" /\ pc' = "unlink" /\ doomed' = segments[s]
      /\ s \in DOMAIN segments /\ expired' = expired \ {s}
      /\ UNCHANGED <<queue, offered, batch, rows, nextId, active, files, synced,
                     lastCreated>>
  BY DEF ExpireRows, channel, directory, history, Types
<1>1. /\ DOMAIN segments' = DOMAIN segments \ {s}
      /\ \A t \in DOMAIN segments' : segments'[t] = segments[t]
      /\ segments' \in [DOMAIN segments' -> Nat]
  BY DEF ExpireRows, Without, Types
<1>2. /\ DOMAIN sessions' \subseteq DOMAIN sessions
      /\ \A i \in DOMAIN sessions' : sessions'[i] = sessions[i] /\ sessions'[i].segment # s
      /\ sessions' \in [DOMAIN sessions' -> [segment : Nat, offset : Nat, key : Nat]]
  BY DEF ExpireRows, Types
<1>3. Types'
  <2>1. IsFiniteSet(DOMAIN segments')
    BY <1>1, FS_Subset DEF Types
  <2> QED
    BY <1>0, <1>1, <1>2, <2>1 DEF Types, Pcs
<1>4. Ordered' /\ Created' /\ Newest'
  BY <1>0, <1>1 DEF Ordered, Created, Newest
<1>5. ActiveKnown'
  BY <1>0, <1>1 DEF ActiveKnown, Running
<1>6. Doomed'
  <2>1. ASSUME NEW t \in DOMAIN segments'
        PROVE  segments'[t] # doomed'
    <3>1. t \in DOMAIN segments /\ t # s /\ segments'[t] = segments[t]
      BY <1>1, <2>1
    <3>2. s \in Nat /\ t \in Nat /\ segments[s] \in Nat /\ segments[t] \in Nat
      BY <1>0, <3>1 DEF Types
    <3>3. s < t \/ t < s
      BY <3>1, <3>2
    <3> QED
      BY <1>0, <3>1, <3>2, <3>3 DEF Ordered
  <2> QED
    BY <2>1 DEF Doomed
<1>7. SessionsSafe'
  BY <1>0, <1>1, <1>2 DEF SessionsSafe, Points
<1>8. RowsSafe'
  BY <1>0, <1>1 DEF RowsSafe, RowSafe, Points, Running
<1> QED
  BY <1>3, <1>4, <1>5, <1>6, <1>7, <1>8

LEMMA UnlinkStep ==
  ASSUME IInv, Unlink
  PROVE  IInv'
<1> USE DEF IInv
<1>0. /\ pc = "unlink" /\ pc' = "expire"
      /\ UNCHANGED <<queue, offered, batch, rows, nextId, active, expired, doomed,
                     segments, sessions, lastCreated>>
  BY DEF Unlink, channel, retention, catalog, history
<1>1. /\ DOMAIN files \ {doomed} \subseteq DOMAIN files'
      /\ DOMAIN files' \subseteq DOMAIN files
      /\ \A f \in DOMAIN files' : files'[f] = files[f] /\ synced'[f] = synced[f]
      /\ files' \in [DOMAIN files' -> Seq(Record)]
      /\ synced' \in [DOMAIN files' -> Nat]
  BY DEF Unlink, directory, Without, Types
<1>2. \A s \in DOMAIN segments : segments[s] # doomed
  BY <1>0 DEF Doomed
<1>3. Types'
  BY <1>0, <1>1 DEF Types, Pcs
<1>4. Ordered' /\ Created' /\ Newest' /\ Doomed'
  BY <1>0 DEF Ordered, Created, Newest, Doomed
<1>5. ActiveKnown'
  BY <1>0, <1>1, <1>2 DEF ActiveKnown, Running
<1>6. SessionsSafe'
  BY <1>0, <1>1, <1>2 DEF SessionsSafe, Points
<1>7. RowsSafe'
  BY <1>0, <1>1, <1>2 DEF RowsSafe, RowSafe, Points, Running
<1> QED
  BY <1>3, <1>4, <1>5, <1>6, <1>7

LEMMA ExpireDoneStep ==
  ASSUME IInv, ExpireDone
  PROVE  IInv'
<1> USE DEF IInv
<1>0. /\ pc = "expire" /\ pc' = "write"
      /\ UNCHANGED <<queue, offered, batch, rows, nextId, active, expired, doomed,
                     segments, sessions, files, synced, lastCreated>>
  BY DEF ExpireDone, channel, retention, catalog, directory, history
<1>1. Types'
  BY <1>0 DEF Types, Pcs
<1>2. Ordered' /\ Created' /\ Newest' /\ ActiveKnown' /\ Doomed'
  BY <1>0 DEF Ordered, Created, Newest, ActiveKnown, Doomed, Running
<1>3. SessionsSafe' /\ RowsSafe'
  BY <1>0 DEF SessionsSafe, RowsSafe, RowSafe, Points, Running
<1> QED
  BY <1>1, <1>2, <1>3

LEMMA WriteRecordStep ==
  ASSUME IInv, AppendPayload
  PROVE  IInv'
<1> USE DEF IInv
<1> DEFINE session == batch[1]
           file == active.created
           record == [id |-> nextId, key |-> session.key]
           row == [id |-> nextId, key |-> session.key,
                   segment |-> active.id, offset |-> active.size + 1]
<1>0. /\ batch # <<>> /\ Head(batch) = session
      /\ pc \in {"append", "write"} /\ pc' = "append" /\ active # NoSegment
      /\ UNCHANGED <<queue, offered, expired, doomed, segments, sessions, synced,
                     lastCreated>>
  BY DEF AppendPayload, WriteRecord, Rotate, ActiveKnown, channel, retention,
         catalog, history, Types
<1>1. session \in Session /\ batch' \in Seq(Session)
  BY <1>0 DEF AppendPayload, WriteRecord, Types
<1>2. /\ active.id \in DOMAIN segments \ expired /\ segments[active.id] = file
      /\ \A s \in DOMAIN segments : segments[s] <= file
      /\ file \in DOMAIN files /\ active.size = Len(files[file])
  BY <1>0 DEF ActiveKnown, Running
<1>3. active \in [id : Nat, created : Nat, size : Nat] /\ nextId \in Nat \ {0}
  BY DEF Types
<1>4. /\ active' = [active EXCEPT !.size = @ + 1]
      /\ rows' = rows \cup {row} /\ nextId' = nextId + 1
      /\ files' = [files EXCEPT ![file] = Append(@, record)]
  BY <1>0, <1>2, <1>3 DEF AppendPayload, WriteRecord
<1>5. active'.id = active.id /\ active'.created = file /\ active'.size = active.size + 1
  BY <1>3, <1>4
<1>6. active' # NoSegment
  BY <1>2, <1>3, <1>5 DEF NoSegment, Types
<1>7. record \in Record
  BY <1>1, <1>3 DEF Record, Session
<1>8. /\ DOMAIN files' = DOMAIN files
      /\ files' \in [DOMAIN files -> Seq(Record)]
      /\ Len(files'[file]) = active.size + 1 /\ files'[file][active.size + 1] = record
      /\ \A f \in DOMAIN files :
            /\ Len(files[f]) <= Len(files'[f])
            /\ DOMAIN files[f] \subseteq DOMAIN files'[f]
            /\ \A k \in DOMAIN files[f] : files'[f][k] = files[f][k]
  <2>1. \A f \in DOMAIN files : files[f] \in Seq(Record)
    BY DEF Types
  <2>2. /\ DOMAIN files' = DOMAIN files /\ files'[file] = Append(files[file], record)
        /\ \A f \in DOMAIN files : f # file => files'[f] = files[f]
    BY <1>2, <1>4 DEF Types
  <2> HIDE DEF record, file
  <2>3. ASSUME NEW f \in DOMAIN files
        PROVE  files'[f] \in Seq(Record)
    <3>1. CASE f = file
      <4>1. files[file] \in Seq(Record) /\ files'[file] = Append(files[file], record)
        BY <1>2, <2>1, <2>2
      <4> QED
        BY <1>7, <3>1, <4>1
    <3>2. CASE f # file
      BY <2>1, <2>2, <3>2
    <3> QED
      BY <3>1, <3>2
  <2>4. files' \in [DOMAIN files -> Seq(Record)]
    <3>1. files' = [f \in DOMAIN files |-> files'[f]]
      BY <1>4, <2>2 DEF Types
    <3> QED
      BY <2>3, <3>1
  <2>5. Len(files'[file]) = active.size + 1 /\ files'[file][active.size + 1] = record
    BY <1>2, <1>7, <2>1, <2>2
  <2>6. ASSUME NEW f \in DOMAIN files
        PROVE  /\ Len(files[f]) <= Len(files'[f])
               /\ DOMAIN files[f] \subseteq DOMAIN files'[f]
               /\ \A k \in DOMAIN files[f] : files'[f][k] = files[f][k]
    <3>1. CASE f = file
      BY <1>7, <2>1, <2>2, <3>1
    <3>2. CASE f # file
      BY <2>1, <2>2, <3>2
    <3> QED
      BY <3>1, <3>2
  <2> QED
    BY <2>2, <2>4, <2>5, <2>6
<1> HIDE DEF record, file
<1>9. row \in [id : Nat \ {0}, key : Nat, segment : Nat, offset : Nat]
  BY <1>1, <1>3 DEF Session
<1>10. Types'
  <2>1. \A f \in DOMAIN files' : synced'[f] <= Len(files'[f])
    <3> SUFFICES ASSUME NEW f \in DOMAIN files
                 PROVE  synced[f] <= Len(files'[f])
      BY <1>0, <1>8
    <3>1. synced[f] \in Nat /\ synced[f] <= Len(files[f]) /\ Len(files[f]) \in Nat
      BY DEF Types
    <3>2. Len(files'[f]) \in Nat
      BY <1>8
    <3> QED
      BY <1>8, <3>1, <3>2
  <2>2. active' \in [id : Nat, created : Nat, size : Nat]
    BY <1>3, <1>4
  <2>3. rows' \subseteq [id : Nat \ {0}, key : Nat, segment : Nat, offset : Nat]
    BY <1>4, <1>9 DEF Types
  <2>4. /\ nextId' \in Nat \ {0}
        /\ \A i \in DOMAIN sessions : i < nextId'
        /\ \A r \in rows' : r.id < nextId'
    <3>1. nextId \in Nat \ {0} /\ nextId' = nextId + 1 /\ row.id = nextId
      BY <1>3, <1>4
    <3>2. /\ \A i \in DOMAIN sessions : i \in Nat /\ i < nextId
          /\ \A r \in rows : r.id \in Nat /\ r.id < nextId
      BY DEF Types
    <3> HIDE DEF row
    <3>3. rows' = rows \cup {row}
      BY <1>4
    <3> QED
      BY ONLY <3>1, <3>2, <3>3
  <2> HIDE DEF row
  <2> QED
    BY <1>0, <1>1, <1>8, <2>1, <2>2, <2>3, <2>4 DEF Types, Pcs
<1>11. Ordered' /\ Created' /\ Newest' /\ Doomed'
  BY <1>0, <1>6 DEF Ordered, Created, Newest, Doomed
<1>12. ActiveKnown'
  BY <1>0, <1>2, <1>5, <1>6, <1>8 DEF ActiveKnown
<1>13. SessionsSafe'
  BY <1>0, <1>8 DEF SessionsSafe, Points
<1>14. RowsSafe'
  <2>1. ASSUME NEW r \in rows
        PROVE  RowSafe(r)'
    <3>1. RowSafe(r)
      BY <1>0, <2>1 DEF RowsSafe, Running
    <3> QED
      BY <1>0, <1>5, <1>8, <3>1 DEF RowSafe, Points
  <2>2. ASSUME NEW r, r = row
        PROVE  RowSafe(r)'
    <3>1. /\ r.id = nextId /\ r.key = session.key
          /\ r.segment = active.id /\ r.offset = active.size + 1
      BY <2>2
    <3>2. active.size + 1 \in DOMAIN files'[file]
      <4>1. files'[file] \in Seq(Record)
        BY <1>2, <1>8
      <4> QED
        BY <1>3, <1>8, <4>1
    <3>3. Points(r.id, r)'
      BY <1>0, <1>2, <1>8, <3>1, <3>2 DEF Points, record
    <3> QED
      BY <1>0, <1>3, <1>5, <3>1, <3>3 DEF RowSafe
  <2> QED
    BY <1>0, <1>4, <1>6, <2>1, <2>2 DEF RowsSafe
<1> QED
  BY <1>10, <1>11, <1>12, <1>13, <1>14

LEMMA FlushActiveStep ==
  ASSUME IInv, FlushActive
  PROVE  IInv'
<1> USE DEF IInv
<1>0. /\ pc = "append" /\ pc' = "commit"
      /\ UNCHANGED <<queue, offered, batch, rows, nextId, active, expired, doomed,
                     segments, sessions, files, lastCreated>>
  BY DEF FlushActive, channel, retention, catalog, history
<1>1. /\ synced' \in [DOMAIN files -> Nat]
      /\ \A f \in DOMAIN files : synced[f] <= synced'[f] /\ synced'[f] <= Len(files[f])
      /\ active.created \in DOMAIN files =>
           synced'[active.created] = Len(files[active.created])
  BY DEF FlushActive, Types
<1>2. Types'
  BY <1>0, <1>1 DEF Types, Pcs
<1>3. Ordered' /\ Created' /\ Newest' /\ ActiveKnown' /\ Doomed'
  BY <1>0 DEF Ordered, Created, Newest, ActiveKnown, Doomed, Running
<1>4. SessionsSafe'
  BY <1>0, <1>1 DEF SessionsSafe, Points, Types
<1>5. RowsSafe'
  BY <1>0, <1>1, SyncedRows
<1> QED
  BY <1>2, <1>3, <1>4, <1>5

LEMMA CommitStep ==
  ASSUME IInv, Commit
  PROVE  IInv'
<1> USE DEF IInv
<1>0. /\ pc = "commit" /\ pc' \in {"receive", "stopped"} /\ rows' = {}
      /\ UNCHANGED <<offered, nextId, doomed, segments, files, synced, lastCreated>>
      /\ \/ UNCHANGED <<queue, batch, active, expired>>
         \/ /\ pc' = "stopped" /\ queue' = <<>> /\ batch' = <<>>
            /\ active' = NoSegment /\ expired' = {}
  BY DEF Commit, InsertRows, Ends, directory
<1>1. \/ sessions' = sessions
      \/ /\ \A r \in rows : r.segment \in DOMAIN segments
         /\ sessions' = [i \in DOMAIN sessions \cup {r.id : r \in rows} |->
                           IF i \in DOMAIN sessions THEN sessions[i]
                           ELSE [segment |-> RowOf(i).segment, offset |-> RowOf(i).offset,
                                 key |-> RowOf(i).key]]
  BY DEF Commit, Insertable, InsertRows
<1>2. ASSUME NEW i \in DOMAIN sessions' \ DOMAIN sessions
      PROVE  \E r \in rows : /\ r.id = i /\ r.segment \in DOMAIN segments
                             /\ sessions'[i] = [segment |-> r.segment, offset |-> r.offset,
                                                key |-> r.key]
  <2>1. \E r \in rows : r.id = i
    BY <1>1, <1>2
  <2>2. RowOf(i) \in rows /\ RowOf(i).id = i
    BY <2>1 DEF RowOf
  <2> QED
    BY <1>1, <1>2, <2>2
<1>3. /\ DOMAIN sessions \subseteq DOMAIN sessions'
      /\ \A i \in DOMAIN sessions : sessions'[i] = sessions[i]
  BY <1>1
<1>4. Types'
  <2>1. \A i \in DOMAIN sessions' : sessions'[i] \in [segment : Nat, offset : Nat, key : Nat]
    BY <1>2, <1>3 DEF Types
  <2>2. DOMAIN sessions' \subseteq Nat \ {0}
    BY <1>2 DEF Types
  <2>3. sessions' = [i \in DOMAIN sessions' |-> sessions'[i]]
    BY <1>1 DEF Types
  <2>4. \A i \in DOMAIN sessions' : i < nextId
    BY <1>2, <1>3 DEF Types
  <2>5. /\ queue' \in Seq(Session) /\ batch' \in Seq(Session)
        /\ active' \in [id : Nat, created : Nat, size : Nat]
        /\ expired' \subseteq DOMAIN segments
    <3>1. CASE UNCHANGED <<queue, batch, active, expired>>
      BY <3>1 DEF Types
    <3>2. CASE queue' = <<>> /\ batch' = <<>> /\ active' = NoSegment /\ expired' = {}
      BY <3>2 DEF NoSegment
    <3> QED
      BY <1>0, <3>1, <3>2
  <2> QED
    BY <1>0, <2>1, <2>2, <2>3, <2>4, <2>5 DEF Types, Pcs
<1>5. Ordered' /\ Created' /\ Newest' /\ ActiveKnown' /\ Doomed'
  BY <1>0 DEF Ordered, Created, Newest, ActiveKnown, Doomed, Running
<1>6. SessionsSafe'
  <2>1. ASSUME NEW i \in DOMAIN sessions
        PROVE  Points(i, sessions[i])' /\ (sessions[i].offset <= synced[segments[sessions[i].segment]])'
    BY <1>0, <1>3 DEF SessionsSafe, Points
  <2>2. ASSUME NEW i \in DOMAIN sessions' \ DOMAIN sessions
        PROVE  Points(i, sessions[i])' /\ (sessions[i].offset <= synced[segments[sessions[i].segment]])'
    <3>1. PICK r \in rows : /\ r.id = i /\ r.segment \in DOMAIN segments
                            /\ sessions'[i] = [segment |-> r.segment, offset |-> r.offset,
                                               key |-> r.key]
      BY <1>2, <2>2
    <3>2. Points(r.id, r) /\ r.offset <= synced[segments[r.segment]]
      BY <1>0, <3>1 DEF RowsSafe, RowSafe, Running
    <3> QED
      BY <1>0, <3>1, <3>2 DEF Points
  <2> QED
    BY <2>1, <2>2 DEF SessionsSafe
<1>7. RowsSafe'
  BY <1>0 DEF RowsSafe
<1> QED
  BY <1>4, <1>5, <1>6, <1>7

LEMMA FailsStep ==
  ASSUME IInv, Fails
  PROVE  IInv'
<1> USE DEF IInv
<1>0. /\ pc' = "stopped" /\ queue' = <<>> /\ batch' = <<>> /\ rows' = {}
      /\ active' = NoSegment /\ expired' = {}
      /\ UNCHANGED <<offered, nextId, doomed, segments, sessions, synced, lastCreated>>
  BY DEF Fails, Ends, catalog, history
<1>1. /\ DOMAIN files' = DOMAIN files /\ files' \in [DOMAIN files -> Seq(Record)]
      /\ \A f \in DOMAIN files :
            /\ Len(files[f]) <= Len(files'[f])
            /\ DOMAIN files[f] \subseteq DOMAIN files'[f]
            /\ \A k \in DOMAIN files[f] : files'[f][k] = files[f][k]
  <2>1. Torn \in Record /\ \A f \in DOMAIN files : files[f] \in Seq(Record)
    BY DEF Types, Torn, Record
  <2>2. CASE files' = files
    BY <2>1, <2>2 DEF Types
  <2>3. CASE /\ active.created \in DOMAIN files
             /\ files' = [files EXCEPT ![active.created] = Append(@, Torn)]
    <3>1. /\ DOMAIN files' = DOMAIN files
          /\ files'[active.created] = Append(files[active.created], Torn)
          /\ \A f \in DOMAIN files : f # active.created => files'[f] = files[f]
      BY <2>3 DEF Types
    <3>2. ASSUME NEW f \in DOMAIN files
          PROVE  /\ files'[f] \in Seq(Record)
                 /\ Len(files[f]) <= Len(files'[f])
                 /\ DOMAIN files[f] \subseteq DOMAIN files'[f]
                 /\ \A k \in DOMAIN files[f] : files'[f][k] = files[f][k]
      <4>1. CASE f = active.created
        <5>1. files[f] \in Seq(Record) /\ Torn \in Record
          BY <2>1
        <5>2. files'[f] = Append(files[f], Torn)
          BY <3>1, <4>1
        <5>3. /\ files'[f] \in Seq(Record) /\ Len(files'[f]) = Len(files[f]) + 1
              /\ Len(files[f]) \in Nat
              /\ DOMAIN files[f] = 1..Len(files[f]) /\ DOMAIN files'[f] = 1..Len(files'[f])
          BY <5>1, <5>2
        <5>4. \A k \in DOMAIN files[f] : files'[f][k] = files[f][k]
          BY <5>1, <5>2
        <5> QED
          BY <5>3, <5>4
      <4>2. CASE f # active.created
        BY <2>1, <3>1, <4>2
      <4> QED
        BY <4>1, <4>2
    <3>3. files' = [f \in DOMAIN files |-> files'[f]]
      BY <2>3, <3>1 DEF Types
    <3> QED
      BY <3>1, <3>2, <3>3
  <2> QED
    BY <2>2, <2>3 DEF Fails
<1>2. Types'
  <2>1. \A f \in DOMAIN files' : synced'[f] <= Len(files'[f])
    <3> SUFFICES ASSUME NEW f \in DOMAIN files
                 PROVE  synced[f] <= Len(files'[f])
      BY <1>0, <1>1
    <3>1. synced[f] \in Nat /\ synced[f] <= Len(files[f]) /\ Len(files[f]) \in Nat
      BY DEF Types
    <3>2. Len(files'[f]) \in Nat
      BY <1>1
    <3> QED
      BY <1>1, <3>1, <3>2
  <2> QED
    BY <1>0, <1>1, <2>1 DEF Types, Pcs, NoSegment
<1>3. Ordered' /\ Created' /\ Newest' /\ ActiveKnown' /\ Doomed'
  BY <1>0 DEF Ordered, Created, Newest, ActiveKnown, Doomed, Running
<1>4. SessionsSafe'
  BY <1>0, <1>1 DEF SessionsSafe, Points
<1>5. RowsSafe'
  BY <1>0 DEF RowsSafe, Running
<1> QED
  BY <1>2, <1>3, <1>4, <1>5

LEMMA CrashStep ==
  ASSUME IInv, Crash
  PROVE  IInv'
<1> USE DEF IInv
<1>0. /\ pc' = "down" /\ queue' = <<>> /\ batch' = <<>> /\ rows' = {}
      /\ active' = NoSegment /\ expired' = {}
      /\ UNCHANGED <<offered, nextId, doomed, segments, sessions, lastCreated>>
  BY DEF Crash, catalog
<1>1. PICK kept \in SUBSET {f \in DOMAIN files : synced[f] = 0} :
        LET names == kept \cup {f \in DOMAIN files : synced[f] > 0}
        IN  /\ files' \in {g \in [names -> UNION {Remains(files[f], synced[f]) : f \in names}] :
                             \A f \in names : g[f] \in Remains(files[f], synced[f])}
            /\ synced' = [f \in names |-> Len(files'[f])]
  BY DEF Crash
<1> DEFINE names == kept \cup {f \in DOMAIN files : synced[f] > 0}
<1>2. /\ DOMAIN files' = names /\ names \subseteq DOMAIN files
      /\ files' = [f \in names |-> files'[f]]
      /\ \A f \in names : files'[f] \in Remains(files[f], synced[f])
      /\ synced' = [f \in names |-> Len(files'[f])]
      /\ \A f \in DOMAIN files : synced[f] > 0 => f \in names
  BY <1>1
<1> HIDE DEF names
<1>3. ASSUME NEW f \in names
      PROVE  /\ files'[f] \in Seq(Record)
             /\ synced[f] <= Len(files'[f])
             /\ \A k \in 1..synced[f] : files'[f][k] = files[f][k]
  <2>1. files[f] \in Seq(Record) /\ synced[f] \in Nat /\ synced[f] <= Len(files[f])
    BY <1>2 DEF Types
  <2>2. files'[f] \in Remains(files[f], synced[f])
    BY <1>2
  <2> QED
    BY <2>1, <2>2, RemainsIs
<1>4. /\ files' \in [DOMAIN files' -> Seq(Record)]
      /\ synced' \in [DOMAIN files' -> Nat]
      /\ \A f \in DOMAIN files' : synced'[f] <= Len(files'[f])
  BY <1>2, <1>3
<1>5. Types'
  BY <1>0, <1>4 DEF Types, Pcs, NoSegment
<1>6. Ordered' /\ Created' /\ Newest' /\ ActiveKnown' /\ Doomed' /\ RowsSafe'
  BY <1>0 DEF Ordered, Created, Newest, ActiveKnown, Doomed, RowsSafe, Running
<1>7. SessionsSafe'
  <2>1. ASSUME NEW i \in DOMAIN sessions
        PROVE  Points(i, sessions[i])' /\ (sessions[i].offset <= synced[segments[sessions[i].segment]])'
    <3> DEFINE row == sessions[i]
               file == segments[row.segment]
    <3>1. /\ row.segment \in DOMAIN segments /\ file \in DOMAIN files
          /\ row.offset \in DOMAIN files[file] /\ row.offset <= synced[file]
          /\ files[file][row.offset] = [id |-> i, key |-> row.key]
      BY <2>1 DEF SessionsSafe, Points
    <3>2. /\ files[file] \in Seq(Record) /\ synced[file] \in Nat /\ row.offset \in Nat
      BY <3>1 DEF Types
    <3>3. row.offset \in 1..synced[file]
      BY <3>1, <3>2
    <3>4. file \in names
      BY <1>2, <3>1, <3>2, <3>3
    <3>5. row.offset \in DOMAIN files'[file] /\ row.offset <= synced'[file]
      BY <1>2, <1>3, <3>2, <3>3, <3>4
    <3>6. files'[file][row.offset] = [id |-> i, key |-> row.key]
      BY <1>3, <3>1, <3>3, <3>4
    <3> QED
      BY <1>0, <1>2, <3>1, <3>4, <3>5, <3>6 DEF Points
  <2> QED
    BY <1>0, <2>1 DEF SessionsSafe
<1> QED
  BY <1>5, <1>6, <1>7

-----------------------------------------------------------------------------
(* The theorems. *)

LEMMA InitIInv == Init => IInv
<1> SUFFICES ASSUME Init
             PROVE  IInv
  OBVIOUS
<1>1. DOMAIN segments = {} /\ DOMAIN sessions = {} /\ DOMAIN files = {} /\ DOMAIN synced = {}
  BY DEF Init
<1>2. IsFiniteSet({})
  BY FS_EmptySet
<1>3. Types
  BY <1>1, <1>2 DEF Init, Types, Pcs, NoSegment
<1>4. Ordered /\ Created /\ Newest /\ ActiveKnown /\ Doomed
  BY <1>1 DEF Init, Ordered, Created, Newest, ActiveKnown, Doomed, Running
<1>5. SessionsSafe /\ RowsSafe
  BY <1>1 DEF Init, SessionsSafe, RowsSafe
<1> QED
  BY <1>3, <1>4, <1>5 DEF IInv

LEMMA NextIInv == IInv /\ ~late' /\ [Next]_vars => IInv'
<1> SUFFICES ASSUME IInv, ~late', [Next]_vars
             PROVE  IInv'
  OBVIOUS
<1>1. CASE UNCHANGED vars
  BY <1>1, ReaderStep DEF vars
<1>2. ASSUME NEW time \in Times, TryStore(time)
      PROVE  IInv'
  BY <1>2, TryStoreStep
<1>3. CASE Start
  BY <1>3, StartStep
<1>4. CASE Writer
  <2>1. CASE Receive
    BY <2>1, ReceiveStep
  <2>2. CASE CloseSegment
    BY <2>2, CloseSegmentStep
  <2>3. CASE OpenFile
    BY <2>3, OpenFileStep
  <2>4. CASE InsertSegment
    BY <2>4, InsertSegmentStep
  <2>5. ASSUME NEW s \in expired, ExpireRows(s)
        PROVE  IInv'
    BY <2>5, ExpireRowsStep
  <2>6. CASE Unlink
    BY <2>6, UnlinkStep
  <2>7. CASE ExpireDone
    BY <2>7, ExpireDoneStep
  <2>8. CASE AppendPayload
    BY <2>8, WriteRecordStep
  <2>9. CASE FlushActive
    BY <2>9, FlushActiveStep
  <2>10. CASE Commit
    BY <2>10, CommitStep
  <2> QED
    BY <1>4, <2>1, <2>2, <2>3, <2>4, <2>5, <2>6, <2>7, <2>8, <2>9, <2>10 DEF Writer
<1>5. CASE Fails
  BY <1>5, FailsStep
<1>6. ASSUME NEW id \in DOMAIN sessions, Lookup(id)
      PROVE  IInv'
  BY <1>6, ReaderStep DEF Lookup, channel, retention, catalog, directory, history
<1>7. CASE ReadPayload
  BY <1>7, ReaderStep DEF ReadPayload, channel, retention, catalog, directory, history
<1>8. CASE Respond
  BY <1>8, ReaderStep DEF Respond, channel, retention, catalog, directory, history
<1>9. CASE Crash
  BY <1>9, CrashStep
<1> QED
  BY <1>1, <1>2, <1>3, <1>4, <1>5, <1>6, <1>7, <1>8, <1>9 DEF Next

\* A run that began late stays on the record.
LEMMA LateStays == late /\ [Next]_vars => late'
BY DEF Next, vars, Writer, TryStore, Start, Receive, CloseSegment, OpenFile, InsertSegment,
       ExpireRows, Unlink, ExpireDone, AppendPayload, WriteRecord, FlushActive, Commit,
       Fails, Lookup, ReadPayload, Respond, Crash, history

\* As long as no run began with a session no younger than a segment opened
\* before, whatever the catalog says of a session can be read back from the segment
\* directory, through every rotation, failure, crash and restart
\* (storage/mod.rs run_writer, storage/segment.rs).
THEOREM CatalogResolves == Spec => []Resolvable
<1>1. (late \/ IInv) /\ [Next]_vars => (late \/ IInv)'
  BY NextIInv, LateStays
<1>2. (late \/ IInv) => Resolvable
  BY DEF IInv, SessionsSafe, Resolvable
<1> QED
  BY InitIInv, <1>1, <1>2, PTL DEF Spec

-----------------------------------------------------------------------------
(* Sessions are numbered in the order of their arrival, for whatever clock: *)
(* the keys grow from the catalog over the rows and the rest of the batch   *)
(* to the queue, and the ids with them.                                     *)

Growing(s) == \A j, k \in 1..Len(s) : j < k => s[j].key < s[k].key
Settled == {sessions[i].key : i \in DOMAIN sessions} \cup {r.key : r \in rows}

KeyTypes ==
  /\ queue \in Seq(Session) /\ batch \in Seq(Session)
  /\ offered \in Nat /\ nextId \in Nat \ {0}
  /\ \A r \in rows : r.id \in Nat /\ r.key \in Nat
  /\ DOMAIN sessions \subseteq Nat /\ \A i \in DOMAIN sessions : sessions[i].key \in Nat
Numbered ==
  /\ \A i \in DOMAIN sessions : i < nextId
  /\ \A r \in rows : r.id < nextId /\ \A i \in DOMAIN sessions : i < r.id
  /\ pc = "down" => rows = {}
KeysGrow ==
  /\ IdsFollowArrival
  /\ \A r \in rows : \A i \in DOMAIN sessions : sessions[i].key < r.key
  /\ \A q, r \in rows : q.id < r.id => q.key < r.key
  /\ Growing(batch) /\ Growing(queue)
KeysAhead ==
  /\ \A k \in Settled : /\ \A b \in 1..Len(batch) : k < batch[b].key
                        /\ \A q \in 1..Len(queue) : k < queue[q].key
                        /\ k <= offered
  /\ \A b \in 1..Len(batch) : /\ \A q \in 1..Len(queue) : batch[b].key < queue[q].key
                              /\ batch[b].key <= offered
  /\ \A q \in 1..Len(queue) : queue[q].key <= offered

Arrival == KeyTypes /\ Numbered /\ KeysGrow /\ KeysAhead

LEMMA KeysAreNat ==
  ASSUME KeyTypes
  PROVE  /\ \A b \in 1..Len(batch) : batch[b].key \in Nat
         /\ \A q \in 1..Len(queue) : queue[q].key \in Nat
         /\ \A k \in Settled : k \in Nat
         /\ Len(batch) \in Nat /\ Len(queue) \in Nat
<1>1. \A s \in Seq(Session) : Len(s) \in Nat /\ \A k \in 1..Len(s) : s[k] \in Session
  BY LenProperties
<1>2. \A s \in Session : s.key \in Nat
  BY DEF Session
<1> QED
  BY <1>1, <1>2 DEF KeyTypes, Settled

LEMMA TryStoreArrival ==
  ASSUME Arrival, NEW time \in Times, TryStore(time)
  PROVE  Arrival'
<1> DEFINE session == [key |-> offered', time |-> time]
<1>0. /\ UNCHANGED <<pc, batch, rows, nextId, sessions>>
      /\ offered' = offered + 1 /\ offered \in Nat /\ queue \in Seq(Session)
      /\ queue' = queue \/ queue' = Append(queue, session)
  BY DEF TryStore, catalog, Arrival, KeyTypes
<1>1. session \in Session /\ session.key = offered + 1
  BY <1>0, BoundsAssumption, SizesAssumption DEF Session, Times
<1> HIDE DEF session
<1>2. /\ queue' \in Seq(Session) /\ Len(queue) \in Nat
      /\ \A q \in 1..Len(queue') : \/ q \in 1..Len(queue) /\ queue'[q] = queue[q]
                                   \/ q = Len(queue) + 1 /\ queue'[q] = session
  <2>1. CASE queue' = queue
    BY <1>0, <2>1, LenProperties
  <2>2. CASE queue' = Append(queue, session)
    BY <1>0, <1>1, <2>2, AppendProperties, LenProperties
  <2> QED
    BY <1>0, <2>1, <2>2
<1>3. /\ \A q \in 1..Len(queue) : queue[q].key \in Nat /\ queue[q].key <= offered
      /\ \A b \in 1..Len(batch) : batch[b].key \in Nat /\ batch[b].key <= offered
      /\ \A k \in Settled : k \in Nat /\ k <= offered
  BY KeysAreNat DEF Arrival, KeysAhead
<1>4. Growing(queue)'
  <2>1. Growing(queue)
    BY DEF Arrival, KeysGrow
  <2> QED
    BY <1>0, <1>1, <1>2, <1>3, <2>1 DEF Growing
<1>5. Settled' = Settled
  BY <1>0 DEF Settled
<1>6. KeysAhead'
  <2>1. \A q \in 1..Len(queue') : queue'[q].key <= offered'
    BY <1>0, <1>1, <1>2, <1>3
  <2>2. ASSUME NEW k \in Settled
        PROVE  /\ \A b \in 1..Len(batch) : k < batch[b].key
               /\ \A q \in 1..Len(queue') : k < queue'[q].key
               /\ k <= offered'
    BY <1>0, <1>1, <1>2, <1>3 DEF Arrival, KeysAhead
  <2>3. ASSUME NEW b \in 1..Len(batch)
        PROVE  /\ \A q \in 1..Len(queue') : batch[b].key < queue'[q].key
               /\ batch[b].key <= offered'
    BY <1>0, <1>1, <1>2, <1>3 DEF Arrival, KeysAhead
  <2> QED
    BY <1>0, <1>5, <2>1, <2>2, <2>3 DEF KeysAhead
<1>7. KeyTypes' /\ Numbered'
  BY <1>0, <1>2 DEF Arrival, KeyTypes, Numbered
<1>8. KeysGrow'
  BY <1>0, <1>4 DEF Arrival, KeysGrow, IdsFollowArrival, Growing
<1> QED
  BY <1>6, <1>7, <1>8 DEF Arrival

LEMMA StartArrival ==
  ASSUME Arrival, Start
  PROVE  Arrival'
<1>1. /\ rows = {} /\ UNCHANGED <<queue, offered, batch, rows, sessions>>
      /\ pc' = "receive" /\ nextId' = Largest(DOMAIN sessions) + 1
  BY DEF Start, channel, catalog, Arrival, Numbered
<1>2. nextId' \in Nat \ {0} /\ \A i \in DOMAIN sessions : i < nextId'
  <2>1. DOMAIN sessions \in SUBSET Nat /\ nextId \in Nat /\ \A i \in DOMAIN sessions : i <= nextId
    BY DEF Arrival, KeyTypes, Numbered
  <2>2. IsFiniteSet(DOMAIN sessions)
    BY <2>1, FS_BoundedSetOfNaturals
  <2>3. Largest(DOMAIN sessions) \in Nat
        /\ \A i \in DOMAIN sessions : i <= Largest(DOMAIN sessions)
    BY <2>1, <2>2, LargestIs
  <2> QED
    BY <1>1, <2>1, <2>3
<1>3. KeyTypes' /\ Numbered'
  BY <1>1, <1>2 DEF Arrival, KeyTypes, Numbered
<1>4. KeysGrow' /\ KeysAhead'
  BY <1>1 DEF Arrival, KeysGrow, KeysAhead, IdsFollowArrival, Growing, Settled
<1> QED
  BY <1>3, <1>4 DEF Arrival

LEMMA ReceiveArrival ==
  ASSUME Arrival, Receive
  PROVE  Arrival'
<1> DEFINE n == IF Len(queue) < BatchMax THEN Len(queue) ELSE BatchMax
<1>0. /\ pc' = "append" /\ rows' = {}
      /\ batch' = SubSeq(queue, 1, n) /\ queue' = SubSeq(queue, n + 1, Len(queue))
      /\ UNCHANGED <<offered, nextId, sessions>>
  BY DEF Receive, catalog
<1>1. n \in Nat /\ n <= Len(queue) /\ queue \in Seq(Session) /\ Len(queue) \in Nat
  BY SizesAssumption, LenProperties DEF Arrival, KeyTypes
<1> HIDE DEF n
<1>2. /\ batch' \in Seq(Session) /\ Len(batch') = n
      /\ \A k \in 1..n : batch'[k] = queue[k]
  BY <1>0, <1>1
<1>3. /\ queue' \in Seq(Session) /\ Len(queue') = Len(queue) - n
      /\ \A k \in 1..Len(queue') : queue'[k] = queue[n + k]
  BY <1>0, <1>1
<1>4. Growing(queue) /\ \A q \in 1..Len(queue) : queue[q].key \in Nat
  BY KeysAreNat DEF Arrival, KeysGrow
<1>5. Growing(batch)' /\ Growing(queue)'
  <2>1. \A j, k \in 1..n : j < k => queue[j].key < queue[k].key
    BY <1>1, <1>4 DEF Growing
  <2>2. Growing(batch)'
    BY <1>2, <2>1 DEF Growing
  <2>3. ASSUME NEW j \in 1..Len(queue'), NEW k \in 1..Len(queue'), j < k
        PROVE  queue'[j].key < queue'[k].key
    <3>1. n + j \in 1..Len(queue) /\ n + k \in 1..Len(queue) /\ n + j < n + k
      BY <1>1, <1>3, <2>3
    <3> QED
      BY <1>3, <1>4, <3>1 DEF Growing
  <2> QED
    BY <2>2, <2>3 DEF Growing
<1>6. \A b \in 1..Len(batch') : \A q \in 1..Len(queue') : batch'[b].key < queue'[q].key
  BY <1>1, <1>2, <1>3, <1>4 DEF Growing
<1>7. Settled' \subseteq Settled
  BY <1>0 DEF Settled
<1>8. KeysAhead'
  <2>1. \A b \in 1..Len(batch') : b \in 1..Len(queue) /\ batch'[b] = queue[b]
    BY <1>1, <1>2
  <2>2. \A q \in 1..Len(queue') : n + q \in 1..Len(queue) /\ queue'[q] = queue[n + q]
    BY <1>1, <1>3
  <2>3. ASSUME NEW k \in Settled'
        PROVE  /\ \A b \in 1..Len(batch') : k < batch'[b].key
               /\ \A q \in 1..Len(queue') : k < queue'[q].key
               /\ k <= offered
    BY <1>7, <2>1, <2>2 DEF Arrival, KeysAhead
  <2>4. /\ \A b \in 1..Len(batch') : batch'[b].key <= offered
        /\ \A q \in 1..Len(queue') : queue'[q].key <= offered
    BY <2>1, <2>2 DEF Arrival, KeysAhead
  <2> QED
    BY <1>0, <1>6, <2>3, <2>4 DEF KeysAhead
<1>9. KeysGrow'
  BY <1>0, <1>5 DEF Arrival, KeysGrow, IdsFollowArrival
<1>10. KeyTypes' /\ Numbered'
  BY <1>0, <1>2, <1>3 DEF Arrival, KeyTypes, Numbered
<1> QED
  BY <1>8, <1>9, <1>10 DEF Arrival

LEMMA ExpireArrival ==
  ASSUME Arrival, NEW s \in expired, ExpireRows(s)
  PROVE  Arrival'
<1>1. /\ UNCHANGED <<queue, offered, batch, rows, nextId>> /\ pc' = "unlink"
      /\ DOMAIN sessions' \subseteq DOMAIN sessions
      /\ \A i \in DOMAIN sessions' : sessions'[i] = sessions[i]
  BY DEF ExpireRows, channel
<1>2. Settled' \subseteq Settled
  BY <1>1 DEF Settled
<1>3. KeyTypes' /\ Numbered'
  BY <1>1 DEF Arrival, KeyTypes, Numbered
<1>4. KeysGrow'
  BY <1>1 DEF Arrival, KeysGrow, IdsFollowArrival, Growing
<1>5. KeysAhead'
  BY <1>1, <1>2 DEF Arrival, KeysAhead
<1> QED
  BY <1>3, <1>4, <1>5 DEF Arrival

LEMMA AppendArrival ==
  ASSUME Arrival, AppendPayload
  PROVE  Arrival'
<1>0. batch \in Seq(Session) /\ batch # <<>> /\ nextId \in Nat \ {0}
  BY DEF AppendPayload, Arrival, KeyTypes
<1>1. /\ Head(batch) = batch[1] /\ Len(batch) \in Nat \ {0} /\ batch' = Tail(batch)
      /\ batch' \in Seq(Session) /\ Len(batch') = Len(batch) - 1
      /\ \A k \in 1..Len(batch') : batch'[k] = batch[k + 1]
  BY <1>0, HeadTailProperties, EmptySeq, LenProperties DEF AppendPayload, WriteRecord
<1> DEFINE row == [id |-> nextId, key |-> batch[1].key,
                   segment |-> active.id, offset |-> active'.size]
<1>2. /\ pc' = "append" /\ rows' = rows \cup {row} /\ nextId' = nextId + 1
      /\ UNCHANGED <<queue, offered, sessions>>
  BY <1>1 DEF AppendPayload, WriteRecord, channel, catalog
<1>3. row.id = nextId /\ row.key = batch[1].key
  OBVIOUS
<1> HIDE DEF row
<1>4. 1 \in 1..Len(batch) /\ batch[1].key \in Nat
  BY <1>1, KeysAreNat DEF Arrival
<1>5. \A k \in Settled' : k \in Settled \/ k = batch[1].key
  BY <1>2, <1>3 DEF Settled
<1>6. KeyTypes' /\ Numbered'
  <2>1. KeyTypes'
    BY <1>0, <1>1, <1>2, <1>3, <1>4 DEF Arrival, KeyTypes
  <2>2. ASSUME NEW r \in rows'
        PROVE  r.id < nextId' /\ \A i \in DOMAIN sessions : i < r.id
    BY <1>0, <1>2, <1>3 DEF Arrival, Numbered, KeyTypes
  <2>3. \A i \in DOMAIN sessions : i < nextId'
    BY <1>0, <1>2 DEF Arrival, Numbered, KeyTypes
  <2> QED
    BY <1>2, <2>1, <2>2, <2>3 DEF Numbered
<1>7. KeysGrow'
  <2>1. \A i \in DOMAIN sessions : sessions[i].key < batch[1].key
    BY <1>4 DEF Arrival, KeysAhead, Settled
  <2>2. \A r \in rows : r.key < batch[1].key /\ r.id < nextId /\ r.id \in Nat
    BY <1>4 DEF Arrival, KeysAhead, Settled, Numbered, KeyTypes
  <2>3. \A r \in rows' : \A i \in DOMAIN sessions : sessions[i].key < r.key
    BY <1>2, <1>3, <2>1 DEF Arrival, KeysGrow
  <2>4. ASSUME NEW q \in rows', NEW r \in rows', q.id < r.id
        PROVE  q.key < r.key
    <3>1. q \in rows
      BY <1>0, <1>2, <1>3, <2>2, <2>4
    <3> QED
      BY <1>2, <1>3, <2>2, <2>4, <3>1 DEF Arrival, KeysGrow
  <2>5. Growing(batch)'
    BY <1>1 DEF Arrival, KeysGrow, Growing
  <2> QED
    BY <1>2, <2>3, <2>4, <2>5 DEF Arrival, KeysGrow, IdsFollowArrival, Growing
<1>8. KeysAhead'
  <2>1. \A b \in 1..Len(batch') : b + 1 \in 1..Len(batch) /\ batch'[b] = batch[b + 1] /\ 1 < b + 1
    BY <1>1
  <2>2. \A b \in 1..Len(batch') : batch[1].key < batch'[b].key
    BY <1>4, <2>1 DEF Arrival, KeysGrow, Growing
  <2>3. ASSUME NEW k \in Settled'
        PROVE  /\ \A b \in 1..Len(batch') : k < batch'[b].key
               /\ \A q \in 1..Len(queue) : k < queue[q].key
               /\ k <= offered
    BY <1>4, <1>5, <2>1, <2>2 DEF Arrival, KeysAhead
  <2>4. \A b \in 1..Len(batch') : /\ \A q \in 1..Len(queue) : batch'[b].key < queue[q].key
                                  /\ batch'[b].key <= offered
    BY <2>1 DEF Arrival, KeysAhead
  <2> QED
    BY <1>2, <2>3, <2>4 DEF Arrival, KeysAhead
<1> QED
  BY <1>6, <1>7, <1>8 DEF Arrival

LEMMA CommitArrival ==
  ASSUME Arrival, Commit
  PROVE  Arrival'
<1>0. /\ pc' \in {"receive", "stopped"} /\ rows' = {}
      /\ UNCHANGED <<offered, nextId>>
      /\ \/ UNCHANGED <<queue, batch>>
         \/ queue' = <<>> /\ batch' = <<>>
  BY DEF Commit, InsertRows, Ends
<1>1. ASSUME NEW i \in DOMAIN sessions'
      PROVE  \/ i \in DOMAIN sessions /\ sessions'[i].key = sessions[i].key
             \/ \E r \in rows : r.id = i /\ sessions'[i].key = r.key
  <2>1. CASE sessions' = sessions
    BY <1>1, <2>1
  <2>2. CASE sessions' = [j \in DOMAIN sessions \cup {r.id : r \in rows} |->
                            IF j \in DOMAIN sessions THEN sessions[j]
                            ELSE [segment |-> RowOf(j).segment, offset |-> RowOf(j).offset,
                                  key |-> RowOf(j).key]]
    <3>1. i \in DOMAIN sessions \/ \E r \in rows : r.id = i
      BY <1>1, <2>2
    <3>2. (\E r \in rows : r.id = i) => RowOf(i) \in rows /\ RowOf(i).id = i
      BY DEF RowOf
    <3> QED
      BY <2>2, <3>1, <3>2
  <2> QED
    BY <2>1, <2>2 DEF Commit, InsertRows
<1>2. Settled' \subseteq Settled
  BY <1>0, <1>1 DEF Settled
<1>3. KeyTypes' /\ Numbered'
  <2>1. queue' \in Seq(Session) /\ batch' \in Seq(Session)
    <3>1. CASE UNCHANGED <<queue, batch>>
      BY <3>1 DEF Arrival, KeyTypes
    <3>2. CASE queue' = <<>> /\ batch' = <<>>
      BY <3>2
    <3> QED
      BY <1>0, <3>1, <3>2
  <2> QED
    BY <1>0, <1>1, <2>1 DEF Arrival, KeyTypes, Numbered
<1>4. KeysAhead'
  BY <1>0, <1>2 DEF Arrival, KeysAhead
<1>5. IdsFollowArrival'
  <2> SUFFICES ASSUME NEW i \in DOMAIN sessions', NEW j \in DOMAIN sessions', i < j
               PROVE  sessions'[i].key < sessions'[j].key
    BY DEF IdsFollowArrival
  <2>0. i \in Nat /\ j \in Nat
    BY <1>3 DEF KeyTypes
  <2>1. CASE j \in DOMAIN sessions /\ sessions'[j].key = sessions[j].key
    <3>1. \A r \in rows : r.id \in Nat /\ j < r.id
      BY <2>1 DEF Arrival, Numbered, KeyTypes
    <3>2. i \in DOMAIN sessions /\ sessions'[i].key = sessions[i].key
      BY <1>1, <2>0, <3>1
    <3> QED
      BY <2>1, <3>2 DEF Arrival, KeysGrow, IdsFollowArrival
  <2>2. ASSUME NEW r \in rows, r.id = j, sessions'[j].key = r.key
        PROVE  sessions'[i].key < sessions'[j].key
    <3>1. CASE i \in DOMAIN sessions /\ sessions'[i].key = sessions[i].key
      BY <2>2, <3>1 DEF Arrival, KeysGrow
    <3>2. ASSUME NEW q \in rows, q.id = i, sessions'[i].key = q.key
          PROVE  sessions'[i].key < sessions'[j].key
      BY <2>2, <3>2 DEF Arrival, KeysGrow
    <3> QED
      BY <1>1, <3>1, <3>2
  <2> QED
    BY <1>1, <2>1, <2>2
<1>6. KeysGrow'
  BY <1>0, <1>5 DEF Arrival, KeysGrow, Growing
<1> QED
  BY <1>3, <1>4, <1>6 DEF Arrival

LEMMA InitArrival == Init => Arrival
<1>1. Len(<<>>) = 0 /\ <<>> \in Seq(Session)
  OBVIOUS
<1> QED
  BY <1>1 DEF Init, Arrival, KeyTypes, Numbered, KeysGrow, KeysAhead, IdsFollowArrival, Growing, Settled

LEMMA NextArrival == Arrival /\ [Next]_vars => Arrival'
<1> SUFFICES ASSUME Arrival, [Next]_vars
             PROVE  Arrival'
  OBVIOUS
<1>1. CASE UNCHANGED <<queue, offered, batch, rows, nextId, sessions>>
           /\ (pc' = "down" => pc = "down")
  BY <1>1 DEF Arrival, KeyTypes, Numbered, KeysGrow, KeysAhead, IdsFollowArrival, Growing, Settled
<1>2. ASSUME NEW time \in Times, TryStore(time)
      PROVE  Arrival'
  BY <1>2, TryStoreArrival
<1>3. CASE Crash
  <2>1. /\ queue' = <<>> /\ batch' = <<>> /\ rows' = {}
        /\ UNCHANGED <<offered, nextId, sessions>>
    BY <1>3 DEF Crash, catalog
  <2>2. Len(<<>>) = 0 /\ <<>> \in Seq(Session)
    OBVIOUS
  <2>3. Settled' \subseteq Settled
    BY <2>1 DEF Settled
  <2> QED
    BY <2>1, <2>2, <2>3
    DEF Arrival, KeyTypes, Numbered, KeysGrow, KeysAhead, IdsFollowArrival, Growing
<1>5. CASE (InsertSegment \/ Fails) /\ Ends
  <2>1. /\ queue' = <<>> /\ batch' = <<>> /\ rows' = {}
        /\ UNCHANGED <<offered, nextId, sessions>>
    BY <1>5 DEF InsertSegment, Fails, Ends, catalog
  <2>2. Settled' \subseteq Settled
    BY <2>1 DEF Settled
  <2> QED
    BY <2>1, <2>2
    DEF Arrival, KeyTypes, Numbered, KeysGrow, KeysAhead, IdsFollowArrival, Growing
<1>4. \/ UNCHANGED <<queue, offered, batch, rows, nextId, sessions>> /\ (pc' = "down" => pc = "down")
      \/ (InsertSegment \/ Fails) /\ Ends
      \/ (\E time \in Times : TryStore(time)) \/ Start \/ Receive \/ AppendPayload \/ Commit \/ Crash
      \/ \E s \in expired : ExpireRows(s)
  BY DEF Next, vars, Writer, CloseSegment, OpenFile, InsertSegment, Unlink, ExpireDone, FlushActive,
         Fails, Running, Lookup, ReadPayload, Respond, channel, catalog
<1> QED
  BY <1>1, <1>2, <1>3, <1>4, <1>5, StartArrival, ReceiveArrival, AppendArrival, CommitArrival, ExpireArrival

\* Whatever the clocks, crashes and errors do, the ids of the stored sessions
\* follow the order in which try_store accepted them, and no session is stored
\* twice: the next id is read back from the catalog, and a batch is committed
\* whole or not at all (storage/mod.rs run_writer, next_session_id).
THEOREM NumberedInOrder == Spec => []IdsFollowArrival
<1>1. Arrival => IdsFollowArrival
  BY DEF Arrival, KeysGrow
<1> QED
  BY InitArrival, NextArrival, <1>1, PTL DEF Spec

-----------------------------------------------------------------------------
(* Types and bounds, for whatever clock.                                    *)

Shapes ==
  /\ pc \in Pcs
  /\ active \in [id : Nat, created : Nat, size : Nat]
  /\ DOMAIN segments \subseteq Nat /\ IsFiniteSet(DOMAIN segments)
  /\ files \in [DOMAIN files -> Seq(Record)]
  /\ synced \in [DOMAIN files -> Nat]
  /\ \A f \in DOMAIN files : synced[f] <= Len(files[f])
  /\ pc \in {"open", "insert"} => batch # <<>>
  /\ pc = "insert" => batch[1].time \in DOMAIN files

\* The bounds of TypeOK.
Sizes ==
  /\ Len(queue) <= Capacity /\ Len(batch) <= BatchMax
  /\ dropped \subseteq Nat

LEMMA NextSizes == Arrival /\ Sizes /\ [Next]_vars => Sizes'
<1> SUFFICES ASSUME Arrival, Sizes, [Next]_vars
             PROVE  Sizes'
  OBVIOUS
<1> USE DEF Sizes
<1>0. /\ queue \in Seq(Session) /\ batch \in Seq(Session) /\ offered \in Nat
      /\ Capacity \in Nat /\ BatchMax \in Nat
  BY SizesAssumption DEF Arrival, KeyTypes
<1>1. CASE UNCHANGED <<queue, batch, dropped>>
  BY <1>1
<1>2. ASSUME NEW time \in Times, TryStore(time)
      PROVE  Sizes'
  <2>1. batch' = batch /\ offered' \in Nat
    BY <1>0, <1>2 DEF TryStore
  <2>2. dropped' = dropped \/ dropped' = dropped \cup {offered'}
    BY <1>2 DEF TryStore
  <2>3. queue' = queue \/ (Len(queue) < Capacity /\ Len(queue') = Len(queue) + 1)
    BY <1>0, <1>2 DEF TryStore
  <2> QED
    <3>1. dropped' \subseteq Nat /\ Len(batch') <= BatchMax
      BY <2>1, <2>2
    <3>2. Len(queue') <= Capacity
      BY <1>0, <2>3
    <3> QED
      BY <3>1, <3>2
<1>3. CASE Receive
  BY <1>0, <1>3 DEF Receive
<1>4. CASE AppendPayload
  <2>1. Len(batch') <= Len(batch) /\ UNCHANGED <<queue, dropped>>
    BY <1>0, <1>4 DEF AppendPayload, WriteRecord, channel
  <2> QED
    BY <1>0, <2>1
<1>5. CASE Crash \/ (Ends /\ UNCHANGED dropped)
  <2>1. queue' = <<>> /\ batch' = <<>> /\ dropped' = dropped
    BY <1>5 DEF Crash, Ends
  <2> QED
    BY <1>0, <2>1
<1>6. \/ UNCHANGED <<queue, batch, dropped>>
      \/ (\E time \in Times : TryStore(time)) \/ Receive \/ AppendPayload \/ Crash
      \/ Ends /\ UNCHANGED dropped
  BY DEF Next, vars, Writer, Start, CloseSegment, OpenFile, InsertSegment, ExpireRows,
         Unlink, ExpireDone, FlushActive, Commit, InsertRows, Fails, Lookup, ReadPayload,
         Respond, channel
<1> QED
  BY <1>1, <1>2, <1>3, <1>4, <1>5, <1>6

\* A record added at the end of a file.
LEMMA ShapesOfAppend ==
  ASSUME Shapes, NEW file \in DOMAIN files, NEW record \in Record, UNCHANGED synced,
         files' = [files EXCEPT ![file] = Append(@, record)]
  PROVE  /\ files' \in [DOMAIN files' -> Seq(Record)] /\ synced' \in [DOMAIN files' -> Nat]
         /\ \A f \in DOMAIN files' : synced'[f] <= Len(files'[f])
<1>1. /\ DOMAIN files' = DOMAIN files /\ files' = [f \in DOMAIN files |-> files'[f]]
      /\ files'[file] = Append(files[file], record)
      /\ \A f \in DOMAIN files : f # file => files'[f] = files[f]
  BY DEF Shapes
<1>2. ASSUME NEW f \in DOMAIN files
      PROVE  files'[f] \in Seq(Record) /\ synced[f] <= Len(files'[f])
  <2>1. files[f] \in Seq(Record) /\ synced[f] \in Nat /\ synced[f] <= Len(files[f])
    BY DEF Shapes
  <2>2. CASE f = file
    <3>1. files'[f] = Append(files[f], record)
      BY <1>1, <2>2
    <3>2. files'[f] \in Seq(Record) /\ Len(files'[f]) = Len(files[f]) + 1 /\ Len(files[f]) \in Nat
      BY <2>1, <3>1, AppendProperties, LenProperties
    <3> QED
      BY <2>1, <3>2
  <2>3. CASE f # file
    BY <1>1, <2>1, <2>3
  <2> QED
    BY <2>2, <2>3
<1> QED
  BY <1>1, <1>2 DEF Shapes

LEMMA NextShapes ==
  ASSUME Arrival, Shapes, [Next]_vars
  PROVE  Shapes'
<1>0. /\ batch \in Seq(Session) /\ nextId \in Nat /\ NoSegment \in [id : Nat, created : Nat, size : Nat]
      /\ Torn \in Record
  BY DEF Arrival, KeyTypes, NoSegment, Torn, Record
<1>1. ASSUME batch # <<>>
      PROVE  Head(batch) = batch[1] /\ batch[1].time \in Nat /\ batch[1].key \in Nat
  <2>1. Head(batch) = batch[1] /\ batch[1] \in Session
    BY <1>0, <1>1
  <2> QED
    BY <2>1 DEF Session
<1>2. CASE /\ active' \in {active, NoSegment}
           /\ UNCHANGED <<segments, files, synced>>
           /\ \/ pc' \in Pcs \ {"open", "insert"}
              \/ UNCHANGED <<pc, batch>>
  BY <1>0, <1>2 DEF Shapes
<1>3. CASE CloseSegment \/ FlushActive
  <2>1. /\ UNCHANGED <<active, segments, files, batch>>
        /\ pc' = "commit" \/ (pc' = "open" /\ batch # <<>>)
        /\ \/ synced' = synced
           \/ synced' = [synced EXCEPT ![active.created] = Len(files[active.created])]
    BY <1>3 DEF CloseSegment, FlushActive, catalog
  <2>2. synced' \in [DOMAIN files -> Nat] /\ \A f \in DOMAIN files : synced'[f] <= Len(files[f])
    <3>1. CASE synced' = synced
      BY <3>1 DEF Shapes
    <3>2. CASE synced' = [synced EXCEPT ![active.created] = Len(files[active.created])]
      <4>1. \A f \in DOMAIN files : Len(files[f]) \in Nat
        BY DEF Shapes
      <4>2. \A f \in DOMAIN files : synced'[f] = synced[f] \/ synced'[f] = Len(files[f])
        BY <3>2 DEF Shapes
      <4>3. synced' = [f \in DOMAIN files |-> synced'[f]]
        BY <3>2 DEF Shapes
      <4> QED
        BY <4>1, <4>2, <4>3 DEF Shapes
    <3> QED
      BY <2>1, <3>1, <3>2
  <2> QED
    BY <2>1, <2>2 DEF Shapes, Pcs
<1>4. CASE OpenFile
  <2> DEFINE now == batch[1].time
  <2>1. /\ pc' = "insert" /\ batch # <<>> /\ Head(batch) = batch[1]
        /\ UNCHANGED <<active, segments, batch>>
    BY <1>1, <1>4 DEF OpenFile, Shapes, catalog
  <2>2. CASE now \in DOMAIN files
    BY <1>4, <2>1, <2>2 DEF OpenFile, Shapes, Pcs
  <2>3. CASE now \notin DOMAIN files
    <3>1. files' = With(files, now, <<>>) /\ synced' = With(synced, now, 0)
      BY <1>4, <2>1, <2>3 DEF OpenFile
    <3>2. /\ DOMAIN files' = DOMAIN files \cup {now} /\ files'[now] = <<>> /\ synced'[now] = 0
          /\ \A f \in DOMAIN files : files'[f] = files[f] /\ synced'[f] = synced[f]
      BY <2>3, <3>1 DEF With, Shapes
    <3>3. files' \in [DOMAIN files' -> Seq(Record)] /\ synced' \in [DOMAIN files' -> Nat]
      BY <3>1, <3>2 DEF With, Shapes
    <3>4. \A f \in DOMAIN files' : synced'[f] <= Len(files'[f])
      BY <3>2 DEF Shapes
    <3> QED
      BY <2>1, <3>2, <3>3, <3>4 DEF Shapes, Pcs
  <2> QED
    BY <2>2, <2>3
<1>5. CASE InsertSegment /\ ~Ends
  <2> DEFINE now == batch[1].time
             id == Largest(DOMAIN segments) + 1
  <2>1. /\ batch # <<>> /\ Head(batch) = batch[1] /\ now \in Nat /\ now \in DOMAIN files
    BY <1>1, <1>5 DEF InsertSegment, Shapes
  <2>2. /\ segments' = With(segments, id, now)
        /\ active' = [id |-> id, created |-> now, size |-> Len(files[now])]
        /\ pc' = "expire" /\ UNCHANGED <<files, synced>>
    BY <1>5, <2>1 DEF InsertSegment, directory
  <2>3. id \in Nat
    BY LargestIs DEF Shapes
  <2>4. Len(files[now]) \in Nat
    BY <2>1 DEF Shapes
  <2>5. DOMAIN segments' = DOMAIN segments \cup {id}
    BY <2>2 DEF With
  <2> HIDE DEF id, now
  <2>6. IsFiniteSet(DOMAIN segments')
    <3>1. IsFiniteSet(DOMAIN segments)
      BY DEF Shapes
    <3> QED
      BY <2>5, <3>1, FS_AddElement
  <2>7. active' \in [id : Nat, created : Nat, size : Nat]
    BY <2>1, <2>2, <2>3, <2>4
  <2> QED
    BY <2>2, <2>3, <2>5, <2>6, <2>7 DEF Shapes, Pcs
<1>6. ASSUME NEW s \in expired, ExpireRows(s)
      PROVE  Shapes'
  <2>1. pc' = "unlink" /\ segments' = Without(segments, s) /\ UNCHANGED <<active, files, synced>>
    BY <1>6 DEF ExpireRows, directory
  <2>2. DOMAIN segments' \subseteq DOMAIN segments
    BY <2>1 DEF Without
  <2>3. IsFiniteSet(DOMAIN segments')
    BY <2>2, FS_Subset DEF Shapes
  <2> QED
    BY <2>1, <2>2, <2>3 DEF Shapes, Pcs
<1>7. CASE Unlink
  <2>1. /\ pc' = "expire" /\ UNCHANGED <<active, segments>>
        /\ \/ UNCHANGED <<files, synced>>
           \/ files' = Without(files, doomed) /\ synced' = Without(synced, doomed)
    BY <1>7 DEF Unlink, catalog, directory
  <2>2. CASE files' = Without(files, doomed) /\ synced' = Without(synced, doomed)
    <3>1. /\ DOMAIN files' \subseteq DOMAIN files /\ DOMAIN synced' = DOMAIN files'
          /\ files' = [f \in DOMAIN files' |-> files[f]] /\ synced' = [f \in DOMAIN files' |-> synced[f]]
      BY <2>2 DEF Without, Shapes
    <3>2. /\ files' \in [DOMAIN files' -> Seq(Record)] /\ synced' \in [DOMAIN files' -> Nat]
          /\ \A f \in DOMAIN files' : synced'[f] <= Len(files'[f])
      BY <3>1 DEF Shapes
    <3> QED
      BY <2>1, <3>2 DEF Shapes, Pcs
  <2> QED
    BY <2>1, <2>2 DEF Shapes, Pcs
<1>8. CASE AppendPayload
  <2> DEFINE record == [id |-> nextId, key |-> Head(batch).key]
  <2>1. /\ pc' = "append" /\ UNCHANGED <<segments, synced>> /\ batch # <<>>
        /\ active' = [active EXCEPT !.size = @ + 1]
        /\ \/ files' = files
           \/ /\ active.created \in DOMAIN files
              /\ files' = [files EXCEPT ![active.created] = Append(@, record)]
    BY <1>8 DEF AppendPayload, WriteRecord, catalog
  <2>2. record \in Record
    BY <1>0, <1>1, <2>1 DEF Record
  <2>3. active' \in [id : Nat, created : Nat, size : Nat]
    BY <2>1 DEF Shapes
  <2> HIDE DEF record
  <2>4. /\ files' \in [DOMAIN files' -> Seq(Record)] /\ synced' \in [DOMAIN files' -> Nat]
        /\ \A f \in DOMAIN files' : synced'[f] <= Len(files'[f])
    <3>1. CASE files' = files
      BY <2>1, <3>1 DEF Shapes
    <3>2. CASE /\ active.created \in DOMAIN files
               /\ files' = [files EXCEPT ![active.created] = Append(@, record)]
      BY <2>1, <2>2, <3>2, ShapesOfAppend
    <3> QED
      BY <2>1, <3>1, <3>2
  <2> QED
    BY <2>1, <2>3, <2>4 DEF Shapes, Pcs
<1>9. CASE Fails
  <2>1. /\ pc' = "stopped" /\ active' = NoSegment /\ UNCHANGED <<segments, synced>>
        /\ \/ files' = files
           \/ /\ active.created \in DOMAIN files
              /\ files' = [files EXCEPT ![active.created] = Append(@, Torn)]
    BY <1>9 DEF Fails, Ends, catalog
  <2>2. /\ files' \in [DOMAIN files' -> Seq(Record)] /\ synced' \in [DOMAIN files' -> Nat]
        /\ \A f \in DOMAIN files' : synced'[f] <= Len(files'[f])
    <3>1. CASE files' = files
      BY <2>1, <3>1 DEF Shapes
    <3>2. CASE /\ active.created \in DOMAIN files
               /\ files' = [files EXCEPT ![active.created] = Append(@, Torn)]
      BY <1>0, <2>1, <3>2, ShapesOfAppend
    <3> QED
      BY <2>1, <3>1, <3>2
  <2> QED
    BY <1>0, <2>1, <2>2 DEF Shapes, Pcs
<1>10. CASE Crash
  <2>1. PICK kept \in SUBSET {f \in DOMAIN files : synced[f] = 0} :
          LET names == kept \cup {f \in DOMAIN files : synced[f] > 0}
          IN  /\ files' \in {g \in [names -> UNION {Remains(files[f], synced[f]) : f \in names}] :
                               \A f \in names : g[f] \in Remains(files[f], synced[f])}
              /\ synced' = [f \in names |-> Len(files'[f])]
    BY <1>10 DEF Crash
  <2> DEFINE names == kept \cup {f \in DOMAIN files : synced[f] > 0}
  <2>2. /\ DOMAIN files' = names /\ names \subseteq DOMAIN files
        /\ files' = [f \in names |-> files'[f]]
        /\ \A f \in names : files'[f] \in Remains(files[f], synced[f])
        /\ synced' = [f \in names |-> Len(files'[f])]
    BY <2>1
  <2> HIDE DEF names
  <2>3. ASSUME NEW f \in names
        PROVE  files'[f] \in Seq(Record)
    <3>1. files[f] \in Seq(Record) /\ synced[f] \in Nat /\ synced[f] <= Len(files[f])
      BY <2>2 DEF Shapes
    <3> QED
      BY <2>2, <3>1, RemainsIs
  <2>4. \A f \in names : Len(files'[f]) \in Nat /\ synced'[f] = Len(files'[f])
    BY <2>2, <2>3
  <2>5. /\ files' \in [DOMAIN files' -> Seq(Record)] /\ synced' \in [DOMAIN files' -> Nat]
        /\ \A f \in DOMAIN files' : synced'[f] <= Len(files'[f])
    BY <2>2, <2>3, <2>4
  <2>6. pc' = "down" /\ active' = NoSegment /\ UNCHANGED segments
    BY <1>10 DEF Crash, catalog
  <2> QED
    BY <1>0, <2>5, <2>6 DEF Shapes, Pcs
<1>11. \/ /\ active' \in {active, NoSegment}
          /\ UNCHANGED <<segments, files, synced>>
          /\ \/ pc' \in Pcs \ {"open", "insert"}
             \/ UNCHANGED <<pc, batch>>
       \/ CloseSegment \/ FlushActive \/ OpenFile \/ (InsertSegment /\ ~Ends)
       \/ (\E s \in expired : ExpireRows(s)) \/ Unlink \/ AppendPayload \/ Fails \/ Crash
  <2>1. (\E time \in Times : TryStore(time)) \/ (\E id \in DOMAIN sessions : Lookup(id)) \/ ReadPayload
          \/ Respond \/ UNCHANGED vars => UNCHANGED <<active, segments, files, synced, pc, batch>>
    BY DEF TryStore, Lookup, ReadPayload, Respond, vars, catalog, directory
  <2>2. Start \/ Receive \/ ExpireDone \/ Commit \/ (InsertSegment /\ Ends) =>
          /\ active' \in {active, NoSegment} /\ UNCHANGED <<segments, files, synced>>
          /\ pc' \in Pcs \ {"open", "insert"}
    <3>1. Start \/ Receive \/ ExpireDone \/ Commit =>
            /\ active' \in {active, NoSegment} /\ UNCHANGED <<segments, files, synced>>
            /\ pc' \in Pcs \ {"open", "insert"}
      BY DEF Start, Receive, ExpireDone, Commit, InsertRows, Ends, catalog, directory, Pcs
    <3>2. InsertSegment /\ Ends =>
            /\ active' \in {active, NoSegment} /\ UNCHANGED <<segments, files, synced>>
            /\ pc' \in Pcs \ {"open", "insert"}
      BY DEF InsertSegment, Ends, directory, Pcs
    <3> QED
      BY <3>1, <3>2
  <2> QED
    BY <2>1, <2>2 DEF Next, Writer
<1> QED
  BY <1>2, <1>3, <1>4, <1>5, <1>6, <1>7, <1>8, <1>9, <1>10, <1>11

\* Whatever the clocks, crashes and errors do, nothing in the queue, the batch or
\* the writer ever leaves its type, the queue never outgrows the channel nor a
\* batch its limit, and every file has a known synced length (storage/mod.rs
\* try_store and run_writer).
THEOREM TypesHold == Spec => []TypeOK
<1> DEFINE Inv == Arrival /\ Shapes /\ Sizes
<1>1. Init => Inv
  <2>1. ASSUME Init
        PROVE  Shapes /\ Sizes
    <3>1. DOMAIN segments = {} /\ DOMAIN files = {} /\ DOMAIN synced = {}
      BY <2>1 DEF Init
    <3> QED
      BY <2>1, <3>1, FS_EmptySet, SizesAssumption DEF Init, Shapes, Sizes, Pcs, NoSegment
  <2> QED
    BY <2>1, InitArrival
<1>2. Inv /\ [Next]_vars => Inv'
  BY NextArrival, NextShapes, NextSizes
<1>3. Inv => TypeOK
  BY DEF Arrival, KeyTypes, Shapes, Sizes, TypeOK, Session
<1> HIDE DEF Inv
<1> QED
  BY <1>1, <1>2, <1>3, PTL DEF Spec

-----------------------------------------------------------------------------
(* Nothing is lost between queue and catalog.                               *)

\* Between two batches the writer's hands are empty, and it commits only what it
\* has appended.
Emptied ==
  /\ pc \in {"down", "receive"} => batch = <<>> /\ rows = {}
  /\ pc = "commit" => batch = <<>>
  /\ batch \in Seq(Session) /\ queue \in Seq(Session)

LEMMA NextEmptied == Arrival /\ Arrival' /\ Emptied /\ [Next]_vars => Emptied'
<1> SUFFICES ASSUME Arrival, Arrival', Emptied, [Next]_vars
             PROVE  Emptied'
  OBVIOUS
<1>1. batch' \in Seq(Session) /\ queue' \in Seq(Session)
  BY DEF Arrival, KeyTypes
<1>2. CASE Commit
  BY <1>1, <1>2 DEF Commit, InsertRows, Ends, Emptied
<1>3. pc' = "commit" /\ ~Commit => batch' = <<>>
  BY DEF Next, vars, Writer, TryStore, Start, Receive, CloseSegment, OpenFile, InsertSegment, Ends,
         ExpireRows, Unlink, ExpireDone, AppendPayload, WriteRecord, FlushActive, Fails, Lookup,
         ReadPayload, Respond, Crash, Emptied
<1>4. pc' \in {"down", "receive"} /\ ~Commit => batch' = <<>> /\ rows' = {}
  BY DEF Next, vars, Writer, TryStore, Start, Receive, CloseSegment, OpenFile, InsertSegment, Ends,
         ExpireRows, Unlink, ExpireDone, AppendPayload, WriteRecord, FlushActive, Fails, Lookup,
         ReadPayload, Respond, Crash, Emptied
<1> QED
  BY <1>1, <1>2, <1>3, <1>4 DEF Emptied

\* A sequence cut in two has the keys of both parts.
LEMMA KeysOfCut ==
  ASSUME NEW s \in Seq(Session), NEW n \in 0..Len(s)
  PROVE  Keys(s) \subseteq Keys(SubSeq(s, 1, n)) \cup Keys(SubSeq(s, n + 1, Len(s)))
<1> DEFINE front == SubSeq(s, 1, n)
           rest == SubSeq(s, n + 1, Len(s))
<1>1. n \in Nat /\ Len(s) \in Nat /\ DOMAIN s = 1..Len(s)
  BY LenProperties
<1>2. DOMAIN front = 1..n /\ \A k \in 1..n : front[k] = s[k]
  BY <1>1
<1>3. DOMAIN rest = 1..(Len(s) - n) /\ \A k \in 1..(Len(s) - n) : rest[k] = s[n + k]
  BY <1>1
<1> HIDE DEF front, rest
<1>4. ASSUME NEW k \in 1..Len(s)
      PROVE  s[k].key \in Keys(front) \cup Keys(rest)
  <2>1. CASE k <= n
    <3>1. k \in DOMAIN front /\ front[k] = s[k]
      BY <1>1, <1>2, <2>1
    <3> QED
      BY <3>1 DEF Keys
  <2>2. CASE k > n
    <3>1. k - n \in DOMAIN rest /\ rest[k - n] = s[k]
      BY <1>1, <1>3, <2>2
    <3> QED
      BY <3>1 DEF Keys
  <2> QED
    BY <1>1, <2>1, <2>2
<1> QED
  BY <1>1, <1>4 DEF Keys, front, rest

LEMMA NextForgets ==
  ASSUME Emptied, [Next]_vars
  PROVE  Held \subseteq Held' \cup stored' \/ pc' \in {"down", "stopped"}
<1>0. batch \in Seq(Session) /\ queue \in Seq(Session)
  BY DEF Emptied
<1>1. CASE UNCHANGED <<queue, batch, rows>>
  BY <1>1 DEF Held
<1>2. ASSUME NEW time \in Times, TryStore(time)
      PROVE  Held \subseteq Held'
  <2> DEFINE session == [key |-> offered', time |-> time]
  <2>1. UNCHANGED <<batch, rows>> /\ (queue' = queue \/ queue' = Append(queue, session))
    BY <1>2 DEF TryStore
  <2> HIDE DEF session
  <2>2. CASE queue' = Append(queue, session)
    <3>1. \A k \in DOMAIN queue : k \in DOMAIN queue' /\ queue'[k] = queue[k]
      BY <1>0, <2>2
    <3>2. Keys(queue) \subseteq Keys(queue')
      BY <3>1 DEF Keys
    <3> QED
      BY <2>1, <3>2 DEF Held
  <2> QED
    BY <2>1, <2>2 DEF Held
<1>3. CASE Receive
  <2> DEFINE n == IF Len(queue) < BatchMax THEN Len(queue) ELSE BatchMax
  <2>1. /\ batch' = SubSeq(queue, 1, n) /\ queue' = SubSeq(queue, n + 1, Len(queue))
        /\ Keys(batch) = {} /\ rows = {}
    BY <1>3 DEF Receive, Emptied, Keys
  <2>2. n \in 0..Len(queue)
    BY <1>0, SizesAssumption, LenProperties
  <2> HIDE DEF n
  <2>3. Keys(queue) \subseteq Keys(batch') \cup Keys(queue')
    BY <1>0, <2>1, <2>2, KeysOfCut
  <2> QED
    BY <2>1, <2>3 DEF Held
<1>4. CASE AppendPayload
  <2> DEFINE row == [id |-> nextId, key |-> Head(batch).key,
                     segment |-> active.id, offset |-> active'.size]
  <2>1. /\ batch # <<>> /\ batch' = Tail(batch) /\ rows' = rows \cup {row} /\ UNCHANGED queue
    BY <1>4 DEF AppendPayload, WriteRecord, channel
  <2>2. row.key = Head(batch).key
    OBVIOUS
  <2> HIDE DEF row
  <2>3. ASSUME NEW k \in DOMAIN batch
        PROVE  batch[k].key = Head(batch).key \/ batch[k].key \in Keys(batch')
    <3>1. k \in 1..Len(batch) /\ Len(batch) \in Nat /\ Head(batch) = batch[1]
      BY <1>0, <2>1
    <3>2. CASE k = 1
      BY <3>1, <3>2
    <3>3. CASE k # 1
      <4>1. k - 1 \in DOMAIN batch' /\ batch'[k - 1] = batch[k]
        BY <1>0, <2>1, <3>1, <3>3
      <4> QED
        BY <4>1 DEF Keys
    <3> QED
      BY <3>2, <3>3
  <2>4. Keys(batch) \subseteq Keys(batch') \cup {row.key}
    BY <2>2, <2>3 DEF Keys
  <2> QED
    BY <2>1, <2>4 DEF Held
<1>5. CASE Commit
  <2>1. \/ pc' = "stopped"
        \/ UNCHANGED <<queue, batch>> /\ stored' = stored \cup {r.key : r \in rows}
    BY <1>5 DEF Commit, InsertRows, Ends
  <2> QED
    BY <2>1 DEF Held
<1>6. \/ UNCHANGED <<queue, batch, rows>> \/ pc' \in {"down", "stopped"}
      \/ (\E time \in Times : TryStore(time)) \/ Receive \/ AppendPayload \/ Commit
  BY DEF Next, vars, Writer, Start, CloseSegment, OpenFile, InsertSegment, Ends, ExpireRows, Unlink,
         ExpireDone, FlushActive, Fails, Lookup, ReadPayload, Respond, Crash, channel
<1> QED
  BY <1>1, <1>2, <1>3, <1>4, <1>5, <1>6

\* A session that was queued stays with the writer, in the queue, the batch or
\* its rows, until it is in the catalog or the writer ends: no step of
\* run_writer drops one on the way (storage/mod.rs run_writer).  This is the
\* safety half of Progress.
THEOREM NothingIsForgotten == Spec => NothingForgotten
<1> DEFINE Inv == Arrival /\ Emptied
<1>1. Init => Inv
  <2>1. Init => Emptied
    BY DEF Init, Emptied
  <2> QED
    BY <2>1, InitArrival
<1>2. Inv /\ [Next]_vars => Inv'
  BY NextArrival, NextEmptied
<1>3. Inv /\ [Next]_vars => [Held \subseteq Held' \cup stored' \/ pc' \in {"down", "stopped"}]_vars
  BY NextForgets
<1> HIDE DEF Inv
<1> QED
  BY <1>1, <1>2, <1>3, PTL DEF Spec, NothingForgotten

-----------------------------------------------------------------------------
(* A reader is given the session it asked for.  That a payload it has found *)
(* is not replaced rests on segment files being opened under ever newer     *)
(* names, and on records being added only at the end of a file.             *)

Latest ==
  /\ pc = "insert" => batch[1].time = lastCreated
  /\ (Running /\ active # NoSegment /\ pc # "insert") => active.created = lastCreated

ReaderKnows ==
  /\ reader.state \in {"idle", "found", "read", "error"}
  /\ reader.state = "found" =>
        /\ reader.file \in Nat /\ reader.file <= lastCreated
        /\ reader.file \in DOMAIN files =>
             /\ reader.offset \in DOMAIN files[reader.file]
             /\ files[reader.file][reader.offset] = [id |-> reader.id, key |-> reader.key]
  /\ ReaderSound

LEMMA NextLatest ==
  ASSUME IInv, ~late', Latest, [Next]_vars
  PROVE  Latest'
<1>0. lastCreated \in Nat /\ batch \in Seq(Session) /\ active \in [id : Nat, created : Nat, size : Nat]
  BY DEF IInv, Types
<1>1. CASE CloseSegment
  BY <1>1 DEF CloseSegment, Latest, Running, history
<1>2. CASE OpenFile
  <2>1. pc = "open" /\ pc' = "insert" /\ batch # <<>> /\ UNCHANGED batch
        /\ ~ (Head(batch).time <= lastCreated)
        /\ lastCreated' = IF Head(batch).time > lastCreated THEN Head(batch).time ELSE lastCreated
    BY <1>2, OpensYounger DEF OpenFile, IInv, Newest
  <2>2. Head(batch) = batch[1] /\ batch[1] \in Session
    BY <1>0, <2>1
  <2>3. batch[1].time \in Nat
    BY <2>2 DEF Session
  <2>4. lastCreated' = batch[1].time
    BY <1>0, <2>1, <2>2, <2>3
  <2> QED
    BY <2>1, <2>4 DEF Latest
<1>3. CASE InsertSegment
  <2>1. pc = "insert" /\ batch # <<>> /\ Head(batch) = batch[1] /\ UNCHANGED lastCreated
    BY <1>0, <1>3 DEF InsertSegment, history, IInv, Newest
  <2>2. pc' = "stopped" \/ (pc' = "expire" /\ active'.created = batch[1].time)
    BY <1>3, <2>1 DEF InsertSegment, Ends
  <2>3. pc' = "expire" => UNCHANGED batch
    BY <1>3 DEF InsertSegment, Ends
  <2> QED
    BY <2>1, <2>2, <2>3 DEF Latest, Running
<1>4. CASE AppendPayload
  <2>1. /\ pc' = "append" /\ active' = [active EXCEPT !.size = @ + 1] /\ UNCHANGED lastCreated
        /\ pc \in {"append", "write"} /\ active # NoSegment
    BY <1>4 DEF AppendPayload, WriteRecord, Rotate, history, IInv, ActiveKnown
  <2>2. active'.created = active.created
    BY <1>0, <2>1
  <2> QED
    BY <2>1, <2>2 DEF Latest, Running
<1>5. CASE Start \/ Crash
  BY <1>5 DEF Start, Crash, Latest
<1>6. CASE /\ UNCHANGED lastCreated /\ pc' \notin {"open", "insert"}
           /\ pc' \notin {"down", "stopped"} => UNCHANGED active /\ Running /\ pc # "insert"
  BY <1>6 DEF Latest, Running
<1>7. CASE UNCHANGED <<active, lastCreated, pc, batch>>
  BY <1>7 DEF Latest, Running
<1>8. \/ CloseSegment \/ OpenFile \/ InsertSegment \/ AppendPayload \/ Start \/ Crash
      \/ /\ UNCHANGED lastCreated /\ pc' \notin {"open", "insert"}
         /\ pc' \notin {"down", "stopped"} => UNCHANGED active /\ Running /\ pc # "insert"
      \/ UNCHANGED <<active, lastCreated, pc, batch>>
  <2>1. Receive \/ (\E s \in expired : ExpireRows(s)) \/ Unlink \/ ExpireDone \/ FlushActive \/ Commit
          \/ Fails =>
          /\ UNCHANGED lastCreated /\ pc' \notin {"open", "insert"}
          /\ pc' \notin {"down", "stopped"} => UNCHANGED active /\ Running /\ pc # "insert"
    BY DEF Receive, ExpireRows, Unlink, ExpireDone, FlushActive, Commit, InsertRows, Fails, Ends,
           Running, history
  <2>2. (\E time \in Times : TryStore(time)) \/ (\E id \in DOMAIN sessions : Lookup(id)) \/ ReadPayload
          \/ Respond \/ UNCHANGED vars => UNCHANGED <<active, lastCreated, pc, batch>>
    BY DEF TryStore, Lookup, ReadPayload, Respond, vars, history
  <2> QED
    BY <2>1, <2>2 DEF Next, Writer
<1> QED
  BY <1>1, <1>2, <1>3, <1>4, <1>5, <1>6, <1>7, <1>8

\* What the writer does to the files while a reader waits: a record that stays
\* in the directory stays as it is, and a new file is younger than all before.
LEMMA FilesGrow ==
  ASSUME IInv, ~late', Latest, [Next]_vars, ~Crash
  PROVE  /\ lastCreated' \in Nat /\ lastCreated <= lastCreated'
         /\ \A f \in DOMAIN files' : f <= lastCreated /\ f \in Nat =>
              /\ f \in DOMAIN files /\ DOMAIN files[f] \subseteq DOMAIN files'[f]
              /\ \A k \in DOMAIN files[f] : files'[f][k] = files[f][k]
<1>0. /\ lastCreated \in Nat /\ files \in [DOMAIN files -> Seq(Record)]
      /\ batch \in Seq(Session)
  BY DEF IInv, Types
<1>1. CASE UNCHANGED <<files, lastCreated>>
  BY <1>0, <1>1
<1>2. CASE OpenFile
  <2>1. pc = "open" /\ batch # <<>>
    BY <1>2 DEF OpenFile, IInv, Newest
  <2>2. Head(batch) = batch[1] /\ batch[1] \in Session
    BY <1>0, <2>1
  <2>3. Head(batch).time \in Nat /\ Head(batch).time > lastCreated
    <3>1. Head(batch).time \in Nat /\ ~ (Head(batch).time <= lastCreated)
      BY <1>2, <2>2, OpensYounger DEF Session
    <3> QED
      BY <1>0, <3>1
  <2>4. lastCreated' = Head(batch).time /\ (files' = files \/ files' = With(files, Head(batch).time, <<>>))
    BY <1>2, <2>3 DEF OpenFile
  <2>5. \A f \in DOMAIN files' : f <= lastCreated /\ f \in Nat =>
          f \in DOMAIN files /\ files'[f] = files[f]
    BY <1>0, <2>3, <2>4 DEF With
  <2> QED
    BY <1>0, <2>3, <2>4, <2>5
<1>3. CASE Unlink
  <2>1. /\ files' = files \/ files' = Without(files, doomed)
        /\ UNCHANGED lastCreated
    BY <1>3 DEF Unlink, directory, history
  <2> QED
    BY <1>0, <2>1 DEF Without
<1>4. ASSUME NEW file \in DOMAIN files, NEW record \in Record,
             files' = [files EXCEPT ![file] = Append(@, record)], UNCHANGED lastCreated
      PROVE  \A f \in DOMAIN files' :
                /\ f \in DOMAIN files /\ DOMAIN files[f] \subseteq DOMAIN files'[f]
                /\ \A k \in DOMAIN files[f] : files'[f][k] = files[f][k]
  <2> SUFFICES ASSUME NEW f \in DOMAIN files'
               PROVE  /\ f \in DOMAIN files /\ DOMAIN files[f] \subseteq DOMAIN files'[f]
                      /\ \A k \in DOMAIN files[f] : files'[f][k] = files[f][k]
    OBVIOUS
  <2>1. f \in DOMAIN files /\ files[f] \in Seq(Record)
    BY <1>0, <1>4
  <2>2. files'[f] = files[f] \/ files'[f] = Append(files[f], record)
    BY <1>0, <1>4
  <2> QED
    BY <2>1, <2>2
<1>5. CASE AppendPayload
  <2>1. /\ nextId \in Nat /\ batch # <<>> /\ Head(batch) = batch[1] /\ batch[1] \in Session
    BY <1>0, <1>5 DEF AppendPayload, IInv, Types
  <2>2. [id |-> nextId, key |-> Head(batch).key] \in Record
    BY <2>1 DEF Record, Session
  <2>3. /\ UNCHANGED lastCreated
        /\ \/ files' = files
           \/ /\ active.created \in DOMAIN files
              /\ files' = [files EXCEPT ![active.created] =
                             Append(@, [id |-> nextId, key |-> Head(batch).key])]
    BY <1>5 DEF AppendPayload, WriteRecord, history
  <2> QED
    BY <1>0, <1>1, <1>4, <2>2, <2>3
<1>6. CASE Fails
  <2>1. Torn \in Record
    BY DEF Torn, Record
  <2>2. /\ UNCHANGED lastCreated
        /\ \/ files' = files
           \/ /\ active.created \in DOMAIN files
              /\ files' = [files EXCEPT ![active.created] = Append(@, Torn)]
    BY <1>6 DEF Fails, history
  <2>3. CASE /\ active.created \in DOMAIN files
             /\ files' = [files EXCEPT ![active.created] = Append(@, Torn)]
    BY <1>0, <1>4, <2>1, <2>2, <2>3
  <2> QED
    BY <1>1, <2>2, <2>3
<1>7. UNCHANGED <<files, lastCreated>> \/ OpenFile \/ Unlink \/ AppendPayload \/ Fails
  BY DEF Next, vars, Writer, TryStore, Start, Receive, CloseSegment, InsertSegment, ExpireRows,
         ExpireDone, FlushActive, Commit, Lookup, ReadPayload, Respond, directory, history
<1> QED
  BY <1>1, <1>2, <1>3, <1>5, <1>6, <1>7

LEMMA NextReader ==
  ASSUME IInv, ~late', Latest, ReaderKnows, [Next]_vars
  PROVE  ReaderKnows'
<1>0. lastCreated \in Nat
  BY DEF IInv, Types
<1>1. ASSUME NEW id \in DOMAIN sessions, Lookup(id)
      PROVE  ReaderKnows'
  <2> DEFINE row == sessions[id]
             file == segments[row.segment]
  <2>1. /\ reader' = [state |-> "found", id |-> id, key |-> row.key, file |-> file,
                      offset |-> row.offset]
        /\ UNCHANGED <<files, lastCreated>>
    BY <1>1 DEF Lookup, directory, history
  <2>2. Points(id, row) /\ file <= lastCreated /\ file \in Nat
    BY DEF IInv, SessionsSafe, Created, Points, Types
  <2>3. /\ reader'.state = "found" /\ reader'.id = id /\ reader'.key = row.key
        /\ reader'.file = file /\ reader'.offset = row.offset
    BY <2>1
  <2>4. /\ file \in DOMAIN files /\ row.offset \in DOMAIN files[file]
        /\ files[file][row.offset] = [id |-> id, key |-> row.key]
    BY <2>2 DEF Points
  <2> HIDE DEF row, file
  <2> QED
    BY <2>1, <2>2, <2>3, <2>4 DEF ReaderKnows, ReaderSound
<1>2. CASE ReadPayload
  <2> DEFINE file == reader.file
             answer == [state |-> "read", asked |-> reader.key,
                        got |-> files[file][reader.offset].key]
  <2>1. /\ reader.state = "found" /\ UNCHANGED <<files, lastCreated>>
        /\ \/ reader' = [state |-> "error"]
           \/ file \in DOMAIN files /\ reader' = answer
    BY <1>2 DEF ReadPayload, directory, history
  <2>2. CASE reader' = [state |-> "error"]
    BY <2>2 DEF ReaderKnows, ReaderSound
  <2>3. CASE file \in DOMAIN files /\ reader' = answer
    <3>1. files[file][reader.offset].key = reader.key
      BY <2>1, <2>3 DEF ReaderKnows
    <3>2. reader'.state = "read" /\ reader'.got = reader'.asked
      BY <2>3, <3>1
    <3> QED
      BY <3>2 DEF ReaderKnows, ReaderSound
  <2> QED
    BY <2>1, <2>2, <2>3
<1>3. CASE Respond \/ Crash
  <2>1. reader'.state = "idle"
    BY <1>3 DEF Respond, Crash, Idle
  <2> QED
    BY <2>1 DEF ReaderKnows, ReaderSound
<1>4. CASE UNCHANGED reader /\ ~Crash
  <2>1. CASE reader.state = "found"
    <3> DEFINE file == reader.file
               offset == reader.offset
    <3>1. /\ file \in Nat /\ file <= lastCreated
          /\ file \in DOMAIN files =>
               /\ offset \in DOMAIN files[file]
               /\ files[file][offset] = [id |-> reader.id, key |-> reader.key]
      BY <2>1 DEF ReaderKnows
    <3>2. /\ lastCreated' \in Nat /\ lastCreated <= lastCreated'
          /\ file \in DOMAIN files' =>
               /\ file \in DOMAIN files /\ DOMAIN files[file] \subseteq DOMAIN files'[file]
               /\ \A k \in DOMAIN files[file] : files'[file][k] = files[file][k]
      BY <1>4, <3>1, FilesGrow
    <3>3. file <= lastCreated'
      BY <1>0, <3>1, <3>2
    <3>4. file \in DOMAIN files' =>
            /\ offset \in DOMAIN files'[file]
            /\ files'[file][offset] = [id |-> reader.id, key |-> reader.key]
      BY <3>1, <3>2
    <3> QED
      BY <1>4, <2>1, <3>1, <3>3, <3>4 DEF ReaderKnows, ReaderSound
  <2>2. CASE reader.state # "found"
    BY <1>4, <2>2 DEF ReaderKnows, ReaderSound
  <2> QED
    BY <2>1, <2>2
<1>5. \/ \E id \in DOMAIN sessions : Lookup(id)
      \/ ReadPayload \/ Respond \/ Crash \/ (UNCHANGED reader /\ ~Crash)
  BY DEF Next, vars, Writer, TryStore, Start, Receive, CloseSegment, OpenFile, InsertSegment,
         ExpireRows, Unlink, ExpireDone, AppendPayload, WriteRecord, FlushActive, Commit, Fails
<1> QED
  BY <1>1, <1>2, <1>3, <1>4, <1>5

\* As long as no run began with a session no younger than a segment opened
\* before, a reader that is given a payload is given that of the session it asked for:
\* retention, another batch or a failing append between its lookup and its read
\* make read_payload fail, but never answer with another session
\* (storage/mod.rs read_payload, storage/segment.rs).
THEOREM ReadersHold == Spec => [](late \/ ReaderSound)
<1> DEFINE Inv == IInv /\ Latest /\ ReaderKnows
<1>1. Init => Inv
  <2>1. Idle.state = "idle"
    BY DEF Idle
  <2> QED
    BY <2>1, InitIInv DEF Init, Latest, ReaderKnows, ReaderSound, Running
<1>2. (late \/ Inv) /\ [Next]_vars => (late \/ Inv)'
  BY LateStays, NextIInv, NextLatest, NextReader
<1>3. Inv => ReaderSound
  BY DEF ReaderKnows
<1> HIDE DEF Inv
<1> QED
  BY <1>1, <1>2, <1>3, PTL DEF Spec

-----------------------------------------------------------------------------
(* A batch is accepted when it spans no more segments than are retained: the *)
(* segments newer than one its rows lie in are its own, so that by the time  *)
(* retention takes that one the batch has touched more than Retention.       *)

Newer(s) == {t \in DOMAIN segments : segments[t] > segments[s]}
Opened == pc \in {"expire", "unlink", "write"}

\* The segments of the batch: those its rows lie in and the one just opened.
Touched == IF Opened THEN Spanned \cup {active.id} ELSE Spanned

RowsKept ==
  /\ IsFiniteSet(Spanned)
  /\ Running =>
       /\ \A s \in Spanned \cap DOMAIN segments : Newer(s) \subseteq Touched
       /\ \A s \in Spanned \ (DOMAIN segments \ expired) : Cardinality(Touched) > Retention

\* A finite set of more than Retention segments still has more with others.
LEMMA MoreStillMore ==
  ASSUME NEW S, NEW T, IsFiniteSet(T), S \subseteq T, Cardinality(S) > Retention
  PROVE  Cardinality(T) > Retention
<1>1. Cardinality(S) <= Cardinality(T) /\ IsFiniteSet(S)
  BY FS_Subset
<1>2. Cardinality(S) \in Nat /\ Cardinality(T) \in Nat
  BY <1>1, FS_CardinalityType
<1> QED
  BY <1>1, <1>2, SegmentsAssumption

LEMMA OneMoreFinite ==
  ASSUME NEW S, IsFiniteSet(S), NEW x
  PROVE  IsFiniteSet(S \cup {x})
BY FS_AddElement

\* A step that leaves the rows and the catalog's segments.
LEMMA RowsKeptSame ==
  ASSUME RowsKept, UNCHANGED <<rows, segments, expired, active>>,
         pc' \notin {"down", "stopped"} => Running /\ (Opened <=> Opened')
  PROVE  RowsKept'
BY DEF RowsKept, Running, Newer, Touched, Spanned

LEMMA InsertKeepsRows ==
  ASSUME IInv, RowsKept, InsertSegment
  PROVE  RowsKept'
<1> DEFINE now == batch[1].time
           id == Largest(DOMAIN segments) + 1
<1>0. /\ pc = "insert" /\ batch # <<>> /\ Head(batch) = batch[1] /\ batch \in Seq(Session)
      /\ Types /\ Running /\ ~Opened
  BY DEF InsertSegment, IInv, Newest, Types, Running, Opened
<1>1. now \in Nat
  <2>1. batch[1] \in Session
    BY <1>0
  <2> QED
    BY <2>1 DEF Session
<1>2. \A s \in DOMAIN segments : segments[s] \in Nat /\ segments[s] < now
  BY <1>0 DEF IInv, Newest, Types
<1>3. now \notin Range(segments)
  BY <1>1, <1>2 DEF Range
<1>4. /\ segments' = With(segments, id, now) /\ expired' = Surplus(segments') /\ pc' = "expire"
      /\ active'.id = id /\ UNCHANGED rows
  BY <1>0, <1>3 DEF InsertSegment
<1>5. id \in Nat \ {0} /\ id \notin DOMAIN segments
  <2>1. DOMAIN segments \in SUBSET Nat /\ IsFiniteSet(DOMAIN segments)
    BY <1>0 DEF Types
  <2>2. Largest(DOMAIN segments) \in Nat
        /\ \A s \in DOMAIN segments : s <= Largest(DOMAIN segments)
    BY <2>1, LargestIs
  <2> QED
    BY <2>1, <2>2
<1> HIDE DEF id, now
<1>6. /\ DOMAIN segments' = DOMAIN segments \cup {id} /\ segments'[id] = now
      /\ \A s \in DOMAIN segments : segments'[s] = segments[s]
  BY <1>4, <1>5 DEF With
<1>7. /\ Spanned' = Spanned /\ Touched = Spanned /\ Touched' = Spanned \cup {id}
      /\ Opened' /\ IsFiniteSet(Spanned)
  BY <1>0, <1>4 DEF Spanned, Touched, Opened, RowsKept
<1>8. IsFiniteSet(Touched')
  BY <1>7, OneMoreFinite
<1>9. ASSUME NEW s \in Spanned, s \in DOMAIN segments'
      PROVE  Newer(s)' \subseteq Touched' /\ s \notin Newer(s)'
  <2>1. CASE s = id
    <3>1. \A t \in DOMAIN segments' : ~ (segments'[t] > segments'[s])
      BY <1>1, <1>2, <1>6, <2>1
    <3> QED
      BY <3>1 DEF Newer
  <2>2. CASE s \in DOMAIN segments
    <3>1. Newer(s) \subseteq Spanned
      BY <1>0, <1>7, <1>9, <2>2 DEF RowsKept
    <3>2. Newer(s)' = Newer(s) \cup {id}
      BY <1>1, <1>2, <1>6, <2>2 DEF Newer
    <3>3. s \notin Newer(s) /\ s # id
      BY <1>2, <1>5, <2>2 DEF Newer
    <3> QED
      BY <1>7, <3>1, <3>2, <3>3
  <2> QED
    BY <1>6, <1>9, <2>1, <2>2
<1>10. ASSUME NEW s \in Spanned, s \notin DOMAIN segments' \ expired'
       PROVE  Cardinality(Touched') > Retention
  <2>1. CASE s \notin DOMAIN segments'
    <3>1. Cardinality(Touched) > Retention
      BY <1>0, <1>6, <1>10, <2>1 DEF RowsKept
    <3> QED
      BY <1>7, <1>8, <3>1, MoreStillMore
  <2>2. CASE s \in expired' /\ s \in DOMAIN segments'
    <3>1. Cardinality(Newer(s)') >= Retention
      BY <1>4, <2>2 DEF Surplus, Newer
    <3>2. Newer(s)' \subseteq Touched' /\ s \notin Newer(s)' /\ s \in Touched'
      BY <1>7, <1>9, <2>2
    <3>3. IsFiniteSet(Newer(s)')
      BY <1>8, <3>2, FS_Subset
    <3>4. Cardinality(Newer(s)' \cup {s}) = Cardinality(Newer(s)') + 1
          /\ Cardinality(Newer(s)') \in Nat
      BY <3>2, <3>3, FS_AddElement, FS_CardinalityType
    <3>5. Cardinality(Newer(s)' \cup {s}) > Retention
      BY <3>1, <3>4, SegmentsAssumption
    <3>6. Newer(s)' \cup {s} \subseteq Touched'
      BY <3>2
    <3> QED
      BY <1>8, <3>5, <3>6, MoreStillMore
  <2> QED
    BY <1>10, <2>1, <2>2
<1> QED
  BY <1>7, <1>9, <1>10 DEF RowsKept

LEMMA ExpireKeepsRows ==
  ASSUME IInv, RowsKept, NEW s \in expired, ExpireRows(s)
  PROVE  RowsKept'
<1>0. /\ pc = "expire" /\ pc' = "unlink" /\ expired' = expired \ {s} /\ UNCHANGED <<rows, active>>
      /\ segments' = Without(segments, s)
  BY DEF ExpireRows
<1>1. /\ DOMAIN segments' = DOMAIN segments \ {s}
      /\ \A t \in DOMAIN segments' : segments'[t] = segments[t]
  BY <1>0 DEF Without
<1>2. DOMAIN segments' \ expired' = DOMAIN segments \ expired
  BY <1>0, <1>1
<1>3. Spanned' = Spanned /\ Touched' = Touched /\ Running
  BY <1>0 DEF Spanned, Touched, Opened, Running
<1>4. \A t \in DOMAIN segments' : Newer(t)' \subseteq Newer(t)
  BY <1>1 DEF Newer
<1> QED
  BY <1>1, <1>2, <1>3, <1>4 DEF RowsKept

LEMMA AppendKeepsRows ==
  ASSUME IInv, RowsKept, AppendPayload
  PROVE  RowsKept'
<1>0. /\ pc \in {"append", "write"} /\ pc' = "append" /\ active # NoSegment /\ Types /\ Running
      /\ UNCHANGED <<segments, expired>> /\ ~Opened'
  BY DEF AppendPayload, WriteRecord, Rotate, IInv, ActiveKnown, Running, catalog, retention, Opened
<1>1. Spanned' = Spanned \cup {active.id}
  <2> DEFINE row == [id |-> nextId, key |-> Head(batch).key, segment |-> active.id,
                     offset |-> active'.size]
  <2>1. rows' = rows \cup {row}
    BY DEF AppendPayload, WriteRecord
  <2>2. row.segment = active.id
    OBVIOUS
  <2> HIDE DEF row
  <2> QED
    BY <2>1, <2>2 DEF Spanned
<1>2. Touched \subseteq Touched' /\ Touched' = Spanned'
  BY <1>0, <1>1 DEF Touched
<1>3. IsFiniteSet(Spanned')
  BY <1>1, OneMoreFinite DEF RowsKept
<1>4. /\ active.id \in DOMAIN segments \ expired
      /\ Newer(active.id) = {}
  <2>1. /\ active.id \in DOMAIN segments \ expired
        /\ segments[active.id] = active.created
        /\ \A t \in DOMAIN segments : segments[t] \in Nat /\ segments[t] <= active.created
        /\ active.created \in Nat
    BY <1>0 DEF IInv, ActiveKnown, Types
  <2> QED
    BY <2>1 DEF Newer
<1>5. \A s : Newer(s)' = Newer(s)
  BY <1>0 DEF Newer
<1>6. ASSUME NEW s \in Spanned', s \in DOMAIN segments
      PROVE  Newer(s) \subseteq Touched'
  <2>1. CASE s \in Spanned
    BY <1>0, <1>2, <1>6, <2>1 DEF RowsKept
  <2> QED
    BY <1>1, <1>4, <1>6, <2>1
<1>7. ASSUME NEW s \in Spanned', s \notin DOMAIN segments \ expired
      PROVE  Cardinality(Touched') > Retention
  <2>1. s \in Spanned
    BY <1>1, <1>4, <1>7
  <2>2. Cardinality(Touched) > Retention
    BY <1>0, <1>7, <2>1 DEF RowsKept
  <2> QED
    BY <1>2, <1>3, <2>2, MoreStillMore
<1> QED
  BY <1>0, <1>3, <1>5, <1>6, <1>7 DEF RowsKept

LEMMA NextRowsKept ==
  ASSUME IInv, RowsKept, [Next]_vars
  PROVE  RowsKept'
<1>0. rows' = {} => RowsKept'
  <2>1. rows' = {} => Spanned' = {}
    BY DEF Spanned
  <2> QED
    BY <2>1, FS_EmptySet DEF RowsKept
<1>1. CASE Receive \/ Commit \/ Fails \/ Crash
  BY <1>0, <1>1 DEF Receive, Commit, InsertRows, Ends, Fails, Crash
<1>3. CASE Start
  <2>1. rows' = {}
    BY <1>3 DEF Start, IInv, RowsSafe
  <2> QED
    BY <1>0, <2>1
<1>4. CASE \/ CloseSegment \/ OpenFile \/ Unlink \/ ExpireDone \/ FlushActive
           \/ (\E time \in Times : TryStore(time))
           \/ (\E id \in DOMAIN sessions : Lookup(id)) \/ ReadPayload \/ Respond \/ UNCHANGED vars
  <2>1. UNCHANGED <<rows, segments, expired, active>>
    BY <1>4 DEF CloseSegment, OpenFile, Unlink, ExpireDone, FlushActive, TryStore, Lookup, ReadPayload,
                Respond, vars, retention, catalog
  <2>2. pc' \notin {"down", "stopped"} => Running /\ (Opened <=> Opened')
    BY <1>4 DEF CloseSegment, OpenFile, Unlink, ExpireDone, FlushActive, TryStore, Lookup, ReadPayload,
                Respond, vars, Running, Opened
  <2> QED
    BY <2>1, <2>2, RowsKeptSame
<1> QED
  BY <1>1, <1>3, <1>4, InsertKeepsRows, ExpireKeepsRows, AppendKeepsRows DEF Next, Writer

\* The transaction of a batch whose rows lie in no more segments than are
\* retained is never refused, however long the batch and whatever fails or
\* crashes around it (as long as no run began late): ensure_active, running
\* between two records of the batch, leaves the segments of its earlier rows. Of
\* a batch that spans more it need not be true (run storage_retention).
THEOREM BatchesHold == Spec => []BatchAccepted
<1> DEFINE Inv == IInv /\ RowsKept /\ Arrival
<1>1. Init => Inv
  <2>1. Init => Spanned = {}
    BY DEF Init, Spanned
  <2> QED
    BY <2>1, InitIInv, InitArrival, FS_EmptySet DEF RowsKept
<1>2. (late \/ Inv) /\ [Next]_vars => (late \/ Inv)'
  BY LateStays, NextIInv, NextRowsKept, NextArrival
<1>3. Inv => BatchAccepted
  <2> SUFFICES ASSUME Inv, pc = "commit", Cardinality(Spanned) <= Retention, NEW r \in rows
               PROVE  r.segment \in DOMAIN segments /\ r.id \notin DOMAIN sessions
    BY DEF BatchAccepted, BatchCommits, Insertable
  <2>1. Running /\ Touched = Spanned /\ r.segment \in Spanned
    BY DEF Running, Touched, Opened, Spanned
  <2>2. Cardinality(Spanned) \in Nat
    BY FS_CardinalityType DEF RowsKept
  <2>3. ~ (Cardinality(Spanned) > Retention)
    BY <2>2, SegmentsAssumption
  <2>4. r.segment \in DOMAIN segments
    BY <2>1, <2>3 DEF RowsKept
  <2>5. r.id \notin DOMAIN sessions
    BY DEF Arrival, Numbered, KeyTypes, Running
  <2> QED
    BY <2>4, <2>5
<1>4. late => BatchAccepted
  BY DEF BatchAccepted
<1> HIDE DEF Inv
<1> QED
  BY <1>1, <1>2, <1>3, <1>4, PTL DEF Spec
=============================================================================
