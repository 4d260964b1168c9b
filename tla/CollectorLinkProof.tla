------------------------- MODULE CollectorLinkProof -------------------------
(***************************************************************************)
(* Theorems about the link between a collector and the analyzer, for every *)
(* history of the Sources, any number of sockets, packets and faults, every *)
(* capacity and everything that may happen to a read that is dropped.      *)
(***************************************************************************)
EXTENDS CollectorLink, DataLemmas

-----------------------------------------------------------------------------
(* The inductive invariant, in named parts. *)

Phases == {"none", "hello", "load", "push", "serve"}
ToAnalyzer == Packet \cup {Hello, Stats}
ToCollector == {HelloAck} \cup {SetSources(v) : v \in Versions}

\* The types, with what they rest on: an edit is announced at most once, and
\* only a socket that a task serves is up.
CatalogTypes ==
    catalog \in Versions /\ unnotified \in Versions /\ unnotified <= catalog /\ revised \in BOOLEAN
TaskTypes ==
    /\ task \in [Conns -> [phase : Phases, unseen : BOOLEAN, active : Versions, reading : Readings]]
    /\ registry \in BOOLEAN /\ up \in [Conns -> BOOLEAN]
    /\ \A c \in Conns : up[c] => task[c].phase # "none"
WireTypes ==
    /\ toAnalyzer \in [Conns -> Seq(ToAnalyzer)] /\ toCollector \in [Conns -> Seq(ToCollector)]
    /\ \A c \in Conns : Len(toAnalyzer[c]) <= WireMax
LinkTypes ==
    /\ conn \in Conns \cup {None} /\ (conn = None <=> phase = "idle")
    /\ phase \in {"idle", "hello", "sources", "stream"} /\ reading \in Readings
CaptureTypes ==
    /\ sources \in Versions /\ filter \in Versions
    /\ changed \in BOOLEAN /\ building \in BOOLEAN
    /\ queue \in Seq(Packet) /\ Len(queue) <= QueueCapacity
    /\ delivered \in Seq(1 .. Packets) /\ shown \in 0 .. Packets
MishapTypes == mishap \in Mishaps /\ faults \in 0 .. mishap.faults

Types == CatalogTypes /\ TaskTypes /\ WireTypes /\ LinkTypes /\ CaptureTypes /\ MishapTypes

\* Nothing is ahead of the catalog, nor the filter and what was captured
\* under it ahead of the snapshot.
Behind ==
    /\ sources <= catalog /\ filter <= sources
    /\ \A i \in DOMAIN queue : queue[i].under <= sources
    /\ \A c \in Conns : task[c].active <= catalog

\* The snapshots on a wire are ordered and lie between two versions.
InOrder(wire, low, high) ==
    \A i \in DOMAIN wire : wire[i].type = "sources" =>
        /\ low <= wire[i].version /\ wire[i].version <= high
        /\ \A j \in DOMAIN wire : i < j /\ wire[j].type = "sources" =>
              wire[i].version <= wire[j].version

\* Those on the current connection are none older than the collector's, and
\* none newer than what the task that pushed them works with.
Ordered ==
    \A c \in Conns : conn = c =>
        /\ InOrder(toCollector[c], sources, catalog)
        /\ up[c] => InOrder(toCollector[c], sources, task[c].active)
        /\ up[c] /\ (phase = "stream" \/ task[c].phase \in {"push", "serve"}) =>
              sources <= task[c].active

\* So no packet reaches a task that works with older Sources.
CapturedBy(wire, high) ==
    \A i \in DOMAIN wire : wire[i].type = "packet" => wire[i].under <= high
Covered == \A c \in Conns : CapturedBy(toAnalyzer[c], task[c].active)

\* A packet has one number and is in one place: in the queue, which is ordered,
\* on one wire, which it left the queue for before those still in it, or
\* delivered.
IsPacket(c, i) == i \in DOMAIN toAnalyzer[c] /\ toAnalyzer[c][i].type = "packet"
Gone(n) == n <= shown /\ \A j \in DOMAIN queue : n < queue[j].n

QueueOrdered ==
    /\ \A i \in DOMAIN queue : queue[i].n <= shown
    /\ \A i, j \in DOMAIN queue : i < j => queue[i].n < queue[j].n
SentOnce ==
    \A c \in Conns : \A i \in DOMAIN toAnalyzer[c] : IsPacket(c, i) =>
        /\ Gone(toAnalyzer[c][i].n)
        /\ \A k \in DOMAIN delivered : delivered[k] # toAnalyzer[c][i].n
        /\ \A d \in Conns : \A j \in DOMAIN toAnalyzer[d] :
              IsPacket(d, j) /\ toAnalyzer[d][j].n = toAnalyzer[c][i].n => d = c /\ j = i
DeliveredOnce == AtMostOnce /\ \A k \in DOMAIN delivered : Gone(delivered[k])

-----------------------------------------------------------------------------
LEMMA ConstantTypes ==
    /\ Last \in Nat /\ Versions \subseteq Nat /\ 0 \in Versions
    /\ \A v \in Nat : v <= Last => v \in Versions
    /\ Packets \in Nat
    /\ \A m \in Mishaps : /\ m.edits \in Nat /\ m.edits <= Last
                          /\ m.packets \in Nat /\ m.packets <= Packets
                          /\ m.faults \in Nat /\ m.torn \subseteq {"lost", "starved"}
<1>1. Last \in Nat
  BY LinkAssumption DEF Last
<1> QED
  BY <1>1, LinkAssumption DEF Versions

-----------------------------------------------------------------------------
(* Every step keeps the types. *)

\* A frame that is written has the type of its wire, and what a read that is
\* dropped leaves has the type of what was there.
LEMMA WriteType ==
  ASSUME NEW S, NEW wire \in [Conns -> Seq(S)], NEW c \in Conns, NEW frame \in S
  PROVE  /\ Write(wire, c, frame) \in [Conns -> Seq(S)]
         /\ \A d \in Conns \ {c} : Write(wire, c, frame)[d] = wire[d]
         /\ ~up[c] => Write(wire, c, frame)[c] = wire[c]
         /\ up[c] => Write(wire, c, frame)[c] = Append(wire[c], frame)
<1>1. Append(wire[c], frame) \in Seq(S)
  BY AppendProperties
<1> QED
  BY <1>1 DEF Write

LEMMA PreemptedIs ==
  ASSUME MishapTypes, NEW S, NEW frames \in Seq(S), NEW state \in Readings,
         NEW left \in Preempted(state, frames)
  PROVE  /\ left[1] \in Readings
         /\ left[2] = frames \/ (frames # <<>> /\ left[2] = Tail(frames))
         /\ left[2] \in Seq(S)
<1>1. mishap.torn \subseteq Readings
  BY ConstantTypes DEF MishapTypes, Readings
<1>2. CASE left = <<state, frames>>
  BY <1>2
<1>3. CASE frames # <<>> /\ left \in mishap.torn \X {Tail(frames)}
  <2>1. Tail(frames) \in Seq(S)
    BY <1>3, TailOf
  <2>2. left[1] \in mishap.torn /\ left[2] = Tail(frames)
    BY <1>3
  <2> QED
    BY <1>1, <1>3, <2>1, <2>2
<1> QED
  BY <1>2, <1>3 DEF Preempted

LEMMA FrameTypes ==
  /\ Hello \in ToAnalyzer /\ Stats \in ToAnalyzer /\ HelloAck \in ToCollector
  /\ \A v \in Versions : SetSources(v) \in ToCollector
  /\ \A p \in Packet : p \in ToAnalyzer /\ p.type = "packet" /\ p.n \in 1 .. Packets
                       /\ p.under \in Versions
  /\ \A f \in ToAnalyzer : f.type = "packet" => f \in Packet
  /\ \A f \in ToCollector : f.type = "sources" => f.version \in Versions
  /\ Hello.type = "hello" /\ Stats.type = "stats" /\ HelloAck.type = "ack"
  /\ \A v : SetSources(v).type = "sources" /\ SetSources(v).version = v
<1>1. Hello \in ToAnalyzer /\ Stats \in ToAnalyzer /\ HelloAck \in ToCollector
  BY DEF ToAnalyzer, ToCollector
<1>2. \A v \in Versions : SetSources(v) \in ToCollector
  BY DEF ToCollector
<1>3. \A p \in Packet : /\ p \in ToAnalyzer /\ p.type = "packet" /\ p.n \in 1 .. Packets
                        /\ p.under \in Versions
  BY DEF ToAnalyzer, Packet
<1>4. Hello.type = "hello" /\ Stats.type = "stats" /\ HelloAck.type = "ack"
  BY DEF Hello, Stats, HelloAck
<1>5. \A v : SetSources(v).type = "sources" /\ SetSources(v).version = v
  BY DEF SetSources
<1>6. \A f \in ToAnalyzer : f.type = "packet" => f \in Packet
  BY <1>4 DEF ToAnalyzer
<1>7. \A f \in ToCollector : f.type = "sources" => f.version \in Versions
  BY <1>4, <1>5 DEF ToCollector
<1> QED
  BY <1>1, <1>2, <1>3, <1>4, <1>5, <1>6, <1>7

LEMMA NextCatalogTypes ==
  ASSUME Types, [Next]_vars
  PROVE  CatalogTypes'
<1> USE DEF Types
<1>1. CASE UNCHANGED <<catalog, unnotified, revised>>
  BY <1>1 DEF CatalogTypes
<1>2. CASE Commit
  BY <1>2, ConstantTypes DEF Commit, CatalogTypes, MishapTypes, Versions
<1>3. CASE Notify
  BY <1>3, ConstantTypes DEF Notify, CatalogTypes, Versions
<1>4. CASE Cancel
  BY <1>4, ConstantTypes DEF Cancel, CatalogTypes, Versions
<1>5. CASE RestartAnalyzer
  <2>1. unnotified' = 0 /\ revised' = FALSE /\ catalog' = catalog
    BY <1>5 DEF RestartAnalyzer
  <2>2. catalog \in Versions /\ 0 \in Versions /\ 0 <= catalog
    BY ConstantTypes DEF CatalogTypes, Versions
  <2>3. revised' \in BOOLEAN
    BY <2>1
  <2> QED
    BY <2>1, <2>2, <2>3 DEF CatalogTypes
<1> QED
  BY <1>1, <1>2, <1>3, <1>4, <1>5
  DEF Next, vars, api, Serve, ServeHello, LoadSources, PushSources, SourceChanged, ReceivePacket,
      ReceiveStats, TaskMisreads, TaskOnly, TaskEnds, Connect, LinkOnly, Break, Read, ReceiveAck,
      ReceiveSources, Misread, SendPacket, Transmit, Report, Disconnect, HangUp, BuildFilter,
      SnapshotChanged, Capture, CaptureOnly, HandshakeTimeout, RestartCollector

LEMMA NextMishapTypes ==
  ASSUME Types, [Next]_vars
  PROVE  MishapTypes'
<1> USE DEF Types
<1>1. CASE UNCHANGED <<faults, mishap>>
  BY <1>1 DEF MishapTypes
<1>2. CASE Fault /\ UNCHANGED mishap
  BY <1>2, ConstantTypes DEF Fault, MishapTypes
<1> QED
  BY <1>1, <1>2
  DEF Next, vars, Commit, Notify, Cancel, Serve, ServeHello, LoadSources, PushSources, SourceChanged,
      ReceivePacket, ReceiveStats, TaskMisreads, TaskOnly, TaskEnds, Connect, LinkOnly, Break, Read,
      ReceiveAck, ReceiveSources, Misread, SendPacket, Transmit, Report, Disconnect, HangUp,
      BuildFilter, SnapshotChanged, Capture, CaptureOnly, HandshakeTimeout, RestartAnalyzer,
      RestartCollector

LEMMA NextTaskTypes ==
  ASSUME Types, [Next]_vars
  PROVE  TaskTypes'
<1> USE DEF Types, Phases
<1>0. Idle \in [phase : Phases, unseen : BOOLEAN, active : Versions, reading : Readings]
  BY ConstantTypes DEF Idle, Readings
<1>1. CASE UNCHANGED <<task, registry, up>>
  BY <1>1 DEF TaskTypes
<1>2. CASE Notify
  BY <1>2 DEF Notify, TaskTypes, wires
<1>3. ASSUME NEW c \in Conns, ServeHello(c)
      PROVE  TaskTypes'
  BY <1>3 DEF ServeHello, TaskTypes
<1>4. ASSUME NEW c \in Conns, LoadSources(c)
      PROVE  TaskTypes'
  BY <1>4 DEF LoadSources, TaskTypes, CatalogTypes, wires
<1>5. ASSUME NEW c \in Conns, PushSources(c)
      PROVE  TaskTypes'
  BY <1>5 DEF PushSources, TaskTypes
<1>6. ASSUME NEW c \in Conns, SourceChanged(c)
      PROVE  TaskTypes'
  <2>1. PICK left \in Preempted(task[c].reading, toAnalyzer[c]) :
           task' = [task EXCEPT ![c].phase = "load", ![c].unseen = FALSE, ![c].reading = left[1]]
    BY <1>6 DEF SourceChanged
  <2>2. left[1] \in Readings
    BY <2>1, PreemptedIs DEF TaskTypes, WireTypes
  <2> QED
    BY <1>6, <2>1, <2>2 DEF SourceChanged, TaskTypes
<1>7. ASSUME NEW c \in Conns, TaskMisreads(c)
      PROVE  TaskTypes'
  <2>1. mishap.torn \subseteq Readings
    BY ConstantTypes DEF MishapTypes, Readings
  <2> QED
    BY <1>7, <2>1 DEF TaskMisreads, TaskTypes
<1>8. ASSUME NEW c \in Conns, TaskEnds(c)
      PROVE  TaskTypes'
  BY <1>0, <1>8 DEF TaskEnds, TaskTypes
<1>9. ASSUME NEW c \in Conns, Connect(c)
      PROVE  TaskTypes'
  <2>1. [Idle EXCEPT !.phase = "hello", !.unseen = revised]
          \in [phase : Phases, unseen : BOOLEAN, active : Versions, reading : Readings]
    BY <1>0 DEF CatalogTypes
  <2>2. [Idle EXCEPT !.phase = "hello", !.unseen = revised].phase = "hello"
    BY DEF Idle
  <2> QED
    BY <1>9, <2>1, <2>2 DEF Connect, LinkOnly, TaskTypes
<1>10. ASSUME NEW c \in Conns, Break(c)
       PROVE  TaskTypes'
  BY <1>10 DEF Break, TaskTypes
<1>11. CASE Disconnect \/ HandshakeTimeout
  <2>1. UNCHANGED <<task, registry>> /\ up' = [up EXCEPT ![conn] = FALSE]
    BY <1>11 DEF Disconnect, HandshakeTimeout, HangUp
  <2> QED
    BY <2>1 DEF TaskTypes
<1>12. CASE RestartAnalyzer
  BY <1>0, <1>12 DEF RestartAnalyzer, TaskTypes
<1>13. CASE RestartCollector
  BY <1>13 DEF RestartCollector, TaskTypes
<1> QED
  BY <1>1, <1>2, <1>3, <1>4, <1>5, <1>6, <1>7, <1>8, <1>9, <1>10, <1>11, <1>12, <1>13
  DEF Next, vars, wires, Commit, Cancel, Serve, ReceivePacket, ReceiveStats, TaskOnly, LinkOnly,
      Read, ReceiveAck, ReceiveSources, Misread, SendPacket, Transmit, Report, BuildFilter,
      SnapshotChanged, Capture, CaptureOnly

LEMMA NextWireTypes ==
  ASSUME Types, [Next]_vars
  PROVE  WireTypes'
<1> USE DEF Types
<1>0. /\ toAnalyzer \in [Conns -> Seq(ToAnalyzer)] /\ toCollector \in [Conns -> Seq(ToCollector)]
      /\ \A c \in Conns : Len(toAnalyzer[c]) \in Nat /\ Len(toAnalyzer[c]) <= WireMax
      /\ WireMax \in Nat \ {0}
  BY LinkAssumption DEF WireTypes
<1>1. CASE UNCHANGED <<toAnalyzer, toCollector>>
  BY <1>1 DEF WireTypes
\* A wire to the analyzer of which the first frame has been taken.
<1>2. ASSUME NEW c \in Conns, toAnalyzer[c] # <<>>, toAnalyzer' = [toAnalyzer EXCEPT ![c] = Tail(@)]
      PROVE  /\ toAnalyzer' \in [Conns -> Seq(ToAnalyzer)]
             /\ \A d \in Conns : Len(toAnalyzer'[d]) <= WireMax
  <2>1. Tail(toAnalyzer[c]) \in Seq(ToAnalyzer) /\ Len(Tail(toAnalyzer[c])) = Len(toAnalyzer[c]) - 1
    BY <1>0, <1>2, TailOf
  <2> QED
    BY <1>0, <1>2, <2>1
<1>3. ASSUME NEW c \in Conns, toCollector[c] # <<>>, toCollector' = [toCollector EXCEPT ![c] = Tail(@)]
      PROVE  toCollector' \in [Conns -> Seq(ToCollector)]
  BY <1>0, <1>3, TailOf
<1>4. ASSUME NEW c \in Conns, ServeHello(c)
      PROVE  WireTypes'
  <2>1. toAnalyzer[c] # <<>> /\ toAnalyzer' = [toAnalyzer EXCEPT ![c] = Tail(@)]
        /\ toCollector' = Write(toCollector, c, HelloAck)
    BY <1>4 DEF ServeHello, Heads
  <2>2. toCollector' \in [Conns -> Seq(ToCollector)]
    BY <1>0, <2>1, WriteType, FrameTypes
  <2> QED
    BY <1>2, <2>1, <2>2 DEF WireTypes
<1>5. ASSUME NEW c \in Conns, PushSources(c)
      PROVE  WireTypes'
  <2>1. task[c].active \in Versions
    BY DEF TaskTypes
  <2>2. toCollector' \in [Conns -> Seq(ToCollector)] /\ UNCHANGED toAnalyzer
    BY <1>0, <1>5, <2>1, WriteType, FrameTypes DEF PushSources
  <2> QED
    BY <2>2 DEF WireTypes
<1>6. ASSUME NEW c \in Conns, SourceChanged(c)
      PROVE  WireTypes'
  <2>1. PICK left \in Preempted(task[c].reading, toAnalyzer[c]) :
           toAnalyzer' = [toAnalyzer EXCEPT ![c] = left[2]] /\ UNCHANGED toCollector
    BY <1>6 DEF SourceChanged
  <2>2. left[2] = toAnalyzer[c] \/ (toAnalyzer[c] # <<>> /\ left[2] = Tail(toAnalyzer[c]))
    BY <1>0, PreemptedIs DEF TaskTypes
  <2>3. CASE left[2] = toAnalyzer[c]
    BY <1>0, <2>1, <2>3 DEF WireTypes
  <2>4. CASE toAnalyzer[c] # <<>> /\ left[2] = Tail(toAnalyzer[c])
    BY <1>0, <1>2, <2>1, <2>4 DEF WireTypes
  <2> QED
    BY <2>2, <2>3, <2>4
<1>7. ASSUME NEW c \in Conns, ReceivePacket(c) \/ ReceiveStats(c) \/ TaskMisreads(c)
      PROVE  WireTypes'
  <2>1. toAnalyzer[c] # <<>> /\ toAnalyzer' = [toAnalyzer EXCEPT ![c] = Tail(@)]
        /\ UNCHANGED toCollector
    BY <1>7 DEF ReceivePacket, ReceiveStats, TaskMisreads, Heads
  <2> QED
    BY <1>2, <2>1 DEF WireTypes
<1>8. ASSUME NEW c \in Conns, TaskEnds(c)
      PROVE  WireTypes'
  <2>1. toAnalyzer' = [toAnalyzer EXCEPT ![c] = <<>>] /\ UNCHANGED toCollector
    BY <1>8 DEF TaskEnds
  <2>2. <<>> \in Seq(ToAnalyzer) /\ Len(<<>>) = 0
    BY EmptySeq
  <2> QED
    BY <1>0, <2>1, <2>2 DEF WireTypes
<1>9. ASSUME NEW c \in Conns, Connect(c)
      PROVE  WireTypes'
  <2>1. toAnalyzer' = [toAnalyzer EXCEPT ![c] = <<Hello>>] /\ toCollector' = [toCollector EXCEPT ![c] = <<>>]
    BY <1>9 DEF Connect
  <2>2. <<Hello>> \in Seq(ToAnalyzer) /\ Len(<<Hello>>) = 1 /\ <<>> \in Seq(ToCollector)
    BY FrameTypes, EmptySeq
  <2> QED
    BY <1>0, <2>1, <2>2 DEF WireTypes
<1>10. ASSUME NEW frame \in ToAnalyzer, Transmit(frame)
       PROVE  WireTypes'
  <2>1. conn \in Conns
    BY <1>10 DEF Transmit, LinkTypes
  <2>2. toAnalyzer' = Write(toAnalyzer, conn, frame) /\ Len(toAnalyzer[conn]) < WireMax
    BY <1>10 DEF Transmit
  <2>3. toAnalyzer' \in [Conns -> Seq(ToAnalyzer)] /\ \A d \in Conns : Len(toAnalyzer'[d]) <= WireMax
    <3>1. Len(Append(toAnalyzer[conn], frame)) = Len(toAnalyzer[conn]) + 1
      BY <1>0, <2>1, AppendProperties
    <3>2. \A d \in Conns : toAnalyzer'[d] = toAnalyzer[d] \/
                           (d = conn /\ toAnalyzer'[d] = Append(toAnalyzer[conn], frame))
      <4>1. /\ \A d \in Conns \ {conn} : toAnalyzer'[d] = toAnalyzer[d]
            /\ ~up[conn] => toAnalyzer'[conn] = toAnalyzer[conn]
            /\ up[conn] => toAnalyzer'[conn] = Append(toAnalyzer[conn], frame)
        BY <1>0, <2>1, <2>2, WriteType
      <4> QED
        BY <4>1
    <3>3. toAnalyzer' \in [Conns -> Seq(ToAnalyzer)]
      BY <1>0, <2>1, <2>2, WriteType
    <3>4. Len(toAnalyzer[conn]) + 1 <= WireMax
      BY <1>0, <2>1, <2>2
    <3> QED
      BY <1>0, <3>1, <3>2, <3>3, <3>4
  <2>4. PICK left \in Preempted(reading, toCollector[conn]) :
           toCollector' = [toCollector EXCEPT ![conn] = left[2]]
    BY <1>10 DEF Transmit
  <2>5. left[2] \in Seq(ToCollector)
    BY <1>0, <2>1, <2>4, PreemptedIs DEF LinkTypes
  <2> QED
    BY <1>0, <2>3, <2>4, <2>5 DEF WireTypes
<1>11. CASE SendPacket \/ Report
  <2>1. queue # <<>> => Head(queue) \in ToAnalyzer
    BY TailOf, FrameTypes DEF CaptureTypes
  <2> QED
    BY <1>10, <1>11, <2>1, FrameTypes DEF SendPacket, Report
<1>12. CASE Read
  <2>1. conn \in Conns /\ toCollector[conn] # <<>> /\ UNCHANGED toAnalyzer
        /\ toCollector' = [toCollector EXCEPT ![conn] = Tail(@)]
    BY <1>12 DEF Read, ReceiveAck, ReceiveSources, Misread, Heads, LinkTypes
  <2> QED
    BY <1>0, <1>3, <2>1 DEF WireTypes
<1>13. CASE Disconnect \/ HandshakeTimeout
  <2>1. toCollector' = [toCollector EXCEPT ![conn] = <<>>] /\ UNCHANGED toAnalyzer
    BY <1>13 DEF Disconnect, HandshakeTimeout, HangUp
  <2> QED
    BY <1>0, <2>1, EmptySeq DEF WireTypes
<1>14. CASE RestartAnalyzer
  <2>1. toAnalyzer' = [c \in Conns |-> <<>>] /\ UNCHANGED toCollector
    BY <1>14 DEF RestartAnalyzer
  <2>2. <<>> \in Seq(ToAnalyzer) /\ Len(<<>>) = 0
    BY EmptySeq
  <2> QED
    BY <1>0, <2>1, <2>2 DEF WireTypes
<1>15. CASE RestartCollector
  <2>1. toCollector' = [c \in Conns |-> <<>>] /\ UNCHANGED toAnalyzer
    BY <1>15 DEF RestartCollector
  <2> QED
    BY <1>0, <2>1, EmptySeq DEF WireTypes
<1>16. CASE \/ UNCHANGED vars \/ Commit \/ Notify \/ Cancel \/ BuildFilter \/ SnapshotChanged
            \/ \E s \in Source : Capture(s)
            \/ \E c \in Conns : LoadSources(c) \/ Break(c)
  BY <1>1, <1>16
  DEF vars, wires, Commit, Notify, Cancel, BuildFilter, SnapshotChanged, Capture, CaptureOnly,
      LoadSources, Break
<1> QED
  BY <1>4, <1>5, <1>6, <1>7, <1>8, <1>9, <1>11, <1>12, <1>13, <1>14, <1>15, <1>16 DEF Next, Serve

LEMMA NextLinkTypes ==
  ASSUME Types, [Next]_vars
  PROVE  LinkTypes'
<1> USE DEF Types
<1>1. CASE UNCHANGED <<conn, phase, reading>>
  BY <1>1 DEF LinkTypes
<1>2. ASSUME NEW c \in Conns, Connect(c)
      PROVE  LinkTypes'
  BY <1>2, LinkAssumption DEF Connect, LinkTypes, Readings
<1>3. CASE ReceiveAck \/ ReceiveSources
  BY <1>3 DEF ReceiveAck, ReceiveSources, LinkTypes
<1>4. CASE Misread
  BY <1>4, ConstantTypes DEF Misread, LinkTypes, MishapTypes, Readings
<1>5. CASE SendPacket \/ Report
  <2>1. \E left \in Preempted(reading, toCollector[conn]) : reading' = left[1]
    BY <1>5 DEF SendPacket, Report, Transmit
  <2>2. conn \in Conns /\ UNCHANGED <<conn, phase>>
    BY <1>5 DEF SendPacket, Report, Transmit, LinkTypes
  <2>3. reading' \in Readings
    BY <2>1, <2>2, PreemptedIs DEF LinkTypes, WireTypes
  <2> QED
    BY <2>2, <2>3 DEF LinkTypes
<1>6. CASE Disconnect \/ HandshakeTimeout \/ RestartCollector
  BY <1>6 DEF Disconnect, HandshakeTimeout, HangUp, RestartCollector, LinkTypes, Readings
<1> QED
  BY <1>1, <1>2, <1>3, <1>4, <1>5, <1>6
  DEF Next, vars, collector, Commit, Notify, Cancel, Serve, ServeHello, LoadSources, PushSources,
      SourceChanged, ReceivePacket, ReceiveStats, TaskMisreads, TaskOnly, TaskEnds, Break, Read,
      BuildFilter, SnapshotChanged, Capture, CaptureOnly, RestartAnalyzer

LEMMA NextCaptureTypes ==
  ASSUME Types, [Next]_vars
  PROVE  CaptureTypes'
<1> USE DEF Types
<1>0. QueueCapacity \in Nat \ {0} /\ Len(queue) \in Nat /\ 0 \in Versions /\ Packets \in Nat
  BY ConstantTypes, LinkAssumption DEF CaptureTypes
<1>1. CASE UNCHANGED <<sources, filter, changed, building, queue, delivered, shown>>
  BY <1>1 DEF CaptureTypes
<1>2. ASSUME NEW c \in Conns, ReceivePacket(c)
      PROVE  CaptureTypes'
  <2>1. toAnalyzer[c] \in Seq(ToAnalyzer) /\ toAnalyzer[c] # <<>> /\ Head(toAnalyzer[c]).type = "packet"
    BY <1>2 DEF ReceivePacket, Heads, WireTypes
  <2>2. Head(toAnalyzer[c]).n \in 1 .. Packets
    BY <2>1, TailOf, FrameTypes
  <2>3. delivered' = delivered \/ delivered' = Append(delivered, Head(toAnalyzer[c]).n)
    BY <1>2 DEF ReceivePacket
  <2>4. delivered' \in Seq(1 .. Packets)
    <3>1. delivered \in Seq(1 .. Packets)
      BY DEF CaptureTypes
    <3>2. Append(delivered, Head(toAnalyzer[c]).n) \in Seq(1 .. Packets)
      BY <2>2, <3>1, AppendProperties
    <3> QED
      BY <2>3, <3>1, <3>2
  <2> QED
    BY <1>2, <2>4 DEF ReceivePacket, TaskOnly, capture, CaptureTypes
<1>3. CASE ReceiveSources
  <2>1. toCollector[conn] \in Seq(ToCollector) /\ Heads(toCollector[conn], "sources")
    BY <1>3 DEF ReceiveSources, WireTypes, LinkTypes
  <2>2. Head(toCollector[conn]).version \in Versions
    BY <2>1, TailOf, FrameTypes DEF Heads
  <2> QED
    BY <1>3, <2>2 DEF ReceiveSources, LinkOnly, capture, CaptureTypes
<1>4. CASE SendPacket
  <2>1. queue # <<>> /\ queue' = Tail(queue)
    BY <1>4 DEF SendPacket
  <2>2. queue' \in Seq(Packet) /\ Len(queue') <= QueueCapacity
    BY <1>0, <2>1, TailOf DEF CaptureTypes
  <2> QED
    BY <1>4, <2>2 DEF SendPacket, Transmit, LinkOnly, capture, CaptureTypes
<1>5. CASE BuildFilter \/ SnapshotChanged
  BY <1>5 DEF BuildFilter, SnapshotChanged, CaptureOnly, CaptureTypes
<1>6. ASSUME NEW s \in Source, Capture(s)
      PROVE  CaptureTypes'
  <2>1. mishap.packets \in Nat /\ mishap.packets <= Packets
    BY ConstantTypes DEF MishapTypes
  <2>2. shown + 1 \in 1 .. Packets /\ shown' = shown + 1
    BY <1>0, <1>6, <2>1 DEF Capture, CaptureTypes
  <2> DEFINE packet == [type |-> "packet", n |-> shown + 1, source |-> s, under |-> filter]
  <2>3. packet \in Packet
    BY <2>2 DEF Packet, CaptureTypes
  <2>4. queue' = queue \/ (Len(queue) < QueueCapacity /\ queue' = Append(queue, packet))
    BY <1>6 DEF Capture
  <2>5. queue' \in Seq(Packet) /\ Len(queue') <= QueueCapacity
    <3> HIDE DEF packet
    <3>1. Append(queue, packet) \in Seq(Packet) /\ Len(Append(queue, packet)) = Len(queue) + 1
      BY <2>3, AppendProperties DEF CaptureTypes
    <3>2. CASE queue' = queue
      BY <3>2 DEF CaptureTypes
    <3>3. CASE Len(queue) < QueueCapacity /\ queue' = Append(queue, packet)
      BY <1>0, <3>1, <3>3
    <3> QED
      BY <2>4, <3>2, <3>3
  <2>6. shown' \in 0 .. Packets
    BY <2>2
  <2> QED
    BY <1>6, <2>5, <2>6 DEF Capture, CaptureOnly, CaptureTypes
<1>7. CASE RestartCollector
  <2>1. queue' = <<>> /\ queue' \in Seq(Packet) /\ Len(queue') = 0
    BY <1>7, EmptySeq DEF RestartCollector
  <2>2. /\ sources' = 0 /\ changed' = FALSE /\ filter' = 0 /\ building' = TRUE
        /\ UNCHANGED <<shown, delivered>>
    BY <1>7 DEF RestartCollector
  <2>3. changed' \in BOOLEAN /\ building' \in BOOLEAN
    BY <2>2
  <2>4. Len(queue') <= QueueCapacity
    BY <1>0, <2>1
  <2> QED
    BY <1>0, <2>1, <2>2, <2>3, <2>4 DEF CaptureTypes
<1> QED
  BY <1>1, <1>2, <1>3, <1>4, <1>5, <1>6, <1>7
  DEF Next, vars, capture, Commit, Notify, Cancel, Serve, ServeHello, LoadSources, PushSources,
      SourceChanged, ReceiveStats, TaskMisreads, TaskOnly, TaskEnds, Connect, LinkOnly, Break, Read,
      ReceiveAck, Misread, Report, Transmit, Disconnect, HangUp, HandshakeTimeout, RestartAnalyzer

LEMMA NextTypes == Types /\ [Next]_vars => Types'
  BY NextCatalogTypes, NextTaskTypes, NextWireTypes, NextLinkTypes, NextCaptureTypes,
     NextMishapTypes DEF Types

-----------------------------------------------------------------------------
(* What is taken from a wire, and what is put on it. *)

LEMMA InOrderTail ==
  ASSUME NEW w \in Seq(ToCollector), w # <<>>, NEW low, NEW high, InOrder(w, low, high)
  PROVE  /\ InOrder(Tail(w), low, high)
         /\ Head(w).type = "sources" =>
              /\ InOrder(Tail(w), Head(w).version, high)
              /\ low <= Head(w).version /\ Head(w).version <= high
<1>1. /\ Head(w) = w[1] /\ 1 \in DOMAIN w /\ DOMAIN Tail(w) \subseteq Nat \ {0}
      /\ \A i \in DOMAIN Tail(w) : i + 1 \in DOMAIN w /\ Tail(w)[i] = w[i + 1]
  BY TailOf
<1> QED
  BY <1>1 DEF InOrder

LEMMA InOrderAppend ==
  ASSUME NEW w \in Seq(ToCollector), NEW frame \in ToCollector, NEW low, NEW high,
         InOrder(w, low, high),
         frame.type = "sources" =>
           /\ low <= frame.version /\ frame.version <= high
           /\ InOrder(w, low, frame.version)
  PROVE  InOrder(Append(w, frame), low, high)
<1>1. /\ DOMAIN w = 1..Len(w) /\ DOMAIN Append(w, frame) = 1..(Len(w) + 1) /\ Len(w) \in Nat
      /\ \A i \in 1..Len(w) : Append(w, frame)[i] = w[i]
      /\ Append(w, frame)[Len(w) + 1] = frame
  BY AppendProperties, LenProperties
<1> QED
  BY <1>1 DEF InOrder

\* The versions of a wire stay below a bound that grows.
LEMMA InOrderHigher ==
  ASSUME NEW w \in Seq(ToCollector), NEW low, NEW high \in Nat, NEW higher \in Nat,
         high <= higher, InOrder(w, low, high)
  PROVE  InOrder(w, low, higher)
<1>1. \A i \in DOMAIN w : w[i].type = "sources" => w[i].version \in Nat
  <2>1. \A i \in DOMAIN w : w[i] \in ToCollector
    BY LenProperties
  <2> QED
    BY <2>1, FrameTypes, ConstantTypes
<1> QED
  BY <1>1 DEF InOrder

LEMMA CapturedTail ==
  ASSUME NEW w \in Seq(ToAnalyzer), w # <<>>, NEW high, CapturedBy(w, high)
  PROVE  CapturedBy(Tail(w), high)
  BY TailOf DEF CapturedBy

LEMMA CapturedAppend ==
  ASSUME NEW w \in Seq(ToAnalyzer), NEW frame \in ToAnalyzer, NEW high, CapturedBy(w, high),
         frame.type = "packet" => frame.under <= high
  PROVE  CapturedBy(Append(w, frame), high)
<1>1. /\ DOMAIN w = 1..Len(w) /\ DOMAIN Append(w, frame) = 1..(Len(w) + 1) /\ Len(w) \in Nat
      /\ \A i \in 1..Len(w) : Append(w, frame)[i] = w[i]
      /\ Append(w, frame)[Len(w) + 1] = frame
  BY AppendProperties, LenProperties
<1> QED
  BY <1>1 DEF CapturedBy

LEMMA CapturedHigher ==
  ASSUME NEW w \in Seq(ToAnalyzer), NEW high \in Nat, NEW higher \in Nat, high <= higher,
         CapturedBy(w, high)
  PROVE  CapturedBy(w, higher)
<1>1. \A i \in DOMAIN w : w[i].type = "packet" => w[i].under \in Nat
  <2>1. \A i \in DOMAIN w : w[i] \in ToAnalyzer
    BY LenProperties
  <2> QED
    BY <2>1, FrameTypes, ConstantTypes
<1> QED
  BY <1>1 DEF CapturedBy

-----------------------------------------------------------------------------
(* Every step keeps the versions in order. *)

\* Versions are numbers.
LEMMA Numbers ==
  ASSUME Types
  PROVE  /\ catalog \in Nat /\ sources \in Nat /\ filter \in Nat
         /\ \A c \in Conns : task[c].active \in Nat
         /\ \A i \in DOMAIN queue : queue[i] \in Packet /\ queue[i].under \in Nat
<1>1. /\ catalog \in Versions /\ sources \in Versions /\ filter \in Versions
      /\ \A c \in Conns : task[c].active \in Versions
  BY DEF Types, CatalogTypes, CaptureTypes, TaskTypes
<1>2. \A i \in DOMAIN queue : queue[i] \in Packet
  BY LenProperties DEF Types, CaptureTypes
<1> QED
  BY <1>1, <1>2, ConstantTypes, FrameTypes

\* The snapshot that is taken is none older, and none ahead of the catalog.
LEMMA Taken ==
  ASSUME Types, Ordered, ReceiveSources
  PROVE  /\ conn \in Conns /\ toCollector[conn] \in Seq(ToCollector) /\ toCollector[conn] # <<>>
         /\ sources' = Head(toCollector[conn]).version /\ Head(toCollector[conn]).type = "sources"
         /\ sources' \in Nat /\ sources <= sources' /\ sources' <= catalog
<1>1. conn \in Conns /\ toCollector[conn] \in Seq(ToCollector)
  BY DEF ReceiveSources, Types, LinkTypes, WireTypes
<1>2. /\ toCollector[conn] # <<>> /\ Head(toCollector[conn]).type = "sources"
      /\ sources' = Head(toCollector[conn]).version
  BY DEF ReceiveSources, Heads
<1>3. InOrder(toCollector[conn], sources, catalog)
  BY <1>1 DEF Ordered
<1>4. sources <= sources' /\ sources' <= catalog
  BY <1>1, <1>2, <1>3, InOrderTail
<1>5. Head(toCollector[conn]) \in ToCollector
  BY <1>1, <1>2, TailOf
<1>6. sources' \in Nat
  BY <1>2, <1>5, FrameTypes, ConstantTypes
<1> QED
  BY <1>1, <1>2, <1>4, <1>6

LEMMA NextBehind ==
  ASSUME Types, Behind, Ordered, [Next]_vars
  PROVE  Behind'
<1>0. /\ catalog \in Nat /\ sources \in Nat /\ filter \in Nat
      /\ \A c \in Conns : task[c].active \in Nat
      /\ \A i \in DOMAIN queue : queue[i].under \in Nat
  BY Numbers
<1>1. CASE UNCHANGED <<catalog, sources, filter, queue>>
           /\ \A c \in Conns : task'[c].active = task[c].active
  BY <1>1 DEF Behind
<1>2. CASE Commit
  <2>1. catalog' = catalog + 1 /\ UNCHANGED <<sources, filter, queue, task>>
    BY <1>2 DEF Commit, capture
  <2> QED
    BY <1>0, <2>1 DEF Behind
<1>3. CASE Notify
  <2>1. \A c \in Conns : task'[c].active = task[c].active
    BY <1>3 DEF Notify, Types, TaskTypes
  <2> QED
    BY <1>1, <1>3, <2>1 DEF Notify, capture
<1>4. ASSUME NEW c \in Conns, LoadSources(c)
      PROVE  Behind'
  <2>1. /\ UNCHANGED <<catalog, sources, filter, queue>>
        /\ \A d \in Conns : task'[d].active = IF d = c THEN catalog ELSE task[d].active
    BY <1>4 DEF LoadSources, TaskOnly, api, capture, Types, TaskTypes
  <2> QED
    BY <1>0, <2>1 DEF Behind
<1>5. ASSUME NEW c \in Conns, TaskEnds(c) \/ Connect(c)
      PROVE  Behind'
  <2>1. /\ UNCHANGED <<catalog, sources, filter, queue>>
        /\ \A d \in Conns : task'[d].active = IF d = c THEN 0 ELSE task[d].active
    <3>1. task' = [task EXCEPT ![c] = Idle] \/
          task' = [task EXCEPT ![c] = [Idle EXCEPT !.phase = "hello", !.unseen = revised]]
      BY <1>5 DEF TaskEnds, Connect
    <3>2. Idle.active = 0 /\ [Idle EXCEPT !.phase = "hello", !.unseen = revised].active = 0
      BY DEF Idle
    <3>3. UNCHANGED <<catalog, sources, filter, queue>>
      BY <1>5 DEF TaskEnds, TaskOnly, Connect, LinkOnly, api, capture
    <3> QED
      BY <3>1, <3>2, <3>3 DEF Types, TaskTypes
  <2> QED
    BY <1>0, <2>1 DEF Behind
<1>6. ASSUME NEW c \in Conns,
             ServeHello(c) \/ PushSources(c) \/ SourceChanged(c) \/ TaskMisreads(c)
      PROVE  Behind'
  <2>1. \A d \in Conns : task'[d].active = task[d].active
    BY <1>6 DEF ServeHello, PushSources, SourceChanged, TaskMisreads, Types, TaskTypes
  <2> QED
    BY <1>1, <1>6, <2>1
    DEF ServeHello, PushSources, SourceChanged, TaskMisreads, TaskOnly, api, capture
<1>7. CASE ReceiveSources
  <2>1. /\ sources' \in Nat /\ sources <= sources' /\ sources' <= catalog
    BY <1>7, Taken
  <2>2. UNCHANGED <<catalog, filter, queue, task>>
    BY <1>7 DEF ReceiveSources, LinkOnly, api, capture
  <2> QED
    BY <1>0, <2>1, <2>2 DEF Behind
<1>8. CASE SendPacket
  <2>1. queue # <<>> /\ queue' = Tail(queue) /\ queue \in Seq(Packet)
    BY <1>8 DEF SendPacket, Types, CaptureTypes
  <2>2. \A i \in DOMAIN queue' : i + 1 \in DOMAIN queue /\ queue'[i] = queue[i + 1]
    BY <2>1, TailOf
  <2>3. UNCHANGED <<catalog, sources, filter, task>>
    BY <1>8 DEF SendPacket, Transmit, LinkOnly, api, capture
  <2> QED
    BY <2>2, <2>3 DEF Behind
<1>9. CASE BuildFilter
  <2>1. filter' = sources /\ UNCHANGED <<catalog, sources, queue, task>>
    BY <1>9 DEF BuildFilter, CaptureOnly, api
  <2> QED
    BY <1>0, <2>1 DEF Behind
<1>10. ASSUME NEW s \in Source, Capture(s)
       PROVE  Behind'
  <2> DEFINE packet == [type |-> "packet", n |-> shown + 1, source |-> s, under |-> filter]
  <2>1. queue' = queue \/ queue' = Append(queue, packet)
    BY <1>10 DEF Capture
  <2>2. UNCHANGED <<catalog, sources, filter, task>>
    BY <1>10 DEF Capture, CaptureOnly, api
  <2>3. packet.under <= sources
    BY DEF Behind
  <2>4. queue \in Seq(Packet) /\ queue \in Seq(Packet \cup {packet})
    BY SeqMonotonic DEF Types, CaptureTypes
  <2> HIDE DEF packet
  <2>5. \A i \in DOMAIN queue' : queue'[i].under <= sources
    <3>1. CASE queue' = Append(queue, packet)
      <4>1. /\ DOMAIN queue = 1..Len(queue) /\ DOMAIN queue' = 1..(Len(queue) + 1)
            /\ Len(queue) \in Nat /\ queue'[Len(queue) + 1] = packet
            /\ \A i \in 1..Len(queue) : queue'[i] = queue[i]
        BY <2>4, <3>1, AppendProperties, LenProperties
      <4> QED
        BY <2>3, <4>1 DEF Behind
    <3> QED
      BY <2>1, <3>1 DEF Behind
  <2> QED
    BY <2>2, <2>5 DEF Behind
<1>11. CASE RestartAnalyzer
  <2>1. UNCHANGED <<catalog, sources, filter, queue>> /\ \A c \in Conns : task'[c].active = 0
    BY <1>11 DEF RestartAnalyzer, capture, Idle
  <2> QED
    BY <1>0, <2>1 DEF Behind
<1>12. CASE RestartCollector
  <2>1. sources' = 0 /\ filter' = 0 /\ queue' = <<>> /\ UNCHANGED <<catalog, task>>
    BY <1>12 DEF RestartCollector, api
  <2> QED
    BY <1>0, <2>1 DEF Behind
<1>13. CASE \/ UNCHANGED vars \/ Cancel \/ ReceiveAck \/ Misread \/ Report \/ Disconnect
            \/ SnapshotChanged \/ HandshakeTimeout
            \/ \E c \in Conns : ReceivePacket(c) \/ ReceiveStats(c) \/ Break(c)
  <2>1. UNCHANGED <<catalog, sources, filter, queue, task>>
    BY <1>13
    DEF vars, api, capture, Cancel, ReceiveAck, Misread, LinkOnly, Report, Transmit, Disconnect,
        HangUp, SnapshotChanged, CaptureOnly, HandshakeTimeout, ReceivePacket, ReceiveStats,
        TaskOnly, Break
  <2> QED
    BY <1>1, <2>1
<1> QED
  BY <1>2, <1>3, <1>4, <1>5, <1>6, <1>7, <1>8, <1>9, <1>10, <1>11, <1>12, <1>13
  DEF Next, Serve, Read

\* A step that puts nothing on the current connection and leaves the task of
\* one that is up where it stood, or takes it back to a point before its push.
LEMMA OrderedKept ==
  ASSUME Types, Ordered, catalog' \in Nat, catalog <= catalog',
         UNCHANGED <<conn, sources>>, phase' = "stream" => phase = "stream",
         \A c \in Conns : conn = c =>
           /\ \/ toCollector'[c] = toCollector[c]
              \/ toCollector[c] # <<>> /\ toCollector'[c] = Tail(toCollector[c])
           /\ up'[c] => /\ up[c] /\ task'[c].active = task[c].active
                        /\ task'[c].phase \in {"push", "serve"} => task[c].phase \in {"push", "serve"}
  PROVE  Ordered'
<1> SUFFICES ASSUME NEW c \in Conns, conn = c
             PROVE  /\ InOrder(toCollector'[c], sources, catalog')
                    /\ up'[c] => InOrder(toCollector'[c], sources, task[c].active)
                    /\ up'[c] /\ (phase' = "stream" \/ task'[c].phase \in {"push", "serve"}) =>
                         sources <= task[c].active
  BY DEF Ordered, InOrder
<1>1. catalog \in Nat /\ toCollector[c] \in Seq(ToCollector)
  BY Numbers DEF Types, WireTypes
<1>2. InOrder(toCollector[c], sources, catalog) /\ (up[c] => InOrder(toCollector[c], sources, task[c].active))
  BY DEF Ordered
<1>3. toCollector[c] # <<>> =>
        /\ InOrder(Tail(toCollector[c]), sources, catalog) /\ Tail(toCollector[c]) \in Seq(ToCollector)
        /\ up[c] => InOrder(Tail(toCollector[c]), sources, task[c].active)
  BY <1>1, <1>2, InOrderTail, TailOf
<1>4. InOrder(toCollector'[c], sources, catalog) /\ toCollector'[c] \in Seq(ToCollector)
  BY <1>1, <1>2, <1>3
<1>5. InOrder(toCollector'[c], sources, catalog')
  BY <1>1, <1>4, InOrderHigher
<1>6. up'[c] => InOrder(toCollector'[c], sources, task[c].active)
  BY <1>2, <1>3
<1> QED
  BY <1>5, <1>6 DEF Ordered

LEMMA NextOrdered ==
  ASSUME Types, Behind, Ordered, [Next]_vars
  PROVE  Ordered'
<1>0. catalog \in Nat /\ sources \in Nat /\ \A c \in Conns : task[c].active \in Nat
  BY Numbers
<1>1. CASE Commit
  <2>1. catalog' = catalog + 1 /\ UNCHANGED <<conn, sources, phase, toCollector, up, task>>
    BY <1>1 DEF Commit, wires, collector
  <2> QED
    BY <1>0, <2>1, OrderedKept
<1>2. CASE Notify
  <2>1. \A c \in Conns : task'[c].active = task[c].active /\ task'[c].phase = task[c].phase
    BY <1>2 DEF Notify, Types, TaskTypes
  <2>2. UNCHANGED <<catalog, conn, sources, phase, toCollector, up>>
    BY <1>2 DEF Notify, wires, collector
  <2> QED
    BY <1>0, <2>1, <2>2, OrderedKept
<1>3. ASSUME NEW c \in Conns, ServeHello(c)
      PROVE  Ordered'
  <2>1. /\ UNCHANGED <<catalog, conn, sources, phase, up>>
        /\ toCollector' = Write(toCollector, c, HelloAck)
        /\ task' = [task EXCEPT ![c].phase = "load"]
    BY <1>3 DEF ServeHello, TaskOnly, api
  <2>2. \A d \in Conns : /\ task'[d].active = task[d].active
                         /\ task'[d].phase = IF d = c THEN "load" ELSE task[d].phase
    BY <2>1 DEF Types, TaskTypes
  <2>3. /\ \A d \in Conns \ {c} : toCollector'[d] = toCollector[d]
        /\ ~up[c] => toCollector'[c] = toCollector[c]
        /\ up[c] => toCollector'[c] = Append(toCollector[c], HelloAck)
    <3>1. toCollector \in [Conns -> Seq(ToCollector)]
      BY DEF Types, WireTypes
    <3> QED
      BY <2>1, <3>1 DEF Write
  <2>4. toCollector[c] \in Seq(ToCollector) /\ HelloAck \in ToCollector /\ HelloAck.type = "ack"
    BY FrameTypes DEF Types, WireTypes
  <2>5. \A low, high : InOrder(toCollector[c], low, high) => InOrder(toCollector'[c], low, high)
    BY <2>3, <2>4, InOrderAppend
  <2> SUFFICES ASSUME NEW d \in Conns, conn = d
               PROVE  /\ InOrder(toCollector'[d], sources, catalog)
                      /\ up[d] => InOrder(toCollector'[d], sources, task[d].active)
                      /\ up[d] /\ (phase = "stream" \/ task'[d].phase \in {"push", "serve"}) =>
                           sources <= task[d].active
    BY <2>1, <2>2 DEF Ordered, InOrder
  <2>6. toCollector'[d] = toCollector[d] \/ d = c
    BY <2>3
  <2> QED
    BY <2>2, <2>5, <2>6 DEF Ordered
<1>4. ASSUME NEW c \in Conns, LoadSources(c)
      PROVE  Ordered'
  <2>1. /\ UNCHANGED <<catalog, conn, sources, phase, up, toCollector>>
        /\ \A d \in Conns : /\ task'[d].active = IF d = c THEN catalog ELSE task[d].active
                            /\ d # c => task'[d].phase = task[d].phase
    BY <1>4 DEF LoadSources, TaskOnly, api, wires, Types, TaskTypes
  <2>2. sources <= catalog
    BY DEF Behind
  <2> QED
    BY <2>1, <2>2 DEF Ordered
<1>5. ASSUME NEW c \in Conns, PushSources(c)
      PROVE  Ordered'
  <2> DEFINE frame == SetSources(task[c].active)
  <2>1. /\ UNCHANGED <<catalog, conn, sources, phase, up>> /\ task[c].phase = "push"
        /\ toCollector' = Write(toCollector, c, frame)
        /\ task' = [task EXCEPT ![c].phase = "serve"]
    BY <1>5 DEF PushSources, TaskOnly, api
  <2>2. \A d \in Conns : /\ task'[d].active = task[d].active
                         /\ task'[d].phase = IF d = c THEN "serve" ELSE task[d].phase
    BY <2>1 DEF Types, TaskTypes
  <2>3. /\ toCollector[c] \in Seq(ToCollector) /\ frame \in ToCollector
        /\ frame.type = "sources" /\ frame.version = task[c].active
    BY FrameTypes DEF Types, WireTypes, TaskTypes
  <2> HIDE DEF frame
  <2>4. /\ \A d \in Conns \ {c} : toCollector'[d] = toCollector[d]
        /\ ~up[c] => toCollector'[c] = toCollector[c]
        /\ up[c] => toCollector'[c] = Append(toCollector[c], frame)
    <3>1. toCollector \in [Conns -> Seq(ToCollector)]
      BY DEF Types, WireTypes
    <3> QED
      BY <2>1, <3>1 DEF Write
  <2> SUFFICES ASSUME NEW d \in Conns, conn = d
               PROVE  /\ InOrder(toCollector'[d], sources, catalog)
                      /\ up[d] => InOrder(toCollector'[d], sources, task[d].active)
                      /\ up[d] /\ (phase = "stream" \/ task'[d].phase \in {"push", "serve"}) =>
                           sources <= task[d].active
    BY <2>1, <2>2 DEF Ordered, InOrder
  <2>5. CASE d # c \/ ~up[c]
    <3>1. toCollector'[d] = toCollector[d] /\ (up[d] => task'[d].phase = task[d].phase)
      BY <2>2, <2>4, <2>5
    <3> QED
      BY <3>1 DEF Ordered
  <2>6. CASE d = c /\ up[c]
    <3>1. /\ InOrder(toCollector[c], sources, catalog)
          /\ InOrder(toCollector[c], sources, task[c].active)
          /\ sources <= task[c].active /\ task[c].active <= catalog
      BY <2>1, <2>6 DEF Ordered, Behind
    <3>2. task[c].active <= task[c].active
      BY <1>0
    <3>3. InOrder(toCollector'[c], sources, catalog)
      BY <2>3, <2>4, <2>6, <3>1, InOrderAppend
    <3>4. InOrder(toCollector'[c], sources, task[c].active)
      BY <2>3, <2>4, <2>6, <3>1, <3>2, InOrderAppend
    <3> QED
      BY <2>6, <3>1, <3>3, <3>4
  <2> QED
    BY <2>5, <2>6
<1>6. ASSUME NEW c \in Conns, Connect(c)
      PROVE  Ordered'
  <2>1. /\ conn' = c /\ phase' = "hello" /\ task'[c].phase = "hello" /\ toCollector'[c] = <<>>
    BY <1>6 DEF Connect, Idle, Types, TaskTypes, WireTypes
  <2> QED
    BY <2>1 DEF Ordered, InOrder
<1>7. CASE ReceiveSources
  <2>1. /\ conn \in Conns /\ toCollector[conn] \in Seq(ToCollector) /\ toCollector[conn] # <<>>
        /\ sources' = Head(toCollector[conn]).version /\ Head(toCollector[conn]).type = "sources"
    BY <1>7, Taken
  <2>2. /\ UNCHANGED <<catalog, conn, up, task>>
        /\ toCollector'[conn] = Tail(toCollector[conn])
    BY <1>7, <2>1 DEF ReceiveSources, LinkOnly, api, Types, WireTypes
  <2>3. /\ InOrder(toCollector[conn], sources, catalog)
        /\ up[conn] => InOrder(toCollector[conn], sources, task[conn].active)
    BY <2>1 DEF Ordered
  <2>4. InOrder(toCollector'[conn], sources', catalog)
    BY <2>1, <2>2, <2>3, InOrderTail
  <2>5. up[conn] => InOrder(toCollector'[conn], sources', task[conn].active)
                    /\ sources' <= task[conn].active
    BY <2>1, <2>2, <2>3, InOrderTail
  <2> QED
    BY <2>1, <2>2, <2>4, <2>5 DEF Ordered
<1>8. CASE Disconnect \/ HandshakeTimeout \/ RestartCollector
  <2>1. conn' = None
    BY <1>8 DEF Disconnect, HandshakeTimeout, HangUp, RestartCollector
  <2> QED
    BY <2>1, LinkAssumption DEF Ordered
<1>9. CASE SendPacket \/ Report
  <2>1. PICK left \in Preempted(reading, toCollector[conn]) :
           toCollector' = [toCollector EXCEPT ![conn] = left[2]]
    BY <1>9 DEF SendPacket, Report, Transmit
  <2>2. conn \in Conns /\ UNCHANGED <<catalog, conn, phase, sources, up, task>>
    BY <1>9 DEF SendPacket, Report, Transmit, LinkOnly, api, Types, LinkTypes
  <2>3. left[2] = toCollector[conn] \/ (toCollector[conn] # <<>> /\ left[2] = Tail(toCollector[conn]))
    BY <2>1, <2>2, PreemptedIs DEF Types, LinkTypes, WireTypes
  <2>4. toCollector'[conn] = left[2]
    BY <2>1, <2>2 DEF Types, WireTypes
  <2> QED
    BY <1>0, <2>2, <2>3, <2>4, OrderedKept
<1>10. CASE ReceiveAck \/ Misread
  <2>1. /\ UNCHANGED <<catalog, conn, sources, up, task>> /\ (phase' = "stream" => phase = "stream")
        /\ conn \in Conns /\ toCollector[conn] # <<>>
        /\ toCollector' = [toCollector EXCEPT ![conn] = Tail(@)]
    BY <1>10 DEF ReceiveAck, Misread, Heads, LinkOnly, api, Types, LinkTypes
  <2>2. toCollector'[conn] = Tail(toCollector[conn])
    BY <2>1 DEF Types, WireTypes
  <2> QED
    BY <1>0, <2>1, <2>2, OrderedKept
<1>11. ASSUME NEW c \in Conns, SourceChanged(c) \/ TaskMisreads(c)
       PROVE  Ordered'
  <2>1. UNCHANGED <<catalog, conn, phase, sources, up, toCollector>>
    BY <1>11 DEF SourceChanged, TaskMisreads, TaskOnly, api
  <2>2. \A d \in Conns : /\ task'[d].active = task[d].active
                         /\ task'[d].phase \in {"push", "serve"} => task[d].phase \in {"push", "serve"}
    BY <1>11 DEF SourceChanged, TaskMisreads, Types, TaskTypes
  <2> QED
    BY <1>0, <2>1, <2>2, OrderedKept
<1>12. ASSUME NEW c \in Conns, TaskEnds(c)
       PROVE  Ordered'
  <2>1. /\ UNCHANGED <<catalog, conn, phase, sources, toCollector>>
        /\ \A d \in Conns : /\ up'[d] => d # c /\ up[d]
                            /\ d # c => task'[d] = task[d]
    BY <1>12 DEF TaskEnds, TaskOnly, api, Types, TaskTypes
  <2> QED
    BY <1>0, <2>1, OrderedKept
<1>13. CASE RestartAnalyzer
  <2>1. UNCHANGED <<catalog, conn, phase, sources, toCollector>> /\ \A c \in Conns : ~up'[c]
    BY <1>13 DEF RestartAnalyzer, collector
  <2> QED
    BY <1>0, <2>1, OrderedKept
<1>14. ASSUME NEW c \in Conns, Break(c)
       PROVE  Ordered'
  <2>1. /\ UNCHANGED <<catalog, conn, phase, sources, toCollector, task>>
        /\ \A d \in Conns : up'[d] => up[d]
    BY <1>14 DEF Break, api, collector, Types, TaskTypes
  <2> QED
    BY <1>0, <2>1, OrderedKept
<1>15. CASE \/ UNCHANGED vars \/ Cancel \/ BuildFilter \/ SnapshotChanged
            \/ \E s \in Source : Capture(s)
            \/ \E c \in Conns : ReceivePacket(c) \/ ReceiveStats(c)
  <2>1. UNCHANGED <<catalog, conn, phase, sources, up, toCollector, task>>
    BY <1>15
    DEF vars, api, wires, collector, Cancel, BuildFilter, SnapshotChanged, Capture, CaptureOnly,
        ReceivePacket, ReceiveStats, TaskOnly
  <2> QED
    BY <1>0, <2>1, OrderedKept
<1> QED
  BY <1>1, <1>2, <1>3, <1>4, <1>5, <1>6, <1>7, <1>8, <1>9, <1>10, <1>11, <1>12, <1>13, <1>14, <1>15
  DEF Next, Serve, Read

-----------------------------------------------------------------------------
(* Every step keeps the packets on the wires covered by what the tasks     *)
(* work with.                                                              *)

LEMMA CoveredKept ==
  ASSUME Types, Covered,
         \A c \in Conns : task'[c].active \in Nat /\
           \/ /\ task[c].active <= task'[c].active
              /\ \/ toAnalyzer'[c] = toAnalyzer[c]
                 \/ toAnalyzer[c] # <<>> /\ toAnalyzer'[c] = Tail(toAnalyzer[c])
           \/ toAnalyzer'[c] \in {<<>>, <<Hello>>}
  PROVE  Covered'
<1> SUFFICES ASSUME NEW c \in Conns
             PROVE  CapturedBy(toAnalyzer'[c], task'[c].active)
  BY DEF Covered, CapturedBy
<1>1. CASE toAnalyzer'[c] = <<>>
  BY <1>1 DEF CapturedBy
<1>2. CASE toAnalyzer'[c] = <<Hello>>
  <2>1. \A i \in DOMAIN <<Hello>> : <<Hello>>[i] = Hello
    OBVIOUS
  <2> QED
    BY <1>2, <2>1, FrameTypes DEF CapturedBy
<1>3. CASE /\ task[c].active <= task'[c].active
           /\ \/ toAnalyzer'[c] = toAnalyzer[c]
              \/ toAnalyzer[c] # <<>> /\ toAnalyzer'[c] = Tail(toAnalyzer[c])
  <2>1. toAnalyzer[c] \in Seq(ToAnalyzer) /\ task[c].active \in Nat /\ task'[c].active \in Nat
        /\ CapturedBy(toAnalyzer[c], task[c].active)
    BY Numbers DEF Types, WireTypes, Covered
  <2>2. toAnalyzer'[c] \in Seq(ToAnalyzer) /\ CapturedBy(toAnalyzer'[c], task[c].active)
    BY <1>3, <2>1, CapturedTail, TailOf
  <2> QED
    BY <1>3, <2>1, <2>2, CapturedHigher
<1> QED
  BY <1>1, <1>2, <1>3

\* How a step that puts no packet on a wire changes what is in flight to the
\* analyzer: sockets are untouched, opened, cleared, or lose their first frame.
Drains(c) ==
    \/ toAnalyzer'[c] = toAnalyzer[c]
    \/ toAnalyzer[c] # <<>> /\ toAnalyzer'[c] = Tail(toAnalyzer[c])
    \/ toAnalyzer'[c] \in {<<>>, <<Hello>>}

LEMMA OnlySendPacketSends ==
  ASSUME Types, Behind, [Next]_vars, ~SendPacket, ~Report
  PROVE  \A c \in Conns :
           /\ Drains(c)
           /\ task'[c].active \in Nat
           /\ task[c].active <= task'[c].active \/ toAnalyzer'[c] \in {<<>>, <<Hello>>}
<1> DEFINE Safe(c) == /\ Drains(c) /\ task'[c].active \in Nat
                      /\ task[c].active <= task'[c].active \/ toAnalyzer'[c] \in {<<>>, <<Hello>>}
<1>0. /\ catalog \in Nat /\ \A c \in Conns : task[c].active \in Nat /\ task[c].active <= catalog
      /\ toAnalyzer \in [Conns -> Seq(ToAnalyzer)]
      /\ task \in [Conns -> [phase : Phases, unseen : BOOLEAN, active : Versions, reading : Readings]]
  BY Numbers DEF Types, Behind, TaskTypes, WireTypes
<1>1. ASSUME Notify
      PROVE  \A d \in Conns : Safe(d)
  <2>1. \A c \in Conns : task'[c].active = task[c].active /\ toAnalyzer'[c] = toAnalyzer[c]
    BY <1>0, <1>1 DEF Notify, wires
  <2> QED
    BY <1>0, <2>1 DEF Drains
<1>2. ASSUME NEW c \in Conns, ServeHello(c) \/ TaskMisreads(c)
      PROVE  \A d \in Conns : Safe(d)
  <2>1. /\ toAnalyzer[c] # <<>> /\ toAnalyzer' = [toAnalyzer EXCEPT ![c] = Tail(@)]
        /\ \/ task' = [task EXCEPT ![c].phase = "load"]
           \/ \E r : task' = [task EXCEPT ![c].reading = r]
    BY <1>2 DEF ServeHello, TaskMisreads, Heads
  <2>2. \A d \in Conns : task'[d].active = task[d].active
    <3>1. CASE task' = [task EXCEPT ![c].phase = "load"]
      BY <1>0, <3>1
    <3>2. ASSUME NEW r, task' = [task EXCEPT ![c].reading = r]
          PROVE  \A d \in Conns : task'[d].active = task[d].active
      BY <1>0, <3>2
    <3> QED
      BY <2>1, <3>1, <3>2
  <2>3. \A d \in Conns : Drains(d)
    BY <1>0, <2>1 DEF Drains
  <2> QED
    BY <1>0, <2>2, <2>3
<1>3. ASSUME NEW c \in Conns, LoadSources(c)
      PROVE  \A d \in Conns : Safe(d)
  <2>1. /\ UNCHANGED toAnalyzer
        /\ \A d \in Conns : task'[d].active = IF d = c THEN catalog ELSE task[d].active
    BY <1>0, <1>3 DEF LoadSources, wires
  <2> QED
    BY <1>0, <2>1 DEF Drains
<1>4. ASSUME NEW c \in Conns, PushSources(c)
      PROVE  \A d \in Conns : Safe(d)
  <2>1. UNCHANGED toAnalyzer /\ \A d \in Conns : task'[d].active = task[d].active
    BY <1>0, <1>4 DEF PushSources
  <2> QED
    BY <1>0, <2>1 DEF Drains
<1>5. ASSUME NEW c \in Conns, SourceChanged(c)
      PROVE  \A d \in Conns : Safe(d)
  <2>1. PICK left \in Preempted(task[c].reading, toAnalyzer[c]) :
           /\ task' = [task EXCEPT ![c].phase = "load", ![c].unseen = FALSE, ![c].reading = left[1]]
           /\ toAnalyzer' = [toAnalyzer EXCEPT ![c] = left[2]]
    BY <1>5 DEF SourceChanged
  <2>2. left[2] = toAnalyzer[c] \/ (toAnalyzer[c] # <<>> /\ left[2] = Tail(toAnalyzer[c]))
    BY <1>0, PreemptedIs DEF Types
  <2>3. \A d \in Conns : toAnalyzer'[d] = IF d = c THEN left[2] ELSE toAnalyzer[d]
    BY <1>0, <2>1
  <2>4. \A d \in Conns : task'[d].active = task[d].active
    BY <1>0, <2>1
  <2> QED
    BY <1>0, <2>2, <2>3, <2>4 DEF Drains
<1>6. ASSUME NEW c \in Conns, ReceivePacket(c) \/ ReceiveStats(c)
      PROVE  \A d \in Conns : Safe(d)
  <2>1. /\ toAnalyzer[c] # <<>> /\ toAnalyzer' = [toAnalyzer EXCEPT ![c] = Tail(@)]
        /\ UNCHANGED task
    BY <1>6 DEF ReceivePacket, ReceiveStats, Heads
  <2> QED
    BY <1>0, <2>1 DEF Drains
<1>7. ASSUME NEW c \in Conns, TaskEnds(c)
      PROVE  \A d \in Conns : Safe(d)
  <2>1. \A d \in Conns : /\ toAnalyzer'[d] = IF d = c THEN <<>> ELSE toAnalyzer[d]
                         /\ task'[d].active = IF d = c THEN 0 ELSE task[d].active
    BY <1>0, <1>7 DEF TaskEnds, Idle
  <2> QED
    BY <1>0, <2>1 DEF Drains
<1>8. ASSUME NEW c \in Conns, Connect(c)
      PROVE  \A d \in Conns : Safe(d)
  <2>1. [Idle EXCEPT !.phase = "hello", !.unseen = revised].active = 0
    BY DEF Idle
  <2>2. /\ task' = [task EXCEPT ![c] = [Idle EXCEPT !.phase = "hello", !.unseen = revised]]
        /\ toAnalyzer' = [toAnalyzer EXCEPT ![c] = <<Hello>>]
    BY <1>8 DEF Connect
  <2>3. \A d \in Conns : toAnalyzer'[d] = IF d = c THEN <<Hello>> ELSE toAnalyzer[d]
    BY <1>0, <2>2
  <2>4. \A d \in Conns : task'[d].active = IF d = c THEN 0 ELSE task[d].active
    BY <1>0, <2>1, <2>2
  <2> QED
    BY <1>0, <2>3, <2>4 DEF Drains
<1>9. ASSUME RestartAnalyzer
      PROVE  \A d \in Conns : Safe(d)
  <2>1. \A d \in Conns : toAnalyzer'[d] = <<>> /\ task'[d].active = 0
    BY <1>9 DEF RestartAnalyzer, Idle
  <2> QED
    BY <2>1 DEF Drains
<1>10. ASSUME \/ UNCHANGED vars \/ Commit \/ Cancel \/ Read \/ Disconnect \/ BuildFilter
              \/ SnapshotChanged \/ HandshakeTimeout \/ RestartCollector
              \/ \E s \in Source : Capture(s)
              \/ \E c \in Conns : Break(c)
       PROVE  \A d \in Conns : Safe(d)
  <2>1. UNCHANGED <<task, toAnalyzer>>
    BY <1>10
    DEF vars, wires, Commit, Cancel, Read, ReceiveAck, ReceiveSources, Misread, LinkOnly, Disconnect,
        HangUp, BuildFilter, SnapshotChanged, CaptureOnly, HandshakeTimeout, RestartCollector,
        Capture, Break
  <2> QED
    BY <1>0, <2>1 DEF Drains
<1>11. \A c \in Conns : Drains(c) /\ task'[c].active \in Nat /\
         (task[c].active <= task'[c].active \/ toAnalyzer'[c] \in {<<>>, <<Hello>>}) <=> Safe(c)
  OBVIOUS
<1> HIDE DEF Safe
<1>12. \A c \in Conns : Safe(c)
  BY <1>1, <1>2, <1>3, <1>4, <1>5, <1>6, <1>7, <1>8, <1>9, <1>10 DEF Next, Serve
<1> QED
  BY <1>11, <1>12

\* A report or a packet goes on the current connection, if that is up.
LEMMA Transmitted ==
  ASSUME Types, NEW frame \in ToAnalyzer, Transmit(frame)
  PROVE  /\ conn \in Conns /\ phase = "stream" /\ UNCHANGED task
         /\ \A c \in Conns : c # conn \/ ~up[c] => toAnalyzer'[c] = toAnalyzer[c]
         /\ up[conn] => toAnalyzer'[conn] = Append(toAnalyzer[conn], frame)
  BY DEF Transmit, Write, LinkOnly, Types, LinkTypes, WireTypes

LEMMA Sent ==
  ASSUME Types, SendPacket \/ Report
  PROVE  \E frame \in ToAnalyzer :
           /\ Transmit(frame)
           /\ \/ SendPacket /\ queue # <<>> /\ queue' = Tail(queue) /\ frame = Head(queue)
                 /\ frame = queue[1] /\ 1 \in DOMAIN queue /\ frame \in Packet
              \/ frame = Stats /\ UNCHANGED queue
<1>1. CASE SendPacket
  <2>1. queue # <<>> => Head(queue) \in Packet /\ Head(queue) = queue[1] /\ 1 \in DOMAIN queue
    BY TailOf, LenProperties DEF Types, CaptureTypes
  <2> QED
    BY <1>1, <2>1, FrameTypes DEF SendPacket
<1>2. CASE Report
  BY <1>2, FrameTypes DEF Report
<1> QED
  BY <1>1, <1>2

LEMMA NextCovered ==
  ASSUME Types, Behind, Ordered, Covered, [Next]_vars
  PROVE  Covered'
<1>1. CASE SendPacket \/ Report
  <2>1. PICK frame \in ToAnalyzer :
           Transmit(frame) /\ (frame = Stats \/ (frame = queue[1] /\ 1 \in DOMAIN queue))
    BY <1>1, Sent
  <2>2. /\ conn \in Conns /\ phase = "stream" /\ UNCHANGED task
        /\ \A c \in Conns : c # conn \/ ~up[c] => toAnalyzer'[c] = toAnalyzer[c]
        /\ up[conn] => toAnalyzer'[conn] = Append(toAnalyzer[conn], frame)
    BY <2>1, Transmitted
  <2>3. ASSUME up[conn]
        PROVE  CapturedBy(Append(toAnalyzer[conn], frame), task[conn].active)
    <3>1. sources <= task[conn].active
      BY <2>2, <2>3 DEF Ordered
    <3>2. frame.type = "packet" => frame.under <= task[conn].active
      BY <2>1, <2>2, <3>1, Numbers, FrameTypes DEF Behind
    <3>3. toAnalyzer[conn] \in Seq(ToAnalyzer) /\ CapturedBy(toAnalyzer[conn], task[conn].active)
      BY <2>2 DEF Types, WireTypes, Covered
    <3> QED
      BY <3>2, <3>3, CapturedAppend
  <2> SUFFICES ASSUME NEW c \in Conns
               PROVE  CapturedBy(toAnalyzer'[c], task[c].active)
    BY <2>2 DEF Covered, CapturedBy
  <2>4. CASE c # conn \/ ~up[c]
    BY <2>2, <2>4 DEF Covered
  <2>5. CASE c = conn /\ up[c]
    BY <2>2, <2>3, <2>5
  <2> QED
    BY <2>4, <2>5
<1>2. CASE ~SendPacket /\ ~Report
  BY <1>2, OnlySendPacketSends, CoveredKept DEF Drains
<1> QED
  BY <1>1, <1>2

-----------------------------------------------------------------------------
(* Every step keeps each packet in one place. *)

\* What a step does to the queue: nothing, or it takes the first packet, drops
\* all, or adds one with the next number.
LEMMA QueueStep ==
  ASSUME Types, [Next]_vars
  PROVE  /\ shown' \in Nat /\ shown <= shown'
         /\ \/ queue' = queue
            \/ queue # <<>> /\ queue' = Tail(queue)
            \/ queue' = <<>>
            \/ \E p \in Packet : queue' = Append(queue, p) /\ p.n = shown + 1 /\ p.n <= shown'
<1>0. shown \in Nat
  BY ConstantTypes DEF Types, CaptureTypes
<1>1. ASSUME NEW s \in Source, Capture(s)
      PROVE  /\ shown' = shown + 1
             /\ \/ queue' = queue
                \/ \E p \in Packet : queue' = Append(queue, p) /\ p.n = shown + 1
  <2> DEFINE p == [type |-> "packet", n |-> shown + 1, source |-> s, under |-> filter]
  <2>1. shown' = shown + 1 /\ shown < mishap.packets
        /\ (queue' = queue \/ queue' = Append(queue, p))
    BY <1>1 DEF Capture
  <2>2. p \in Packet
    BY <1>0, <2>1, ConstantTypes DEF Types, CaptureTypes, MishapTypes, Packet
  <2>3. p.n = shown + 1
    OBVIOUS
  <2> QED
    BY <2>1, <2>2, <2>3
<1>2. CASE SendPacket
  BY <1>0, <1>2 DEF SendPacket, Transmit, LinkOnly, capture
<1>3. CASE RestartCollector
  BY <1>0, <1>3 DEF RestartCollector
<1>4. CASE UNCHANGED <<queue, shown>>
  BY <1>0, <1>4
<1>5. CASE \E s \in Source : Capture(s)
  BY <1>0, <1>1, <1>5
<1> QED
  BY <1>2, <1>3, <1>4, <1>5
  DEF Next, vars, capture, Commit, Notify, Cancel, Serve, ServeHello, LoadSources, PushSources,
      SourceChanged, ReceivePacket, ReceiveStats, TaskMisreads, TaskOnly, TaskEnds, Connect,
      LinkOnly, Break, Read, ReceiveAck, ReceiveSources, Misread, Transmit, Report, Disconnect,
      HangUp, BuildFilter, SnapshotChanged, CaptureOnly, HandshakeTimeout, RestartAnalyzer

LEMMA NextQueue ==
  ASSUME Types, QueueOrdered, [Next]_vars
  PROVE  /\ QueueOrdered'
         /\ \A n \in Nat : Gone(n) => n <= shown' /\ \A j \in DOMAIN queue' : n < queue'[j].n
<1>0. /\ shown \in Nat /\ shown' \in Nat /\ shown <= shown'
      /\ queue \in Seq(Packet) /\ \A i \in DOMAIN queue : queue[i] \in Packet /\ queue[i].n \in Nat
  <2>1. queue \in Seq(Packet) /\ \A i \in DOMAIN queue : queue[i] \in Packet
    BY ElementOfSeq, LenProperties DEF Types, CaptureTypes
  <2>2. \A p \in Packet : p.n \in Nat
    BY ConstantTypes DEF Packet
  <2> QED
    BY <2>1, <2>2, QueueStep, ConstantTypes DEF Types, CaptureTypes
<1>1. CASE queue' = queue
  BY <1>0, <1>1 DEF QueueOrdered, Gone
<1>2. CASE queue # <<>> /\ queue' = Tail(queue)
  <2>1. /\ \A i \in DOMAIN Tail(queue) :
             i \in Int /\ i + 1 \in DOMAIN queue /\ Tail(queue)[i] = queue[i + 1]
    BY <1>0, <1>2, TailOf, LenProperties
  <2>2. QueueOrdered'
    <3>1. \A i \in DOMAIN queue' : queue'[i].n <= shown'
      BY <1>0, <1>2, <2>1 DEF QueueOrdered
    <3>2. ASSUME NEW i \in DOMAIN queue', NEW j \in DOMAIN queue', i < j
          PROVE  queue'[i].n < queue'[j].n
      BY <1>0, <1>2, <2>1, <3>2 DEF QueueOrdered
    <3> QED
      BY <3>1, <3>2 DEF QueueOrdered
  <2> QED
    BY <1>0, <1>2, <2>1, <2>2 DEF Gone
<1>3. CASE queue' = <<>>
  BY <1>0, <1>3 DEF QueueOrdered, Gone
<1>4. ASSUME NEW p \in Packet, queue' = Append(queue, p), p.n = shown + 1, p.n <= shown'
      PROVE  /\ QueueOrdered'
             /\ \A n \in Nat : Gone(n) => n <= shown' /\ \A j \in DOMAIN queue' : n < queue'[j].n
  <2>1. /\ Len(queue) \in Nat /\ DOMAIN queue = 1 .. Len(queue)
        /\ DOMAIN queue' = 1 .. Len(queue) + 1
        /\ \A i \in 1 .. Len(queue) : queue'[i] = queue[i]
        /\ queue'[Len(queue) + 1] = p
    BY <1>0, <1>4, AppendProperties, LenProperties
  <2>2. \A i \in DOMAIN queue' : queue'[i].n <= shown' /\ queue'[i].n \in Nat
    BY <1>0, <1>4, <2>1 DEF QueueOrdered
  <2>3. ASSUME NEW i \in DOMAIN queue', NEW j \in DOMAIN queue', i < j
        PROVE  queue'[i].n < queue'[j].n
    <3>1. CASE j = Len(queue) + 1
      BY <1>0, <1>4, <2>1, <2>3, <3>1 DEF QueueOrdered
    <3>2. CASE j \in DOMAIN queue
      BY <1>0, <2>1, <2>3, <3>2 DEF QueueOrdered
    <3> QED
      BY <2>1, <3>1, <3>2
  <2>4. ASSUME NEW n \in Nat, Gone(n)
        PROVE  n <= shown' /\ \A j \in DOMAIN queue' : n < queue'[j].n
    BY <1>0, <1>4, <2>1, <2>4 DEF Gone
  <2> QED
    BY <2>2, <2>3, <2>4 DEF QueueOrdered
<1> QED
  BY <1>1, <1>2, <1>3, <1>4, QueueStep

\* The packets a draining step leaves on a wire were there, all as far ahead.
LEMMA DrainsShift ==
  ASSUME Types, NEW c \in Conns, Drains(c)
  PROVE  \E o \in {0, 1} : \A i \in DOMAIN toAnalyzer'[c] : toAnalyzer'[c][i].type = "packet" =>
           i \in Nat /\ i + o \in DOMAIN toAnalyzer[c] /\ toAnalyzer'[c][i] = toAnalyzer[c][i + o]
<1>0. toAnalyzer[c] \in Seq(ToAnalyzer) /\ \A i \in DOMAIN toAnalyzer[c] : i \in Nat
  BY LenProperties DEF Types, WireTypes
<1>1. CASE toAnalyzer'[c] = toAnalyzer[c]
  BY <1>0, <1>1
<1>2. CASE toAnalyzer[c] # <<>> /\ toAnalyzer'[c] = Tail(toAnalyzer[c])
  <2>1. \A i \in DOMAIN Tail(toAnalyzer[c]) : i \in Nat
    BY <1>0, <1>2, TailOf, LenProperties
  <2> QED
    BY <1>0, <1>2, <2>1, TailOf
<1>3. CASE toAnalyzer'[c] = <<>>
  BY <1>3
<1>4. CASE toAnalyzer'[c] = <<Hello>>
  <2>1. \A i \in DOMAIN <<Hello>> : <<Hello>>[i] = Hello
    OBVIOUS
  <2> QED
    BY <1>4, <2>1, FrameTypes
<1> QED
  BY <1>1, <1>2, <1>3, <1>4 DEF Drains

LEMMA PacketNumbers ==
  ASSUME Types
  PROVE  \A c \in Conns : \A i \in DOMAIN toAnalyzer[c] :
           IsPacket(c, i) => toAnalyzer[c][i] \in Packet /\ toAnalyzer[c][i].n \in Nat
<1>1. \A c \in Conns : \A i \in DOMAIN toAnalyzer[c] : toAnalyzer[c][i] \in ToAnalyzer
  BY ElementOfSeq, LenProperties DEF Types, WireTypes
<1>2. \A p \in Packet : p.n \in Nat
  BY ConstantTypes DEF Packet
<1> QED
  BY <1>1, <1>2, FrameTypes DEF IsPacket

\* A step that only drains the wires, and delivers only what it takes off one.
LEMMA DrainedSentOnce ==
  ASSUME Types, QueueOrdered, SentOnce, [Next]_vars, \A c \in Conns : Drains(c),
         \/ delivered' = delivered
         \/ \E c \in Conns : /\ IsPacket(c, 1) /\ toAnalyzer'[c] = Tail(toAnalyzer[c])
                             /\ delivered' = Append(delivered, toAnalyzer[c][1].n)
  PROVE  SentOnce'
<1> DEFINE WasAt(c, i, o) == /\ i \in Nat /\ i + o \in DOMAIN toAnalyzer[c]
                             /\ toAnalyzer'[c][i] = toAnalyzer[c][i + o]
           Shift(c, o) == \A i \in DOMAIN toAnalyzer'[c] :
                             toAnalyzer'[c][i].type = "packet" => WasAt(c, i, o)
<1>0. \A c \in Conns : \E o \in {0, 1} : Shift(c, o)
  BY DrainsShift
<1> SUFFICES ASSUME NEW c \in Conns, NEW i \in DOMAIN toAnalyzer'[c],
                    toAnalyzer'[c][i].type = "packet"
             PROVE  /\ toAnalyzer'[c][i].n <= shown'
                    /\ \A j \in DOMAIN queue' : toAnalyzer'[c][i].n < queue'[j].n
                    /\ \A k \in DOMAIN delivered' : delivered'[k] # toAnalyzer'[c][i].n
                    /\ \A d \in Conns : \A j \in DOMAIN toAnalyzer'[d] :
                          toAnalyzer'[d][j].type = "packet"
                          /\ toAnalyzer'[d][j].n = toAnalyzer'[c][i].n => d = c /\ j = i
  BY DEF SentOnce, IsPacket, Gone
<1>1. PICK o \in {0, 1} : Shift(c, o)
  BY <1>0
<1>2. WasAt(c, i, o) /\ IsPacket(c, i + o)
  BY <1>1 DEF IsPacket
<1>3. toAnalyzer'[c][i].n \in Nat /\ toAnalyzer'[c][i].n = toAnalyzer[c][i + o].n
  BY <1>2, PacketNumbers
<1>4. /\ Gone(toAnalyzer[c][i + o].n)
      /\ \A k \in DOMAIN delivered : delivered[k] # toAnalyzer[c][i + o].n
      /\ \A d \in Conns : \A j \in DOMAIN toAnalyzer[d] :
            IsPacket(d, j) /\ toAnalyzer[d][j].n = toAnalyzer[c][i + o].n => d = c /\ j = i + o
  BY <1>2 DEF SentOnce
<1>5. toAnalyzer'[c][i].n <= shown' /\ \A j \in DOMAIN queue' : toAnalyzer'[c][i].n < queue'[j].n
  BY <1>3, <1>4, NextQueue
<1>6. ASSUME NEW d \in Conns, NEW j \in DOMAIN toAnalyzer'[d],
             toAnalyzer'[d][j].type = "packet", toAnalyzer'[d][j].n = toAnalyzer'[c][i].n
      PROVE  d = c /\ j = i
  <2>1. PICK q \in {0, 1} : Shift(d, q)
    BY <1>0
  <2>2. WasAt(d, j, q) /\ IsPacket(d, j + q)
    BY <1>6, <2>1 DEF IsPacket
  <2>3. d = c /\ j + q = i + o
    BY <1>3, <1>4, <1>6, <2>2
  <2>4. WasAt(c, j, o)
    BY <1>1, <1>6, <2>3
  <2>5. IsPacket(c, j + o) /\ toAnalyzer[c][j + o].n = toAnalyzer[c][i + o].n
    BY <1>3, <1>6, <2>3, <2>4 DEF IsPacket
  <2>6. j + o = i + o
    BY <1>4, <2>4, <2>5
  <2> QED
    BY <1>2, <2>3, <2>4, <2>6
<1>7. ASSUME NEW k \in DOMAIN delivered'
      PROVE  delivered'[k] # toAnalyzer'[c][i].n
  <2>1. CASE delivered' = delivered
    BY <1>3, <1>4, <1>7, <2>1
  <2>2. ASSUME NEW d \in Conns, IsPacket(d, 1), toAnalyzer'[d] = Tail(toAnalyzer[d]),
               delivered' = Append(delivered, toAnalyzer[d][1].n)
        PROVE  delivered'[k] # toAnalyzer'[c][i].n
    <3>1. delivered \in Seq(1 .. Packets)
      BY DEF Types, CaptureTypes
    <3>2. /\ Len(delivered) \in Nat /\ DOMAIN delivered = 1 .. Len(delivered)
          /\ toAnalyzer[d][1].n \in 1 .. Packets
      BY <2>2, <3>1, PacketNumbers, LenProperties DEF IsPacket, Packet
    <3>3. \/ k \in DOMAIN delivered /\ delivered'[k] = delivered[k]
          \/ delivered'[k] = toAnalyzer[d][1].n
      <4> DEFINE n == toAnalyzer[d][1].n
      <4>1. k \in DOMAIN Append(delivered, n) /\ delivered'[k] = Append(delivered, n)[k]
        BY <1>7, <2>2
      <4>2. n \in 1 .. Packets
        BY <3>2
      <4> HIDE DEF n
      <4>3. (k \in DOMAIN delivered /\ delivered'[k] = delivered[k]) \/ delivered'[k] = n
        BY <3>1, <4>1, <4>2, AppendedIs
      <4> QED
        BY <4>3 DEF n
    <3>4. ASSUME toAnalyzer[d][1].n = toAnalyzer[c][i + o].n
          PROVE  FALSE
      <4>1. d = c /\ 1 = i + o
        BY <1>4, <2>2, <3>4 DEF IsPacket
      <4>2. toAnalyzer[c] # <<>> /\ toAnalyzer[c] \in Seq(ToAnalyzer)
        BY <2>2, <4>1, EmptySeq DEF IsPacket, Types, WireTypes
      <4>3. i \in DOMAIN Tail(toAnalyzer[c]) /\ toAnalyzer'[c][i] = Tail(toAnalyzer[c])[i]
        BY <2>2, <4>1
      <4>4. i \in Nat \ {0} /\ i + 1 \in DOMAIN toAnalyzer[c]
            /\ toAnalyzer'[c][i] = toAnalyzer[c][i + 1]
        <5>1. DOMAIN Tail(toAnalyzer[c]) = 1 .. Len(Tail(toAnalyzer[c]))
              /\ Len(Tail(toAnalyzer[c])) \in Nat
          BY <4>2, TailOf, LenProperties
        <5> QED
          BY <4>2, <4>3, <5>1, TailOf
      <4>5. IsPacket(c, i + 1) /\ toAnalyzer[c][i + 1].n = toAnalyzer[c][i + o].n
        BY <1>3, <4>4 DEF IsPacket
      <4>6. i + 1 = i + o
        BY <1>4, <4>4, <4>5
      <4> QED
        BY <4>1, <4>4, <4>6
    <3> QED
      BY <1>3, <1>4, <3>3, <3>4
  <2> QED
    BY <2>1, <2>2
<1> QED
  BY <1>5, <1>6, <1>7

\* A packet that is sent was the first of the queue, so no wire has it and no
\* worker.
LEMMA SendingSentOnce ==
  ASSUME Types, QueueOrdered, SentOnce, DeliveredOnce, SendPacket \/ Report, [Next]_vars
  PROVE  SentOnce'
<1>1. PICK frame \in ToAnalyzer :
         /\ Transmit(frame)
         /\ \/ SendPacket /\ queue # <<>> /\ queue' = Tail(queue) /\ frame = Head(queue)
               /\ frame = queue[1] /\ 1 \in DOMAIN queue /\ frame \in Packet
            \/ frame = Stats /\ UNCHANGED queue
  BY Sent
<1>2. /\ conn \in Conns
      /\ \A c \in Conns : c # conn \/ ~up[c] => toAnalyzer'[c] = toAnalyzer[c]
      /\ up[conn] => toAnalyzer'[conn] = Append(toAnalyzer[conn], frame)
      /\ UNCHANGED <<delivered, shown>>
  BY <1>1, Transmitted DEF Transmit, LinkOnly, capture
<1>3. \A c \in Conns : toAnalyzer[c] \in Seq(ToAnalyzer) /\ \A i \in DOMAIN toAnalyzer[c] : i \in Nat
  BY LenProperties DEF Types, WireTypes
\* A packet on a wire was there, or is the one that is sent.
<1>4. ASSUME NEW c \in Conns, NEW i \in DOMAIN toAnalyzer'[c], toAnalyzer'[c][i].type = "packet"
      PROVE  \/ IsPacket(c, i) /\ toAnalyzer'[c][i] = toAnalyzer[c][i]
             \/ /\ c = conn /\ i = Len(toAnalyzer[conn]) + 1 /\ toAnalyzer'[c][i] = frame
                /\ frame \in Packet /\ frame = queue[1] /\ queue' = Tail(queue) /\ queue # <<>>
                /\ 1 \in DOMAIN queue
  <2>1. CASE toAnalyzer'[c] = toAnalyzer[c]
    BY <1>4, <2>1 DEF IsPacket
  <2>2. CASE c = conn /\ toAnalyzer'[c] = Append(toAnalyzer[c], frame)
    <3>1. \/ i \in DOMAIN toAnalyzer[c] /\ toAnalyzer'[c][i] = toAnalyzer[c][i]
          \/ i = Len(toAnalyzer[c]) + 1 /\ toAnalyzer'[c][i] = frame
      BY <1>3, <1>4, <2>2, AppendedIs
    <3>2. frame.type = "packet" => frame # Stats
      BY FrameTypes
    <3> QED
      BY <1>1, <1>4, <2>2, <3>1, <3>2 DEF IsPacket
  <2> QED
    BY <1>2, <2>1, <2>2
<1>5. \A c \in Conns : \A i \in DOMAIN toAnalyzer[c] : IsPacket(c, i) =>
        /\ toAnalyzer[c][i].n \in Nat
        /\ Gone(toAnalyzer[c][i].n)
        /\ \A k \in DOMAIN delivered : delivered[k] # toAnalyzer[c][i].n
        /\ \A d \in Conns : \A j \in DOMAIN toAnalyzer[d] :
              IsPacket(d, j) /\ toAnalyzer[d][j].n = toAnalyzer[c][i].n => d = c /\ j = i
  BY PacketNumbers DEF SentOnce
\* The one that is sent is behind every other, and before those in the queue.
<1>6. ASSUME frame \in Packet, frame = queue[1], queue' = Tail(queue), queue # <<>>,
             1 \in DOMAIN queue
      PROVE  /\ frame.n \in Nat /\ frame.n <= shown'
             /\ \A j \in DOMAIN queue' : frame.n < queue'[j].n
             /\ \A k \in DOMAIN delivered : delivered[k] # frame.n
             /\ \A d \in Conns : \A j \in DOMAIN toAnalyzer[d] :
                   IsPacket(d, j) => toAnalyzer[d][j].n # frame.n
  <2>1. frame.n \in Nat
    BY <1>6, ConstantTypes DEF Packet
  <2>2. \A j \in DOMAIN Tail(queue) : j + 1 \in DOMAIN queue /\ Tail(queue)[j] = queue[j + 1]
                                      /\ 1 < j + 1
    <3>1. /\ \A j \in DOMAIN Tail(queue) : j + 1 \in DOMAIN queue /\ Tail(queue)[j] = queue[j + 1]
          /\ Tail(queue) \in Seq(Packet)
      BY <1>6, TailOf DEF Types, CaptureTypes
    <3> QED
      BY <3>1, LenProperties
  <2>3. \A j \in DOMAIN queue' : frame.n < queue'[j].n
    BY <1>6, <2>2 DEF QueueOrdered
  <2>4. \A n \in Nat : Gone(n) => n # frame.n
    BY <1>6, <2>1 DEF Gone
  <2>5. \A k \in DOMAIN delivered : delivered[k] \in Nat /\ Gone(delivered[k])
    BY ElementOfSeq, LenProperties, ConstantTypes DEF Types, CaptureTypes, DeliveredOnce
  <2> QED
    BY <1>2, <1>5, <1>6, <2>1, <2>3, <2>4, <2>5 DEF QueueOrdered
<1> SUFFICES ASSUME NEW c \in Conns, NEW i \in DOMAIN toAnalyzer'[c],
                    toAnalyzer'[c][i].type = "packet"
             PROVE  /\ toAnalyzer'[c][i].n <= shown'
                    /\ \A j \in DOMAIN queue' : toAnalyzer'[c][i].n < queue'[j].n
                    /\ \A k \in DOMAIN delivered' : delivered'[k] # toAnalyzer'[c][i].n
                    /\ \A d \in Conns : \A j \in DOMAIN toAnalyzer'[d] :
                          toAnalyzer'[d][j].type = "packet"
                          /\ toAnalyzer'[d][j].n = toAnalyzer'[c][i].n => d = c /\ j = i
  BY DEF SentOnce, IsPacket, Gone
<1>7. CASE IsPacket(c, i) /\ toAnalyzer'[c][i] = toAnalyzer[c][i]
  <2>1. i \in DOMAIN toAnalyzer[c]
    BY <1>7 DEF IsPacket
  <2>2. toAnalyzer'[c][i].n <= shown' /\ \A j \in DOMAIN queue' : toAnalyzer'[c][i].n < queue'[j].n
    BY <1>5, <1>7, <2>1, NextQueue
  <2>3. ASSUME NEW d \in Conns, NEW j \in DOMAIN toAnalyzer'[d],
               toAnalyzer'[d][j].type = "packet", toAnalyzer'[d][j].n = toAnalyzer'[c][i].n
        PROVE  d = c /\ j = i
    <3>1. CASE IsPacket(d, j) /\ toAnalyzer'[d][j] = toAnalyzer[d][j]
      <4>1. j \in DOMAIN toAnalyzer[d] /\ toAnalyzer[d][j].n = toAnalyzer[c][i].n
        BY <1>7, <2>3, <3>1 DEF IsPacket
      <4> QED
        BY <1>5, <1>7, <2>1, <3>1, <4>1
    <3>2. CASE /\ toAnalyzer'[d][j] = frame /\ frame \in Packet /\ frame = queue[1]
               /\ queue' = Tail(queue) /\ queue # <<>> /\ 1 \in DOMAIN queue
      BY <1>6, <1>7, <2>1, <2>3, <3>2
    <3> QED
      BY <1>4, <2>3, <3>1, <3>2
  <2> QED
    BY <1>2, <1>5, <1>7, <2>1, <2>2, <2>3
<1>8. CASE /\ c = conn /\ i = Len(toAnalyzer[conn]) + 1 /\ toAnalyzer'[c][i] = frame
           /\ frame \in Packet /\ frame = queue[1] /\ queue' = Tail(queue) /\ queue # <<>>
           /\ 1 \in DOMAIN queue
  <2>1. ASSUME NEW d \in Conns, NEW j \in DOMAIN toAnalyzer'[d],
               toAnalyzer'[d][j].type = "packet", toAnalyzer'[d][j].n = toAnalyzer'[c][i].n
        PROVE  d = c /\ j = i
    <3>1. ~(IsPacket(d, j) /\ toAnalyzer'[d][j] = toAnalyzer[d][j])
      BY <1>6, <1>8, <2>1 DEF IsPacket
    <3> QED
      BY <1>4, <1>8, <2>1, <3>1
  <2> QED
    BY <1>2, <1>6, <1>8, <2>1
<1> QED
  BY <1>4, <1>7, <1>8

\* What a worker is handed is the first packet of a wire, which leaves it.
LEMMA NextDelivered ==
  ASSUME Types, [Next]_vars
  PROVE  \/ delivered' = delivered
         \/ \E c \in Conns : /\ IsPacket(c, 1) /\ toAnalyzer'[c] = Tail(toAnalyzer[c])
                             /\ delivered' = Append(delivered, toAnalyzer[c][1].n)
<1>1. ASSUME NEW c \in Conns, ReceivePacket(c), delivered' # delivered
      PROVE  /\ IsPacket(c, 1) /\ toAnalyzer'[c] = Tail(toAnalyzer[c])
             /\ delivered' = Append(delivered, toAnalyzer[c][1].n)
  <2>1. toAnalyzer[c] # <<>> /\ toAnalyzer[c] \in Seq(ToAnalyzer) /\ toAnalyzer \in [Conns -> Seq(ToAnalyzer)]
    BY <1>1 DEF ReceivePacket, Heads, Types, WireTypes
  <2>2. Head(toAnalyzer[c]) = toAnalyzer[c][1] /\ 1 \in DOMAIN toAnalyzer[c]
    BY <2>1, TailOf, LenProperties
  <2> QED
    BY <1>1, <2>1, <2>2 DEF ReceivePacket, Heads, IsPacket
<1>2. (\A c \in Conns : ~ReceivePacket(c)) => delivered' = delivered
  BY DEF Next, vars, capture, Commit, Notify, Cancel, Serve, ServeHello, LoadSources, PushSources,
      SourceChanged, ReceiveStats, TaskMisreads, TaskEnds, Connect, SendPacket, Capture,
      LinkOnly, Break, Read, ReceiveAck, ReceiveSources, Misread, Transmit, Report, Disconnect,
      HangUp, BuildFilter, SnapshotChanged, CaptureOnly, HandshakeTimeout, RestartAnalyzer,
      RestartCollector
<1> QED
  BY <1>1, <1>2

LEMMA NextSentOnce ==
  ASSUME Types, Behind, QueueOrdered, SentOnce, DeliveredOnce, [Next]_vars
  PROVE  SentOnce'
<1>1. CASE SendPacket \/ Report
  BY <1>1, SendingSentOnce
<1>2. CASE ~SendPacket /\ ~Report
  <2>1. \A c \in Conns : Drains(c)
    BY <1>2, OnlySendPacketSends
  <2>2. \/ delivered' = delivered
        \/ \E c \in Conns : /\ IsPacket(c, 1) /\ toAnalyzer'[c] = Tail(toAnalyzer[c])
                            /\ delivered' = Append(delivered, toAnalyzer[c][1].n)
    BY NextDelivered
  <2> QED
    BY <2>1, <2>2, DrainedSentOnce
<1> QED
  BY <1>1, <1>2

LEMMA NextDeliveredOnce ==
  ASSUME Types, QueueOrdered, SentOnce, DeliveredOnce, [Next]_vars
  PROVE  DeliveredOnce'
<1>0. /\ \A k \in DOMAIN delivered : delivered[k] \in Nat /\ delivered[k] \in 1 .. Packets
      /\ delivered \in Seq(1 .. Packets)
  BY ElementOfSeq, LenProperties, ConstantTypes DEF Types, CaptureTypes
<1>1. \A n \in Nat : Gone(n) => n <= shown' /\ \A j \in DOMAIN queue' : n < queue'[j].n
  BY NextQueue
<1>2. CASE delivered' = delivered
  BY <1>0, <1>1, <1>2 DEF DeliveredOnce, AtMostOnce, Gone
<1>3. ASSUME NEW c \in Conns, IsPacket(c, 1), delivered' = Append(delivered, toAnalyzer[c][1].n)
      PROVE  DeliveredOnce'
  <2> DEFINE n == toAnalyzer[c][1].n
  <2>1. /\ n \in Nat /\ n \in 1 .. Packets /\ Gone(n)
        /\ \A k \in DOMAIN delivered : delivered[k] # n
    BY <1>3, PacketNumbers DEF IsPacket, SentOnce, Packet
  <2>2. /\ DOMAIN delivered = 1 .. Len(delivered) /\ DOMAIN delivered' = 1 .. Len(delivered) + 1
        /\ \A k \in DOMAIN delivered' : (k \in DOMAIN delivered /\ delivered'[k] = delivered[k])
                                        \/ (k = Len(delivered) + 1 /\ delivered'[k] = n)
    BY <1>0, <1>3, <2>1, AppendedIs
  <2> HIDE DEF n
  <2>3. AtMostOnce'
    BY <2>1, <2>2 DEF AtMostOnce, DeliveredOnce
  <2>4. \A k \in DOMAIN delivered' : delivered'[k] <= shown'
          /\ \A j \in DOMAIN queue' : delivered'[k] < queue'[j].n
    BY <1>0, <1>1, <2>1, <2>2 DEF DeliveredOnce
  <2> QED
    BY <2>3, <2>4 DEF DeliveredOnce, Gone
<1> QED
  BY <1>2, <1>3, NextDelivered

-----------------------------------------------------------------------------
(* Every step keeps a collector offline that no task has greeted. *)

LEMMA NextOffline ==
  ASSUME Types, OfflineShown, [Next]_vars
  PROVE  OfflineShown'
<1>0. task \in [Conns -> [phase : Phases, unseen : BOOLEAN, active : Versions, reading : Readings]]
      /\ registry \in BOOLEAN
  BY DEF Types, TaskTypes
\* Tasks whose phase is only moved among the greeted ones, or not at all.
<1>1. ASSUME UNCHANGED registry,
             \A c \in Conns : task'[c].phase \in {"none", "hello"} => task[c].phase \in {"none", "hello"}
      PROVE  OfflineShown'
  BY <1>1 DEF OfflineShown
<1>2. ASSUME UNCHANGED <<registry, task>>
      PROVE  OfflineShown'
  BY <1>2 DEF OfflineShown
<1>3. CASE Notify
  <2>1. \A c \in Conns : task'[c].phase = task[c].phase
    BY <1>0, <1>3 DEF Notify
  <2> QED
    BY <1>1, <1>3, <2>1 DEF Notify
<1>4. ASSUME NEW c \in Conns, ServeHello(c)
      PROVE  OfflineShown'
  <2>1. task'[c].phase = "load"
    BY <1>0, <1>4 DEF ServeHello
  <2> QED
    BY <2>1 DEF OfflineShown
<1>5. ASSUME NEW c \in Conns, LoadSources(c) \/ PushSources(c) \/ SourceChanged(c)
      PROVE  OfflineShown'
  <2>1. UNCHANGED registry
    BY <1>5 DEF LoadSources, PushSources, SourceChanged
  <2>2. \A d \in Conns : d # c => task'[d] = task[d]
    BY <1>0, <1>5 DEF LoadSources, PushSources, SourceChanged
  <2>3. task'[c].phase \in {"push", "serve", "load"}
    BY <1>0, <1>5 DEF LoadSources, PushSources, SourceChanged
  <2> QED
    BY <1>1, <2>1, <2>2, <2>3
<1>6. ASSUME NEW c \in Conns, TaskMisreads(c)
      PROVE  OfflineShown'
  <2>1. PICK r \in mishap.torn : task' = [task EXCEPT ![c].reading = r]
    BY <1>6 DEF TaskMisreads
  <2>2. \A d \in Conns : task'[d].phase = task[d].phase
    BY <1>0, <2>1
  <2> QED
    BY <1>1, <1>6, <2>2 DEF TaskMisreads
<1>7. ASSUME NEW c \in Conns, TaskEnds(c)
      PROVE  OfflineShown'
  <2>1. registry' = (registry /\ task[c].phase = "hello") /\ task' = [task EXCEPT ![c] = Idle]
    BY <1>7 DEF TaskEnds
  <2>2. \A d \in Conns : d # c => task'[d] = task[d]
    BY <1>0, <2>1
  <2>3. CASE task[c].phase = "hello"
    BY <2>1, <2>2, <2>3 DEF OfflineShown
  <2>4. CASE task[c].phase # "hello"
    BY <2>1, <2>4 DEF OfflineShown
  <2> QED
    BY <2>3, <2>4
<1>8. ASSUME NEW c \in Conns, Connect(c)
      PROVE  OfflineShown'
  <2>1. task[c].phase = "none" /\ UNCHANGED registry
        /\ task' = [task EXCEPT ![c] = [Idle EXCEPT !.phase = "hello", !.unseen = revised]]
    BY <1>8 DEF Connect, LinkOnly
  <2>2. \A d \in Conns : d # c => task'[d] = task[d]
    BY <1>0, <2>1
  <2> QED
    BY <1>1, <2>1, <2>2
<1>9. CASE RestartAnalyzer
  BY <1>9 DEF RestartAnalyzer, OfflineShown
<1>10. CASE ~Notify /\ ~RestartAnalyzer
            /\ \A c \in Conns : /\ ~ServeHello(c) /\ ~LoadSources(c) /\ ~PushSources(c)
                                /\ ~SourceChanged(c) /\ ~TaskMisreads(c) /\ ~TaskEnds(c)
                                /\ ~Connect(c)
  <2>1. UNCHANGED <<registry, task>>
    BY <1>10
    DEF Next, vars, Commit, Cancel, Serve, ReceivePacket, ReceiveStats, SendPacket, Capture,
        LinkOnly, Break, Read, ReceiveAck, ReceiveSources, Misread, Transmit, Report, Disconnect,
        HangUp, BuildFilter, SnapshotChanged, CaptureOnly, HandshakeTimeout, RestartCollector
  <2> QED
    BY <1>2, <2>1
<1> QED
  BY <1>3, <1>4, <1>5, <1>6, <1>7, <1>8, <1>9, <1>10

-----------------------------------------------------------------------------
(* The inductive invariant and its theorems. *)

LinkInv == /\ Types /\ Behind /\ Ordered /\ Covered
           /\ QueueOrdered /\ SentOnce /\ DeliveredOnce /\ OfflineShown

LEMMA InitInv == Init => LinkInv
<1> SUFFICES ASSUME Init PROVE LinkInv
  OBVIOUS
<1>1. /\ Idle \in [phase : Phases, unseen : BOOLEAN, active : Versions, reading : Readings]
      /\ Idle.active = 0 /\ Idle.phase = "none"
  BY ConstantTypes DEF Idle, Phases, Readings
<1>2. \A c \in Conns : toAnalyzer[c] = <<>> /\ toCollector[c] = <<>> /\ up[c] = FALSE
                       /\ task[c] = Idle
  BY DEF Init
<1>3. CatalogTypes
  <2>1. catalog = 0 /\ unnotified = 0 /\ revised = FALSE /\ 0 \in Versions
    BY ConstantTypes DEF Init
  <2>2. revised \in BOOLEAN
    BY <2>1
  <2> QED
    BY <2>1, <2>2 DEF CatalogTypes
<1>4. TaskTypes
  BY <1>1, <1>2 DEF Init, TaskTypes
<1>5. WireTypes
  <2>1. \A S : <<>> \in Seq(S)
    OBVIOUS
  <2>2. Len(<<>>) = 0 /\ 0 <= WireMax
    BY LinkAssumption
  <2> QED
    BY <1>2, <2>1, <2>2 DEF Init, WireTypes
<1>6. LinkTypes
  BY LinkAssumption DEF Init, LinkTypes, Readings
<1>7. CaptureTypes
  <2>1. /\ queue = <<>> /\ delivered = <<>> /\ shown = 0 /\ sources = 0 /\ filter = 0
        /\ changed = FALSE /\ building = TRUE
    BY DEF Init
  <2>2. QueueCapacity \in Nat
    BY LinkAssumption
  <2>3. changed \in BOOLEAN /\ building \in BOOLEAN
    BY <2>1
  <2> QED
    BY <2>1, <2>2, <2>3, ConstantTypes DEF CaptureTypes
<1>8. MishapTypes
  BY ConstantTypes DEF Init, MishapTypes
<1>9. Behind
  BY <1>1, <1>2, ConstantTypes DEF Init, Behind
<1>10. Ordered /\ Covered
  BY <1>2 DEF Ordered, Covered, InOrder, CapturedBy, Init
<1>11. QueueOrdered /\ SentOnce /\ DeliveredOnce
  BY <1>2 DEF Init, QueueOrdered, SentOnce, DeliveredOnce, AtMostOnce
<1>12. OfflineShown
  BY DEF Init, OfflineShown
<1> QED
  BY <1>3, <1>4, <1>5, <1>6, <1>7, <1>8, <1>9, <1>10, <1>11, <1>12 DEF LinkInv, Types

LEMMA Always == Spec => []LinkInv
<1>1. LinkInv /\ [Next]_vars => LinkInv'
  BY NextTypes, NextBehind, NextOrdered, NextCovered, NextQueue, NextSentOnce,
     NextDeliveredOnce, NextOffline DEF LinkInv
<1> QED
  BY InitInv, <1>1, PTL DEF Spec

\* Every variable keeps its type, the queue and the wires their limits.
THEOREM TypesHold == Spec => []TypeOK
<1>1. LinkInv => TypeOK
  BY DEF LinkInv, Types, CatalogTypes, TaskTypes, WireTypes, LinkTypes, CaptureTypes, MishapTypes,
     TypeOK, Phases, ToAnalyzer, ToCollector
<1> QED
  BY Always, <1>1, PTL

\* No packet reaches the workers twice, however often the connection breaks and
\* either side starts again: transport.rs takes a packet off the queue before it
\* writes it, and never puts it back.
THEOREM OnceAtMost == Spec => []AtMostOnce
<1>1. LinkInv => AtMostOnce
  BY DEF LinkInv, DeliveredOnce
<1> QED
  BY Always, <1>1, PTL

\* A serving task works with a snapshot of the Sources at least as new as the one
\* each packet on its wire was captured under: handle_connection passes over a
\* packet only because its Source was switched off after the capture, never
\* because the task does not know the Source yet.
THEOREM PacketsKnown == Spec => []NoneRefused
<1>1. LinkInv => NoneRefused
  BY DEF LinkInv, Covered, CapturedBy, NoneRefused
<1> QED
  BY Always, <1>1, PTL

\* When no task has got past its Hello the registry does not show the collector
\* as connected: every way handle_connection ends passes mark_disconnected.
THEOREM NeverLeftOnline == Spec => []OfflineShown
<1>1. LinkInv => OfflineShown
  BY DEF LinkInv
<1> QED
  BY Always, <1>1, PTL

-----------------------------------------------------------------------------
(* The link implements SourceFeed, as far as steps go. *)

LEMMA FeedInit == Init => Feed!Init
  BY DEF Init, Feed!Init

LEMMA FeedNext ==
  ASSUME Types, Behind, Ordered, [Next]_vars
  PROVE  [Feed!Next]_(Feed!vars)
<1>0. catalog \in Nat /\ sources \in Nat
  BY Numbers
<1>1. CASE Commit
  <2>1. catalog < Last
    BY <1>0, <1>1, ConstantTypes DEF Commit, Types, MishapTypes
  <2> QED
    BY <1>1, <2>1 DEF Commit, Feed!Next, Feed!Commit
<1>2. CASE ReceiveSources
  <2>1. sources' \in Nat /\ sources <= sources' /\ sources' <= catalog
    BY <1>2, Taken
  <2>2. UNCHANGED catalog
    BY <1>2 DEF ReceiveSources, LinkOnly, api
  <2>3. CASE sources' = sources
    BY <2>2, <2>3 DEF Feed!vars
  <2>4. CASE sources' # sources
    <3>1. sources' \in (sources + 1) .. catalog
      BY <1>0, <2>1, <2>4
    <3> QED
      BY <2>2, <3>1 DEF Feed!Next, Feed!Deliver
  <2> QED
    BY <2>3, <2>4
<1>3. CASE RestartCollector
  BY <1>3 DEF RestartCollector, api, Feed!Next, Feed!Forget
<1>4. CASE UNCHANGED <<catalog, sources>>
  BY <1>4 DEF Feed!vars
<1> QED
  BY <1>1, <1>2, <1>3, <1>4
  DEF Next, vars, api, Notify, Cancel, Serve, ServeHello, LoadSources, PushSources, SourceChanged,
      ReceivePacket, ReceiveStats, TaskMisreads, TaskOnly, TaskEnds, Connect, LinkOnly, Break, Read,
      ReceiveAck, Misread, SendPacket, Transmit, Report, Disconnect, HangUp, BuildFilter,
      SnapshotChanged, Capture, CaptureOnly, HandshakeTimeout, RestartAnalyzer

\* Whatever edits, packets, broken links and restarts do, the collector's snapshot
\* is one of a past or present version of the catalog, and only its own restart
\* takes it back: connect_once never adopts a set of Sources older than its own,
\* although the analyzer reads the catalog and pushes what it read in two steps.
THEOREM LinkImplementsFeed == Spec => FeedSteps
<1>1. Init => Feed!Init
  BY FeedInit
<1>2. LinkInv /\ [Next]_vars => [Feed!Next]_(Feed!vars)
  BY FeedNext DEF LinkInv
<1> QED
  BY Always, <1>1, <1>2, PTL DEF Spec, FeedSteps
=============================================================================
