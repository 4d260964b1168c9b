---------------------------- MODULE CollectorLink ----------------------------
(***************************************************************************)
(* One collector and the analyzer it reports to: the Sources a user edits  *)
(* travel from the analyzer's catalog to the collector's capture filter,   *)
(* the packets captured under that filter travel back to the flow workers. *)
(*                                                                         *)
(*   api.rs        an edit commits to the catalog, then bumps `revision`   *)
(*   collector.rs  one task per connection: Hello, HelloAck, SetSources,   *)
(*                 then a select of reading a frame and a changed revision *)
(*   transport.rs  one connection at a time, reopened for ever: a select   *)
(*                 of a packet to send, a frame to read and a 2 s report   *)
(*   capture.rs    a filter built from the snapshot, rebuilt on a change   *)
(*                                                                         *)
(* A frame is a record.  Both selects poll read_frame next to branches     *)
(* that complete on their own, and dropping a half-finished read_frame     *)
(* drops the bytes it has taken; Preempted gives the outcomes.             *)
(***************************************************************************)
EXTENDS Integers, Sequences, FiniteSets

CONSTANTS
    History,       \* History[v + 1]: the enabled Sources after v edits
    Conns,         \* sockets that may exist at the same time
    None,          \* no socket
    Packets,       \* bound: packets the network shows a collector in any behaviour
    QueueCapacity, \* QUEUE_CAPACITY of the collector
    WireMax,       \* bound: frames in flight towards the analyzer
    Mishaps        \* what may happen in a behaviour: how many `edits' and `packets',
                   \* and how many `faults', that is broken links, timeouts and
                   \* restarts; what a preempted read leaves (`torn'); and whether
                   \* the HTTP client of an edit may go away (`cancels')

Last == Len(History) - 1
Versions == 0 .. Last
Enabled(v) == History[v + 1]
Source == UNION {Enabled(v) : v \in Versions}

ASSUME LinkAssumption ==
    /\ None \notin Conns
    /\ History \in Seq(SUBSET Source) /\ Len(History) > 0 /\ History[1] = {}
    /\ Packets \in Nat
    /\ QueueCapacity \in Nat \ {0} /\ WireMax \in Nat \ {0}
    /\ Mishaps \subseteq [edits : 0 .. Last, packets : 0 .. Packets, faults : Nat,
                          torn : SUBSET {"lost", "starved"}, cancels : BOOLEAN]

VARIABLES
    catalog,       \* the version of the Sources in SQLite
    unnotified,    \* edits committed whose handler has not bumped the revision
    revised,       \* the watch channel has been sent to since the analyzer started
    task,          \* per socket, the analyzer's handle_connection
    registry,      \* CollectorStatus.connected
    up,            \* per socket, the link works
    toAnalyzer,    \* per socket, the frames in flight each way
    toCollector,
    conn,          \* the socket of connect_once, or None
    phase,         \* how far connect_once is
    reading,       \* the state of the collector's read_frame
    sources,       \* the collector's snapshot
    changed,       \* the capture loop has not seen the snapshot's last change
    filter,        \* the version the capture loop works with
    building,      \* the capture loop is between two filters
    queue,         \* packets captured and not sent
    shown,         \* packets the network has shown
    delivered,     \* packets handed to the flow workers, in order
    faults,        \* how many faults have happened
    mishap         \* what may happen, one of Mishaps

api == <<catalog, unnotified, revised>>
capture == <<filter, building, shown>>
collector == <<conn, phase, reading>>
wires == <<up, toAnalyzer, toCollector>>
vars == <<api, task, registry, wires, collector, sources, changed, capture,
          queue, delivered, faults, mishap>>

Packet == [type : {"packet"}, n : 1 .. Packets, source : Source, under : Versions]
Hello == [type |-> "hello"]
HelloAck == [type |-> "ack"]
Stats == [type |-> "stats"]
SetSources(v) == [type |-> "sources", version |-> v]
Readings == {"frame", "lost", "starved"}
Idle == [phase |-> "none", unseen |-> FALSE, active |-> 0, reading |-> "frame"]

Heads(frames, type) == frames # <<>> /\ Head(frames).type = type

(* Both ends of the wire: what is written to a broken link is lost. *)
Write(wire, c, frame) == IF up[c] THEN [wire EXCEPT ![c] = Append(@, frame)] ELSE wire

(* A read_frame dropped by its select: it had taken nothing, or a part of   *)
(* the first frame.  Of a torn frame the rest is read as a new one: its     *)
(* first bytes exceed MAX_FRAME_BYTES or do not decode ("lost"), or make a  *)
(* length that the bytes to come do not fill ("starved").                   *)
Preempted(state, frames) ==
    {<<state, frames>>} \cup
    IF state = "frame" /\ frames # <<>> THEN mishap.torn \X {Tail(frames)} ELSE {}

Init ==
    /\ catalog = 0 /\ unnotified = 0 /\ revised = FALSE
    /\ task = [c \in Conns |-> Idle] /\ registry = FALSE
    /\ up = [c \in Conns |-> FALSE]
    /\ toAnalyzer = [c \in Conns |-> <<>>] /\ toCollector = [c \in Conns |-> <<>>]
    /\ conn = None /\ phase = "idle" /\ reading = "frame"
    /\ sources = 0 /\ changed = FALSE /\ filter = 0 /\ building = TRUE
    /\ queue = <<>> /\ shown = 0 /\ delivered = <<>>
    /\ faults = 0 /\ mishap \in Mishaps

-----------------------------------------------------------------------------
(* The API: create_source, update_source, delete_source. *)

Commit ==
    /\ catalog < mishap.edits
    /\ catalog' = catalog + 1 /\ unnotified' = unnotified + 1
    /\ UNCHANGED <<revised, task, registry, wires, collector, sources, changed,
                   capture, queue, delivered, faults, mishap>>

(* Slip: a task subscribes to the revision when its first push is done. *)
NotifyServing ==
    /\ unnotified > 0
    /\ unnotified' = unnotified - 1 /\ revised' = TRUE
    /\ task' = [c \in Conns |-> [task[c] EXCEPT !.unseen = task[c].phase = "serve"]]
    /\ UNCHANGED <<catalog, registry, wires, collector, sources, changed,
                   capture, queue, delivered, faults, mishap>>

Notify ==
    /\ unnotified > 0
    /\ unnotified' = unnotified - 1 /\ revised' = TRUE
    /\ task' = [c \in Conns |-> [task[c] EXCEPT !.unseen = task[c].phase # "none"]]
    /\ UNCHANGED <<catalog, registry, wires, collector, sources, changed,
                   capture, queue, delivered, faults, mishap>>

(* The client is gone: the handler is dropped while it awaits spawn_blocking, *)
(* whose closure commits all the same.                                        *)
Cancel ==
    /\ mishap.cancels /\ unnotified > 0
    /\ unnotified' = unnotified - 1
    /\ UNCHANGED <<catalog, revised, task, registry, wires, collector, sources,
                   changed, capture, queue, delivered, faults, mishap>>

-----------------------------------------------------------------------------
(* collector.rs: the task of socket c. *)

TaskOnly == UNCHANGED <<api, conn, phase, reading, sources, changed, capture,
                        queue, faults, mishap>>

ServeHello(c) ==
    /\ task[c].phase = "hello" /\ Heads(toAnalyzer[c], "hello")
    /\ registry' = TRUE
    /\ toCollector' = Write(toCollector, c, HelloAck)
    /\ toAnalyzer' = [toAnalyzer EXCEPT ![c] = Tail(@)]
    /\ task' = [task EXCEPT ![c].phase = "load"]
    /\ TaskOnly /\ UNCHANGED <<up, delivered>>

(* Slip: the query runs in a read transaction that was open already. *)
LoadSourcesStale(c) ==
    /\ task[c].phase = "load"
    /\ \E v \in {catalog - 1, catalog} \cap Versions :
          task' = [task EXCEPT ![c].phase = "push", ![c].active = v]
    /\ TaskOnly /\ UNCHANGED <<registry, wires, delivered>>

(* send_sources, in two steps: the query on a blocking thread ... *)
LoadSources(c) ==
    /\ task[c].phase = "load"
    /\ task' = [task EXCEPT ![c].phase = "push", ![c].active = catalog]
    /\ TaskOnly /\ UNCHANGED <<registry, wires, delivered>>

(* Slip: the frame is made of a second query. *)
PushSourcesReread(c) ==
    /\ task[c].phase = "push"
    /\ toCollector' = Write(toCollector, c, SetSources(catalog))
    /\ task' = [task EXCEPT ![c].phase = "serve"]
    /\ TaskOnly /\ UNCHANGED <<registry, up, toAnalyzer, delivered>>

(* ... and the frame.  The task takes no packet before active_source_ids is *)
(* what it has pushed.                                                      *)
PushSources(c) ==
    /\ task[c].phase = "push"
    /\ toCollector' = Write(toCollector, c, SetSources(task[c].active))
    /\ task' = [task EXCEPT ![c].phase = "serve"]
    /\ TaskOnly /\ UNCHANGED <<registry, up, toAnalyzer, delivered>>

SourceChanged(c) ==
    /\ task[c].phase = "serve" /\ task[c].unseen
    /\ \E left \in Preempted(task[c].reading, toAnalyzer[c]) :
          /\ task' = [task EXCEPT ![c].phase = "load", ![c].unseen = FALSE,
                                  ![c].reading = left[1]]
          /\ toAnalyzer' = [toAnalyzer EXCEPT ![c] = left[2]]
    /\ TaskOnly /\ UNCHANGED <<registry, up, toCollector, delivered>>

(* A packet of a Source that is not active is passed over; a full worker     *)
(* queue refuses it; otherwise a worker has it.                              *)
ReceivePacket(c) ==
    /\ task[c].phase = "serve" /\ task[c].reading = "frame"
    /\ Heads(toAnalyzer[c], "packet")
    /\ toAnalyzer' = [toAnalyzer EXCEPT ![c] = Tail(@)]
    /\ LET packet == Head(toAnalyzer[c])
       IN  \/ UNCHANGED delivered
           \/ /\ packet.source \in Enabled(task[c].active)
              /\ delivered' = Append(delivered, packet.n)
    /\ TaskOnly /\ UNCHANGED <<task, registry, up, toCollector>>

ReceiveStats(c) ==
    /\ task[c].phase = "serve" /\ task[c].reading = "frame"
    /\ Heads(toAnalyzer[c], "stats")
    /\ toAnalyzer' = [toAnalyzer EXCEPT ![c] = Tail(@)]
    /\ TaskOnly /\ UNCHANGED <<task, registry, up, toCollector, delivered>>

(* A starved read takes what comes as the rest of its frame. *)
TaskMisreads(c) ==
    /\ task[c].phase = "serve" /\ task[c].reading = "starved" /\ toAnalyzer[c] # <<>>
    /\ toAnalyzer' = [toAnalyzer EXCEPT ![c] = Tail(@)]
    /\ \E r \in mishap.torn : task' = [task EXCEPT ![c].reading = r]
    /\ TaskOnly /\ UNCHANGED <<registry, up, toCollector, delivered>>

(* Slip: an error of the handshake returns at once. *)
TaskEndsEarly(c) ==
    /\ \/ task[c].phase # "none" /\ ~up[c]
       \/ task[c].phase = "serve" /\ task[c].reading = "lost"
    /\ registry' = (registry /\ task[c].phase \in {"hello", "load", "push"})
    /\ task' = [task EXCEPT ![c] = Idle]
    /\ up' = [up EXCEPT ![c] = FALSE]
    /\ toAnalyzer' = [toAnalyzer EXCEPT ![c] = <<>>]
    /\ TaskOnly /\ UNCHANGED <<toCollector, delivered>>

(* handle_connection returns: the link is broken, or the reader is lost.     *)
(* Only a connection that got past its Hello is in the registry.             *)
TaskEnds(c) ==
    /\ \/ task[c].phase # "none" /\ ~up[c]
       \/ task[c].phase = "serve" /\ task[c].reading = "lost"
    /\ registry' = (registry /\ task[c].phase = "hello")
    /\ task' = [task EXCEPT ![c] = Idle]
    /\ up' = [up EXCEPT ![c] = FALSE]
    /\ toAnalyzer' = [toAnalyzer EXCEPT ![c] = <<>>]
    /\ TaskOnly /\ UNCHANGED <<toCollector, delivered>>

-----------------------------------------------------------------------------
(* transport.rs: run and connect_once. *)

LinkOnly == UNCHANGED <<api, registry, capture, delivered, faults, mishap>>

(* Sockets are alike: a new connection gets a certain one of the free ones. *)
Connect(c) ==
    /\ phase = "idle" /\ task[c].phase = "none"
    /\ c = CHOOSE free \in Conns : task[free].phase = "none"
    /\ conn' = c /\ phase' = "hello" /\ reading' = "frame"
    /\ task' = [task EXCEPT ![c] = [Idle EXCEPT !.phase = "hello", !.unseen = revised]]
    /\ up' = [up EXCEPT ![c] = TRUE]
    /\ toAnalyzer' = [toAnalyzer EXCEPT ![c] = <<Hello>>]
    /\ toCollector' = [toCollector EXCEPT ![c] = <<>>]
    /\ LinkOnly /\ UNCHANGED <<sources, changed, queue>>

ReceiveAck ==
    /\ phase = "hello" /\ Heads(toCollector[conn], "ack")
    /\ toCollector' = [toCollector EXCEPT ![conn] = Tail(@)]
    /\ phase' = "sources"
    /\ LinkOnly /\ UNCHANGED <<task, conn, reading, up, toAnalyzer, sources, changed, queue>>

(* Slip: the first snapshot does not wake the capture loop. *)
ReceiveSourcesQuiet ==
    /\ phase \in {"sources", "stream"} /\ reading = "frame"
    /\ Heads(toCollector[conn], "sources")
    /\ sources' = Head(toCollector[conn]).version /\ changed' = (changed \/ phase = "stream")
    /\ toCollector' = [toCollector EXCEPT ![conn] = Tail(@)]
    /\ phase' = "stream"
    /\ LinkOnly /\ UNCHANGED <<task, conn, reading, up, toAnalyzer, queue>>

(* receive_sources after the handshake, and SetSources in the select. *)
ReceiveSources ==
    /\ phase \in {"sources", "stream"} /\ reading = "frame"
    /\ Heads(toCollector[conn], "sources")
    /\ sources' = Head(toCollector[conn]).version /\ changed' = TRUE
    /\ toCollector' = [toCollector EXCEPT ![conn] = Tail(@)]
    /\ phase' = "stream"
    /\ LinkOnly /\ UNCHANGED <<task, conn, reading, up, toAnalyzer, queue>>

(* The other two branches of the select, each of which drops read_frame.     *)
(* write_frame waits while the wire is full.                                 *)
Transmit(frame) ==
    /\ phase = "stream" /\ Len(toAnalyzer[conn]) < WireMax
    /\ toAnalyzer' = Write(toAnalyzer, conn, frame)
    /\ \E left \in Preempted(reading, toCollector[conn]) :
          /\ reading' = left[1]
          /\ toCollector' = [toCollector EXCEPT ![conn] = left[2]]
    /\ LinkOnly /\ UNCHANGED <<task, conn, phase, up, sources, changed>>

(* Slip: a packet stays queued for the case that its write fails. *)
SendPacketKept == queue # <<>> /\ Transmit(Head(queue)) /\ queue' \in {queue, Tail(queue)}

SendPacket == queue # <<>> /\ Transmit(Head(queue)) /\ queue' = Tail(queue)

Report == Transmit(Stats) /\ UNCHANGED queue

Misread ==
    /\ phase = "stream" /\ reading = "starved" /\ toCollector[conn] # <<>>
    /\ toCollector' = [toCollector EXCEPT ![conn] = Tail(@)]
    /\ reading' \in mishap.torn
    /\ LinkOnly /\ UNCHANGED <<task, conn, phase, up, toAnalyzer, sources, changed, queue>>

(* connect_once returns; the snapshot and the queue stay for the next one. *)
HangUp ==
    /\ up' = [up EXCEPT ![conn] = FALSE]
    /\ toCollector' = [toCollector EXCEPT ![conn] = <<>>]
    /\ conn' = None /\ phase' = "idle" /\ reading' = "frame"
    /\ UNCHANGED <<api, task, registry, toAnalyzer, sources, changed,
                   capture, queue, delivered, mishap>>

Disconnect ==
    /\ phase # "idle" /\ (~up[conn] \/ reading = "lost")
    /\ HangUp /\ UNCHANGED faults

-----------------------------------------------------------------------------
(* capture.rs of the collector. *)

CaptureOnly == UNCHANGED <<api, task, registry, wires, collector, sources,
                           delivered, faults, mishap>>

BuildFilter ==
    /\ building
    /\ filter' = sources /\ building' = FALSE
    /\ CaptureOnly /\ UNCHANGED <<changed, shown, queue>>

SnapshotChanged ==
    /\ ~building /\ changed
    /\ changed' = FALSE /\ building' = TRUE
    /\ CaptureOnly /\ UNCHANGED <<filter, shown, queue>>

(* A full queue drops the packet. *)
Capture(s) ==
    /\ ~building /\ s \in Enabled(filter) /\ shown < mishap.packets
    /\ shown' = shown + 1
    /\ queue' = IF Len(queue) < QueueCapacity
                THEN Append(queue, [type |-> "packet", n |-> shown + 1,
                                    source |-> s, under |-> filter])
                ELSE queue
    /\ CaptureOnly /\ UNCHANGED <<changed, filter, building>>

-----------------------------------------------------------------------------
(* The environment. *)

Fault == faults < mishap.faults /\ faults' = faults + 1

(* Half-open from now on: nothing obliges the other end to notice soon. *)
Break(c) ==
    /\ Fault /\ up[c]
    /\ up' = [up EXCEPT ![c] = FALSE]
    /\ UNCHANGED <<api, task, registry, toAnalyzer, toCollector, collector, sources,
                   changed, capture, queue, delivered, mishap>>

(* HelloAck or SetSources does not come within five seconds. *)
HandshakeTimeout == Fault /\ phase \in {"hello", "sources"} /\ HangUp

(* The analyzer starts again: the catalog is on disk, the revision is not. *)
RestartAnalyzer ==
    /\ Fault
    /\ unnotified' = 0 /\ revised' = FALSE /\ registry' = FALSE
    /\ task' = [c \in Conns |-> Idle] /\ up' = [c \in Conns |-> FALSE]
    /\ toAnalyzer' = [c \in Conns |-> <<>>]
    /\ UNCHANGED <<catalog, toCollector, collector, sources, changed, capture,
                   queue, delivered, mishap>>

(* The collector starts again, with nothing. *)
RestartCollector ==
    /\ Fault
    /\ conn' = None /\ phase' = "idle" /\ reading' = "frame"
    /\ up' = [c \in Conns |-> FALSE] /\ toCollector' = [c \in Conns |-> <<>>]
    /\ sources' = 0 /\ changed' = FALSE /\ filter' = 0 /\ building' = TRUE
    /\ queue' = <<>>
    /\ UNCHANGED <<api, task, registry, toAnalyzer, shown, delivered, mishap>>

-----------------------------------------------------------------------------
Serve(c) ==
    \/ ServeHello(c) \/ LoadSources(c) \/ PushSources(c) \/ SourceChanged(c)
    \/ ReceivePacket(c) \/ ReceiveStats(c) \/ TaskMisreads(c)

Read == ReceiveAck \/ ReceiveSources \/ Misread

Next ==
    \/ Commit \/ Notify \/ Cancel
    \/ \E c \in Conns : Serve(c) \/ TaskEnds(c) \/ Connect(c) \/ Break(c)
    \/ Read \/ SendPacket \/ Report \/ Disconnect
    \/ BuildFilter \/ SnapshotChanged \/ \E s \in Source : Capture(s)
    \/ HandshakeTimeout \/ RestartAnalyzer \/ RestartCollector

(* Every task is polled again, the two selects are fair between their ready  *)
(* branches, and a broken link is noticed in the end.  Nobody has to edit a  *)
(* Source or send a packet.                                                  *)
Fairness ==
    /\ WF_vars(Notify \/ Cancel)
    /\ \A c \in Conns : /\ WF_vars(ServeHello(c) \/ LoadSources(c) \/ PushSources(c))
                        /\ WF_vars(SourceChanged(c))
                        /\ WF_vars(ReceivePacket(c) \/ ReceiveStats(c) \/ TaskMisreads(c))
                        /\ WF_vars(TaskEnds(c))
    /\ WF_vars(\E c \in Conns : Connect(c))
    /\ WF_vars(Read) /\ WF_vars(SendPacket) /\ WF_vars(Report) /\ WF_vars(Disconnect)
    /\ WF_vars(BuildFilter) /\ WF_vars(SnapshotChanged)

Spec == Init /\ [][Next]_vars
FairSpec == Spec /\ Fairness

-----------------------------------------------------------------------------
(* Types, and the limits of the queue and of the wires. *)
TypeOK ==
    /\ catalog \in Versions /\ unnotified \in Versions /\ revised \in BOOLEAN
    /\ task \in [Conns -> [phase : {"none", "hello", "load", "push", "serve"},
                           unseen : BOOLEAN, active : Versions,
                           reading : Readings]]
    /\ registry \in BOOLEAN /\ up \in [Conns -> BOOLEAN]
    /\ \A c \in Conns :
          /\ toAnalyzer[c] \in Seq(Packet \cup {Hello, Stats})
          /\ Len(toAnalyzer[c]) <= WireMax
          /\ toCollector[c] \in Seq({HelloAck} \cup {SetSources(v) : v \in Versions})
    /\ conn \in Conns \cup {None} /\ (conn = None <=> phase = "idle")
    /\ phase \in {"idle", "hello", "sources", "stream"} /\ reading \in Readings
    /\ sources \in Versions /\ filter \in Versions
    /\ changed \in BOOLEAN /\ building \in BOOLEAN
    /\ queue \in Seq(Packet) /\ Len(queue) <= QueueCapacity
    /\ delivered \in Seq(1 .. Packets)
    /\ shown \in 0 .. Packets /\ mishap \in Mishaps /\ faults \in 0 .. mishap.faults

(* A packet is forwarded at most once, whatever happens to the connections   *)
(* it waits for: transport.rs takes it off the queue before it writes it and *)
(* never puts it back.                                                       *)
AtMostOnce ==
    \A i, j \in DOMAIN delivered : delivered[i] = delivered[j] => i = j

(* The analyzer passes over a packet only because its Source was switched    *)
(* off after it was captured: a serving task works with a snapshot at least  *)
(* as new as the one each packet on its wire was captured under, also when   *)
(* the packet waited in the queue through a reconnection.                    *)
NoneRefused ==
    \A c \in Conns : task[c].phase = "serve" =>
        \A i \in DOMAIN toAnalyzer[c] :
            toAnalyzer[c][i].type = "packet" => toAnalyzer[c][i].under <= task[c].active

(* When no task has got past its Hello the registry shows the collector as   *)
(* disconnected: no ended connection is left online.  The converse is false: *)
(* the task of an old connection, which may end after a new one has begun,   *)
(* says disconnected(collector_id) of both (collector.rs:224).               *)
OfflineShown ==
    (\A c \in Conns : task[c].phase \in {"none", "hello"}) => ~registry

(* SourceFeed is implemented by the catalog and the collector's snapshot, with *)
(* everything else hidden.                                                     *)
Feed == INSTANCE SourceFeed WITH catalog <- catalog, sources <- sources, Last <- Last

(* Nothing takes an edit's announcement away (a handler that is dropped) or  *)
(* leaves a reader waiting for the rest of a frame that does not come.       *)
Minded == ~mishap.cancels /\ "starved" \notin mishap.torn

(* Through all edits, connections and restarts the collector's snapshot is one *)
(* of some version of the catalog, and is only ever replaced by a newer one    *)
(* (or by nothing, when the collector starts again): SourceFeed's steps.       *)
FeedSteps == Feed!Init /\ [][Feed!Next]_(Feed!vars)

(* In the end packets are captured under the Sources the user has set.  The  *)
(* filter may go on being rebuilt: a connection made after an edit gets the  *)
(* same snapshot twice, the second push can be torn by a report, and the     *)
(* next connection begins again.  It is SourceFeed's fairness as well, since *)
(* the filter is never ahead of the snapshot nor the snapshot of the catalog *)
(* (Behind in CollectorLinkProof): once they are equal there is nothing left *)
(* to Deliver.                                                               *)
FilterFollows == Minded => <>[](filter = catalog)

(* A snapshot pushed to a connected collector is adopted: it leaves the wire *)
(* of the current connection only as the collector's new snapshot.           *)
PushedIsTaken ==
    [][\A c \in Conns :
          /\ conn = c /\ conn' = c /\ Heads(toCollector[c], "sources")
          /\ toCollector'[c] = Tail(toCollector[c])
          => sources' = Head(toCollector[c]).version]_vars
=============================================================================
