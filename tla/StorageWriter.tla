---------------------------- MODULE StorageWriter ---------------------------
(***************************************************************************)
(* The storage of completed sessions: one writer thread, append-only       *)
(* segment files and an SQLite catalog (crates/analyzer/src/storage).      *)
(*                                                                         *)
(* Flow workers offer sessions to a bounded queue; the writer takes a      *)
(* batch, appends the payloads to the active segment, syncs it, and        *)
(* commits the rows of the batch in one transaction.  While it appends it  *)
(* may rotate the segment, which expires the oldest ones.  Every write to  *)
(* a file and every commit is a step, so that a crash can fall between any *)
(* two of them.  Segment files and catalog are two persistence systems:    *)
(* a commit is durable at once (WAL with SQLite's default synchronous      *)
(* level, the writer's connection never lowers it), file contents are      *)
(* durable once synced.                                                    *)
(*                                                                         *)
(* A session is a submission number (its key) and the capture time at      *)
(* which it ended; its payload is a record [id, key] in a file.  A segment *)
(* file is named after the time it was created at, so files are indexed by *)
(* it.  Offsets count records.                                             *)
(***************************************************************************)
EXTENDS Integers, Sequences, FiniteSets, Functions

CONSTANTS Capacity,    \* STORAGE_QUEUE_CAPACITY
          BatchMax,    \* 500 in the code
          Duration,    \* SEGMENT_DURATION
          Retention,   \* SEGMENT_RETENTION_COUNT
          MaxTime,     \* bound: times are 1..MaxTime
          MaxSessions, \* bound: sessions offered
          MaxCrashes,  \* bound: crashes
          IoFailures   \* may a file or catalog operation fail?

ASSUME SizesAssumption ==
  Capacity \in Nat \ {0} /\ BatchMax \in Nat \ {0} /\ MaxTime \in Nat
ASSUME SegmentsAssumption == Duration \in Nat \ {0} /\ Retention \in Nat \ {0}
ASSUME BoundsAssumption == MaxSessions \in Nat /\ MaxCrashes \in Nat
ASSUME SwitchesAssumption == IoFailures \in BOOLEAN

VARIABLES
  queue, offered, dropped,               \* the channel and its producers
  pc, batch, rows, nextId, active,       \* the writer thread
  expired, doomed,                       \*   its retention loop
  segments, sessions,                    \* the catalog
  files, synced,                         \* the segment directory
  reader,                                \* one API request for a payload
  lastCreated, late, stored, crashes     \* history

channel == <<queue, offered, dropped>>
retention == <<expired, doomed>>
catalog == <<segments, sessions>>
directory == <<files, synced>>
history == <<lastCreated, late, stored, crashes>>
vars == <<queue, offered, dropped, pc, batch, rows, nextId, active, expired,
          doomed, segments, sessions, files, synced, reader, lastCreated, late,
          stored, crashes>>

Times == 1..MaxTime
NoSegment == [id |-> 0, created |-> 0, size |-> 0]
Torn == [id |-> 0, key |-> 0]
Idle == [state |-> "idle"]

Largest(S) == IF S = {} THEN 0 ELSE CHOOSE n \in S : \A m \in S : m <= n

\* f with its domain extended, or reduced, by one point.
With(f, x, v) == [y \in DOMAIN f \cup {x} |-> IF y = x THEN v ELSE f[y]]
Without(f, x) == [y \in DOMAIN f \ {x} |-> f[y]]

Running == pc \notin {"down", "stopped"}

-----------------------------------------------------------------------------
(* Producers. *)

\* Slip: the limit is compared one too late.
TryStoreOneOver(time) ==
  /\ pc # "down" /\ offered < MaxSessions
  /\ offered' = offered + 1
  /\ IF pc = "stopped" \/ Len(queue) > Capacity
     THEN dropped' = dropped \cup {offered'} /\ UNCHANGED queue
     ELSE /\ queue' = Append(queue, [key |-> offered', time |-> time])
          /\ UNCHANGED dropped
  /\ UNCHANGED <<pc, batch, rows, nextId, active, retention, catalog, directory,
                 reader, history>>

\* try_store.  The queue is full, or the writer has ended and dropped its
\* end of the channel, and the session is lost; or it is queued.  Capture
\* times come from several collectors and follow no order.
TryStore(time) ==
  /\ pc # "down" /\ offered < MaxSessions
  /\ offered' = offered + 1
  /\ IF pc = "stopped" \/ Len(queue) >= Capacity
     THEN dropped' = dropped \cup {offered'} /\ UNCHANGED queue
     ELSE /\ queue' = Append(queue, [key |-> offered', time |-> time])
          /\ UNCHANGED dropped
  /\ UNCHANGED <<pc, batch, rows, nextId, active, retention, catalog, directory,
                 reader, history>>

-----------------------------------------------------------------------------
(* The writer: run_writer, SegmentManager. *)

\* run_writer returns: its end of the channel, with what is queued, its batch
\* and its segment manager are dropped.
Ends ==
  /\ pc' = "stopped"
  /\ queue' = <<>> /\ batch' = <<>> /\ rows' = {} /\ active' = NoSegment
  /\ expired' = {}

\* Slip: the numbering starts over with every run.
StartFromOne ==
  /\ pc = "down"
  /\ pc' = "receive"
  /\ nextId' = 1
  /\ active' = NoSegment
  /\ UNCHANGED <<channel, batch, rows, retention, catalog, directory, reader, history>>

Start ==
  /\ pc = "down"
  /\ pc' = "receive"
  /\ nextId' = Largest(DOMAIN sessions) + 1
  /\ active' = NoSegment
  /\ UNCHANGED <<channel, batch, rows, retention, catalog, directory, reader, history>>

\* Slip: less than a full batch is left waiting.
ReceiveFullBatch ==
  /\ pc = "receive" /\ Len(queue) >= BatchMax
  /\ batch' = SubSeq(queue, 1, BatchMax)
  /\ queue' = SubSeq(queue, BatchMax + 1, Len(queue))
  /\ rows' = {}
  /\ pc' = "append"
  /\ UNCHANGED <<offered, dropped, nextId, active, retention, catalog,
                 directory, reader, history>>

\* blocking_recv, then try_recv until the batch is full or the queue empty.
Receive ==
  LET n == IF Len(queue) < BatchMax THEN Len(queue) ELSE BatchMax
  IN  /\ pc = "receive" /\ queue # <<>>
      /\ batch' = SubSeq(queue, 1, n)
      /\ queue' = SubSeq(queue, n + 1, Len(queue))
      /\ rows' = {}
      /\ pc' = "append"
      /\ UNCHANGED <<offered, dropped, nextId, active, retention, catalog,
                     directory, reader, history>>

Rotate(time) == active = NoSegment \/ time - active.created >= Duration

\* ensure_active, as far as there is a segment to close: sync it and record
\* its end (closed_at and size, which nothing reads back).
CloseSegment ==
  /\ pc = "append" /\ batch # <<>>
  /\ Rotate(Head(batch).time)
  /\ synced' = IF active.created \in DOMAIN files
               THEN [synced EXCEPT ![active.created] = Len(files[active.created])]
               ELSE synced
  /\ pc' = "open"
  /\ UNCHANGED <<channel, batch, rows, nextId, active, retention, catalog, files,
                 reader, history>>

\* OpenOptions create + append: an existing file of that name is continued.
\* "late" remembers that a run began with a session no younger than a segment
\* opened before (a clock set back, a lagging collector); later segments of a
\* run are always younger than the one they replace.
OpenFile ==
  LET now == Head(batch).time
  IN  /\ pc = "open"
      /\ files' = IF now \in DOMAIN files THEN files ELSE With(files, now, <<>>)
      /\ synced' = IF now \in DOMAIN files THEN synced ELSE With(synced, now, 0)
      /\ lastCreated' = IF now > lastCreated THEN now ELSE lastCreated
      /\ late' = (late \/ now <= lastCreated)
      /\ pc' = "insert"
      /\ UNCHANGED <<channel, batch, rows, nextId, active, retention, catalog,
                     reader, stored, crashes>>

\* Slip: the segment itself is counted among the newer ones.
SurplusCounted(table) ==
  {s \in DOMAIN table :
     Cardinality({t \in DOMAIN table : table[t] >= table[s]}) >= Retention}

\* The segments beyond the newest Retention ones.
Surplus(table) ==
  {s \in DOMAIN table :
     Cardinality({t \in DOMAIN table : table[t] > table[s]}) >= Retention}

\* The row of the new segment.  The file name is UNIQUE; a row id is one more
\* than the largest present, so an id is free again when its row was the last.
InsertSegment ==
  LET now == Head(batch).time
      id == Largest(DOMAIN segments) + 1
  IN  /\ pc = "insert"
      /\ IF now \in Range(segments)
         THEN Ends /\ UNCHANGED segments
         ELSE /\ segments' = With(segments, id, now)
              /\ active' = [id |-> id, created |-> now, size |-> Len(files[now])]
              /\ expired' = Surplus(segments')
              /\ pc' = "expire"
              /\ UNCHANGED <<queue, batch, rows>>
      /\ UNCHANGED <<offered, dropped, nextId, doomed, sessions, directory,
                     reader, history>>

\* expire_old_segments, newest first: one transaction removes the sessions
\* and the segment row ...
ExpireRows(s) ==
  /\ pc = "expire" /\ s \in expired
  /\ \A t \in expired : segments[t] <= segments[s]
  /\ sessions' = [i \in {j \in DOMAIN sessions : sessions[j].segment # s} |-> sessions[i]]
  /\ segments' = Without(segments, s)
  /\ doomed' = segments[s]
  /\ expired' = expired \ {s}
  /\ pc' = "unlink"
  /\ UNCHANGED <<channel, batch, rows, nextId, active, directory, reader, history>>

\* ... and then the file goes.  A failure to remove it is only logged.
Unlink ==
  /\ pc = "unlink"
  /\ \/ files' = Without(files, doomed) /\ synced' = Without(synced, doomed)
     \/ IoFailures /\ UNCHANGED directory
  /\ pc' = "expire"
  /\ UNCHANGED <<channel, batch, rows, nextId, active, retention, catalog, reader, history>>

ExpireDone ==
  /\ pc = "expire" /\ expired = {}
  /\ pc' = "write"
  /\ UNCHANGED <<channel, batch, rows, nextId, active, retention, catalog,
                 directory, reader, history>>

\* append_record at the end of the active file, be it unlinked or not.
WriteRecord ==
  LET session == Head(batch)
  IN  /\ files' = IF active.created \in DOMAIN files
                  THEN [files EXCEPT ![active.created] =
                          Append(@, [id |-> nextId, key |-> session.key])]
                  ELSE files
      /\ active' = [active EXCEPT !.size = @ + 1]
      /\ rows' = rows \cup {[id |-> nextId, key |-> session.key,
                             segment |-> active.id, offset |-> active'.size]}
      /\ nextId' = nextId + 1
      /\ batch' = Tail(batch)
      /\ pc' = "append"
      /\ UNCHANGED <<channel, retention, catalog, synced, reader, history>>

AppendPayload ==
  /\ batch # <<>>
  /\ \/ pc = "append" /\ ~Rotate(Head(batch).time)
     \/ pc = "write"
  /\ WriteRecord

\* Slip: the rows are committed before the payloads are synced.
FlushActiveUnsynced ==
  /\ pc = "append" /\ batch = <<>>
  /\ pc' = "commit"
  /\ UNCHANGED <<channel, batch, rows, nextId, active, retention, catalog, directory,
                 reader, history>>

FlushActive ==
  /\ pc = "append" /\ batch = <<>>
  /\ synced' = IF active.created \in DOMAIN files
               THEN [synced EXCEPT ![active.created] = Len(files[active.created])]
               ELSE synced
  /\ pc' = "commit"
  /\ UNCHANGED <<channel, batch, rows, nextId, active, retention, catalog, files,
                 reader, history>>

RowOf(id) == CHOOSE r \in rows : r.id = id

\* What the catalog accepts: a row whose segment is gone violates the foreign
\* key (on by default in the bundled SQLite), an id that is taken the primary key.
Insertable == \A r \in rows : r.segment \in DOMAIN segments /\ r.id \notin DOMAIN sessions

InsertRows ==
  /\ sessions' = [i \in DOMAIN sessions \cup {r.id : r \in rows} |->
                     IF i \in DOMAIN sessions THEN sessions[i]
                     ELSE [segment |-> RowOf(i).segment, offset |-> RowOf(i).offset,
                           key |-> RowOf(i).key]]
  /\ stored' = stored \cup {r.key : r \in rows}
  /\ pc' = "receive" /\ rows' = {}
  /\ UNCHANGED <<queue, batch, active, expired>>

\* Slip: a refused batch is logged and forgotten, and the thread goes on.
CommitSwallowed ==
  /\ pc = "commit"
  /\ \/ Insertable /\ InsertRows
     \/ /\ ~Insertable /\ pc' = "receive" /\ rows' = {}
        /\ UNCHANGED <<queue, batch, active, expired, sessions, stored>>
  /\ UNCHANGED <<offered, dropped, nextId, doomed, segments, directory, reader,
                 lastCreated, late, crashes>>

\* The transaction of the batch.  One row that is not accepted undoes it all:
\* run_writer returns the error and the thread ends.
Commit ==
  /\ pc = "commit"
  /\ IF Insertable THEN InsertRows ELSE Ends /\ UNCHANGED <<sessions, stored>>
  /\ UNCHANGED <<offered, dropped, nextId, doomed, segments, directory, reader,
                 lastCreated, late, crashes>>

\* Any other error also ends the thread; one in the middle of an append
\* leaves part of a record behind.
Fails ==
  /\ IoFailures /\ Running /\ pc # "receive"
  /\ Ends
  /\ files' = IF pc \in {"append", "write"} /\ active.created \in DOMAIN files
              THEN [files EXCEPT ![active.created] = Append(@, Torn)]
              ELSE files
  /\ UNCHANGED <<offered, dropped, nextId, doomed, catalog, synced, reader, history>>

Writer ==
  \/ Receive \/ CloseSegment \/ OpenFile \/ InsertSegment
  \/ (\E s \in expired : ExpireRows(s)) \/ Unlink \/ ExpireDone
  \/ AppendPayload \/ FlushActive \/ Commit

-----------------------------------------------------------------------------
(* A reader: the API looks a session up in the catalog and then opens its  *)
(* segment, while the writer goes on.                                      *)

Lookup(id) ==
  /\ pc # "down" /\ reader = Idle
  /\ reader' = [state |-> "found", id |-> id, key |-> sessions[id].key,
                file |-> segments[sessions[id].segment], offset |-> sessions[id].offset]
  /\ UNCHANGED <<channel, pc, batch, rows, nextId, active, retention, catalog,
                 directory, history>>

\* Slip: whatever is found at the offset is taken for the session.
ReadPayloadUnchecked ==
  LET file == reader.file
      present == file \in DOMAIN files /\ reader.offset \in DOMAIN files[file]
  IN  /\ reader.state = "found"
      /\ reader' = IF present
                   THEN [state |-> "read", asked |-> reader.key,
                         got |-> files[file][reader.offset].key]
                   ELSE [state |-> "error"]
      /\ UNCHANGED <<channel, pc, batch, rows, nextId, active, retention, catalog,
                     directory, history>>

\* read_payload: the file may be gone by now, and the record must carry the
\* id that was asked for.
ReadPayload ==
  LET file == reader.file
      present == file \in DOMAIN files /\ reader.offset \in DOMAIN files[file]
  IN  /\ reader.state = "found"
      /\ reader' = IF present /\ files[file][reader.offset].id = reader.id
                   THEN [state |-> "read", asked |-> reader.key,
                         got |-> files[file][reader.offset].key]
                   ELSE [state |-> "error"]
      /\ UNCHANGED <<channel, pc, batch, rows, nextId, active, retention, catalog,
                     directory, history>>

Respond ==
  /\ reader.state \in {"read", "error"}
  /\ reader' = Idle
  /\ UNCHANGED <<channel, pc, batch, rows, nextId, active, retention, catalog,
                 directory, history>>

-----------------------------------------------------------------------------
(* A crash of the process or of the machine.  All volatile state is lost;  *)
(* of each file at least the synced records survive, possibly with a torn  *)
(* record behind them, and a file that was never synced may vanish.        *)

Remains(content, from) ==
  {SubSeq(content, 1, n) : n \in from..Len(content)}
    \cup {Append(SubSeq(content, 1, n), Torn) : n \in from..Len(content)}

Crash ==
  /\ pc # "down" /\ crashes < MaxCrashes
  /\ \E kept \in SUBSET {f \in DOMAIN files : synced[f] = 0} :
       LET names == kept \cup {f \in DOMAIN files : synced[f] > 0}
       IN  /\ files' \in {g \in [names -> UNION {Remains(files[f], synced[f]) : f \in names}] :
                            \A f \in names : g[f] \in Remains(files[f], synced[f])}
           /\ synced' = [f \in names |-> Len(files'[f])]
  /\ pc' = "down" /\ crashes' = crashes + 1
  /\ queue' = <<>> /\ batch' = <<>> /\ rows' = {} /\ active' = NoSegment
  /\ expired' = {} /\ reader' = Idle
  /\ UNCHANGED <<offered, dropped, nextId, doomed, catalog, lastCreated, late,
                 stored>>

Init ==
  /\ queue = <<>> /\ offered = 0 /\ dropped = {}
  /\ pc = "down" /\ batch = <<>> /\ rows = {} /\ nextId = 1 /\ active = NoSegment
  /\ expired = {} /\ doomed = 0
  /\ segments = <<>> /\ sessions = <<>>
  /\ files = <<>> /\ synced = <<>>
  /\ reader = Idle
  /\ lastCreated = 0 /\ late = FALSE /\ stored = {} /\ crashes = 0

Next ==
  \/ \E time \in Times : TryStore(time)
  \/ Start \/ Writer \/ Fails
  \/ \E id \in DOMAIN sessions : Lookup(id)
  \/ ReadPayload \/ Respond
  \/ Crash

Spec == Init /\ [][Next]_vars

\* The thread runs whenever it can: it blocks only in blocking_recv.
FairSpec == Spec /\ WF_vars(Start) /\ WF_vars(Writer)

-----------------------------------------------------------------------------
(* Correctness. *)

Keys(s) == {s[i].key : i \in DOMAIN s}

Pcs == {"down", "receive", "append", "open", "insert", "expire", "unlink",
        "write", "commit", "stopped"}

\* Types, and the bounds of the queue and of a batch.
TypeOK ==
  /\ pc \in Pcs
  /\ queue \in Seq([key : Nat, time : Nat]) /\ Len(queue) <= Capacity
  /\ batch \in Seq([key : Nat, time : Nat]) /\ Len(batch) <= BatchMax
  /\ offered \in Nat /\ dropped \subseteq Nat /\ nextId \in Nat \ {0}
  /\ active \in [id : Nat, created : Nat, size : Nat]
  /\ DOMAIN synced = DOMAIN files

\* What the catalog says of a session can be read back: its segment is
\* there, the file too, and the record at the offset is that of the session.
\* No crash, no error and no rotation between two steps may break it, as long
\* as no run began late.  One that does numbers its first segment above older
\* ones that are younger by name: retention takes it while it is the active
\* one, its id is free again, and rows point into another segment's file.
Points(i, row) ==
  /\ row.segment \in DOMAIN segments
  /\ LET file == segments[row.segment]
     IN  /\ file \in DOMAIN files
         /\ row.offset \in DOMAIN files[file]
         /\ files[file][row.offset] = [id |-> i, key |-> row.key]
Resolvable == ~late => \A i \in DOMAIN sessions : Points(i, sessions[i])

\* Sessions are numbered in the order they were accepted, also across
\* restarts, and none is stored twice.
IdsFollowArrival ==
  \A i, j \in DOMAIN sessions : i < j => sessions[i].key < sessions[j].key

\* The rows of a batch are committed (docs/storage.md:150): they refer to
\* segments that are there and carry ids of their own.  A refusal loses the
\* batch and ends the writer for good.  This is false of a batch that spans more
\* segments than are retained, since retention runs between its rows.
BatchCommits == pc = "commit" => Insertable

\* The segments that rows of the batch lie in.
Spanned == {r.segment : r \in rows}

\* A batch that spans no more segments than are retained is never refused,
\* whatever its length: retention, between any two of its rows, takes segments
\* of earlier batches only.  This too as long as no run began late.
BatchAccepted == ~late /\ Cardinality(Spanned) <= Retention => BatchCommits

\* A reader that is given a payload is given that of the session it asked
\* for, whatever the writer removes between its two steps.
ReaderSound == reader.state = "read" => reader.got = reader.asked

\* What the writer and its queue hold leaves them into the catalog only: no
\* session is lost between queue, batch, rows and catalog while the thread goes on.
Held == Keys(queue) \cup Keys(batch) \cup {r.key : r \in rows}
NothingForgotten ==
  [][Held \subseteq Held' \cup stored' \/ pc' \in {"down", "stopped"}]_vars

\* What the bounded queue took is committed in the end, or the writer ended with
\* it: nothing is forgotten, and there is again and again a time when nothing
\* waits (sessions come to an end with MaxSessions).
Progress == NothingForgotten /\ []<>(Held = {})
=============================================================================
