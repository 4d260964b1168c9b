# A TLA+ model of newhatch

newhatch records the TCP traffic of a host, or of several, reassembles it, recognises HTTP, and keeps
what it saw as *sessions* that a web interface browses. This directory holds TLA+ modules translated from
its source, TLC configurations that check them on small instances, and proofs that TLAPS checks for all
instances. Paths below are relative to the repository; `flow.rs`, `storage/`, … without a directory are
those of `crates/analyzer/src`.

## 1. The system

| component | state | operations | talks to |
|---|---|---|---|
| **Collector capture** `crates/collector/src/capture.rs` | BPF filter, link to a snapshot of the Sources | rebuild the filter, capture, `try_send` | queue → transport; watch channel ← transport |
| **Collector transport** `crates/collector/src/transport.rs` | the connection, the half-read frame, the snapshot | connect, handshake, `select!` of packet / frame / report, back off | frames ↔ receiver |
| **Protocol** `crates/protocol/src/lib.rs` | none | `write_frame`, `read_frame`, encodings | |
| **Collector receiver** `collector.rs` | a task per connection with its active Sources; the registry | Hello, push Sources, receive packets and counters | catalog, revision, flow workers |
| **Local capture** `capture.rs`, `packet.rs` | BPF filter | as the collector's, from the catalog | flow workers |
| **Flow workers** `flow.rs`, `protocol.rs` | a table of flows per worker; per flow two `TcpAssembler`s, kept streams, protocol decision | `ingest`, `finish`, `expire_idle` | HTTP preprocessor; sessions → storage |
| **HTTP preprocessor** `http_sessions.rs` | two decoders, queued requests, response backlog | `feed`, `close_response`, `finish` | called by the flow |
| **Storage** `storage/mod.rs`, `segment.rs`, `record.rs`, `schema.rs` | bounded queue, batch, open segment; segment files; SQLite | `try_store`, `run_writer`, rotation and retention, `read_payload` | catalog, files |
| **Source catalog and API** `api.rs`, `storage/catalog.rs`, `domain.rs` | Sources, sessions; `revision` watch channel | create/update/delete Source, list, read, export | everything |
| **Chains** `storage/chains.rs` | cursor of a client, snapshot of ids | `list`, `member_page`, deadlines | catalog, read only |
| **Attack rules** `attack_rules.rs`, `attack_rules/`, `storage/rules.rs` | the rule table | match, highlight, save; flag metadata refresh at start | catalog, payloads |
| **Authentication** `auth.rs` | `BoundedStore` of login sessions, verifier semaphore | login, logout, `require_session` | API |
| **Payload text and search** `payload_*.rs` | none | decode, map origins, search | API, chains |
| **Configuration, start-up** `config.rs`, `main.rs` | | spawn the tasks | |
| **Web interface** `frontend/src` | filters, pages, polls in flight | poll, filter, highlight, export | API |
| **newhatchctl** `newhatchctl-src/src` | event queue, running docker command | start, stop, logs, prompts, cancel | docker |
| Packaging, installer, tests | | | |

Packets flow capture → workers → storage; Sources flow API → catalog → both captures. The only shared
memory is the watch channels, the bounded queues, the registry and the database.

What is hard, component by component, and what has to hold:

* *TCP reassembly*: segments in any order, overlapping, repeated, disagreeing, a FIN ahead of its data,
  numbers that wrap around. Bytes are handed on once, in order, at once.
* *HTTP association*: the two directions arrive independently. A response is filed with its own request,
  under its own offset, whatever the interleaving, the cut and the mixture of interim responses, HEAD, CONNECT,
  upgrades, pipelining and bodies that end with the connection. Queues are bounded; loops end.
* *Flow workers*: lost, repeated and reordered packets; a tuple used twice; timeouts in mid-connection;
  a protocol recognised late; a full table. Sessions are never mixed, are stored once, and what was captured whole
  is stored whole.
* *Storage*: two persistence systems and one writer. Crashes and errors between any two steps, retention
  inside a batch, readers next to the writer. What the catalog says can be read.
* *Collector link*: lost connections and restarts, reads torn by their `select!`, edits at any moment,
  connections that overlap. The collector's filter follows the catalog.
* *Chains and pages*: a chain is no stored object but what a request derives from the sessions of its
  SQLite snapshot, while late sessions bridge chains, retention takes members away and the rule is edited. A
  client that follows cursors sees each chain and session once, misses none that stayed, and ends. A bucket is
  decided by the whole chain, whatever filter or page shows it.
* *Attack rules*: a bounded gap between steps that may repeat: the first viable prefix is not always the one
  that completes.
* *API and authentication*: handlers that suspend between two statements, or are dropped there while a
  closure on a blocking thread runs on; a save of the session layer racing a logout; three statements
  without a transaction. Nobody comes back after signing out, permits bound the work, the local
  capture works with the Sources of the last edit.
* *Flag metadata*: pages committed one by one, the setting last, a process that may end anywhere.
* *newhatchctl*: keys, worker events and cancellation; a queue full of output; containers that others start
  and stop. No command hits a service the user has not agreed to; operations and the program come to an end.
* *Web interface*: answers to polls overtaken by a filter change; not modelled (section 7).

## 2. The modules

| module | models | how state and actions correspond |
|---|---|---|
| `TcpAssembler` | `TcpAssembler` of `flow.rs` | variables named as the fields; `Push`, `FinSeen`, `SeedAt`, `Closed`, `HasGap` are the methods. The `loop` at the end of `push` is the operator `Drain`, one turn a `DrainOne`. Sequence numbers are modulo `Modulus`, compared by signed wrapping difference. |
| `HttpSessions` | `http_sessions.rs` | `request`, `response` are the two `Decoder`s; `requests`, `responses` the queues. `Feed…`, `CloseResponse`, `Finish` are the methods; each turn of their loops (`ReadRequest`, `ReadResponse`, `ChunkDone`, `FlushChunk`, `FlushDone`) is a step. A message head is one token, and each unit of a body. |
| `FlowWorker` | `flow.rs`, `protocol.rs` | `flows` is the worker's `HashMap`; a flow record has the fields of `FlowState`. `HandlePacket` is the worker's packet branch with `Ingest`, `Consume`, `Finish`; `ExpireIdle` the tick; `Shutdown` the drain. It uses small versions of the two modules above, one token a sequence number. |
| `StorageWriter` | `storage/mod.rs`, `segment.rs`, `record.rs`, `catalog.rs` as used | `pc` is where the writer thread stands between two effects on a file or the database. `active`, `rows`, `batch`, `nextId` are its locals; `segments`, `sessions` the tables; `files` the directory, `synced` what of it is durable; `Ends` is `run_writer` returning. `Lookup`/`ReadPayload` are an API reader. `late` is history: some run began with a session no younger than a segment opened before. |
| `CollectorLink` | `collector.rs`, `transport.rs`, the collector's `capture.rs` and `main.rs`, the edits of `api.rs`, frames of the protocol crate | `task[c]` is `handle_connection` on socket `c`; `conn`, `phase`, `reading` are `connect_once`; `filter`, `building` the capture loop. Each branch of a `select!` is an action; the ones that preempt `read_frame` choose what it leaves (`Preempted`). |
| `SourceFeed` | nothing: the promise | the abstract specification of how Sources reach a collector: a snapshot only ever replaced by a newer one, that follows the catalog. `CollectorLink` implements it (`Feed == INSTANCE SourceFeed WITH …`): its steps are steps of the promise (`FeedSteps`, proved); that it follows the catalog in the end is part of `FilterFollows`. |
| `RuleMatch` | `attack_rules.rs` | operators: `NewMatch`, `Feed`, `Find` are the methods of `MatchState` and `CompiledRule`, `active` its prefixes. A condition is the set of event classes it accepts. `Occurrences` and `Explains` are the reference definition. |
| `Chains` | `storage/chains.rs`, the readers of `api.rs` and `catalog.rs`, `attack_rules/highlights.rs` as far as validity goes | `persisted`, `expired`, `rule` are the database; `cursor` is what the client sends next, `req` the request in progress. `ListChains`, `MemberPage` read in one transaction, so they are one step; a search is `BeginSearch`, `Lookup`, `Scan`, … on the set `req.seen`; the queries of `GET /api/sessions` have a connection each, so `FetchRows`, `ScanRow`, `BucketSessions` see the store as it is by then. `Correlated` is the reference definition of a chain. |
| `FlagRefresh` | `storage/rules.rs`, `refresh_flag_metadata` | `setting` is the row of `catalog_settings`, `flags` the regex each session's columns were made with; a page is a step. |
| `Api` | `auth.rs`, the Sources in `api.rs` and `catalog.rs`, the loop of `capture.rs`, the start in `main.rs` | extends `FlagRefresh`: the API serves when the refresh is done. `request[s]` is a handler and the await it stands at; `records` is `BoundedStore`; `verifier`, `reads` the free permits, `orphans` the closures whose handler was dropped; `sources` the table; `capture` the loop of the local capture, the Sources it has loaded and what its watch receiver has not seen. |
| `Control` | `newhatchctl-src/src`: `app.rs`, `model.rs`, `docker.rs`, `process.rs` | the variables of `App` by name; `worker.at` is where its thread stands between two effects on docker; `events` the bounded channel. Each branch of `tick` and each key is an action; `running` is the daemon's. |
| `DataLemmas` | | lemmas on finite sets of numbers, on sequences and on sums, for all the proofs: a greatest and a least element, what `Append` and `Tail` do to the elements, what a fold over a set of numbers returns and how it changes with an element. |
| `StorageWriterProof`, `TcpAssemblerProof`, `HttpSessionsProof`, `CollectorLinkProof`, `ApiProof`, `ControlProof`, `ChainsProof` | | the theorems about the module each is named after (section 5). |
| `MC…` | | conversations, scenarios and values for TLC. |

A `Slip` is a wrong variant of the definition after it, the kind of mistake a change to the code could
make. PROJECT.json lists which property catches which slip.

Every module contains its environment (the peers and the capture, the users, the network, the crash), since none
of the components means anything without it.

## 3. The runs

| run | question | instance |
|---|---|---|
| `tcp` | Is what the assembler hands on the stream, and does it give up for cause only? | nine bytes, numbers modulo 16 from 12, so they wrap; segments up to 3, up to 3 chunks or 5 bytes buffered; one byte may be forged, the FIN may be shown too early |
| `http` | Is each response filed with its own request? Does every call return? | all pairs out of 12 kinds of exchange and 27 pipelines of three, every interleaving and cut; 2 queued requests, 2 backlog chunks, 3 bytes |
| `flow` | Are sessions whole, once, unmixed, and does the table drain? | four scenarios, below |
| `storage` | Do ids follow arrival, is everything queued stored in the end, can a reader get another session's bytes? And as long as no run begins late, does the catalog resolve, and is a batch that spans no more segments than are retained committed? | 4 sessions of times 1..4, a queue and batches of up to 3, segments of duration 1, and so more rotations in a batch than the 2 segments retained; one crash and restart; a failure at any step; 1 087 365 states |
| `link` | Does the link implement `SourceFeed`, does the filter follow the catalog, does anything go twice, get refused or look alive? | five kinds of behaviour, below; two sockets |
| `chains` | Is each chain listed once, none missed, and each bucket that of the whole chain? Do the cursors end? | 2466 scripts of up to five sessions, pages of one, candidate budget 3 in chunks of 2, window 1; one session removed, or two, one rule edited twice; 435 148 states |
| `api` | Can anybody return after signing out? Do permits and flags hold, and does the local capture follow the edits? | up to three requests at a time of two browsers, a store of one session, one permit each; five scenarios, below |
| `control` | Does newhatchctl act only where agreed, keep the dependency, settle and leave? | a queue of one event; up to three keys that act, one change by others, one failure; a command that hangs |
| `storage_retention` | *violated* (section 6): `BatchCommits` | batches of 3, 2 segments retained |
| `flow_crossed` | *violated*: `Associated` | two connections, the second without its client SYN |
| `link_torn_push` | *violated*: `PushedIsTaken` | one edit, torn reads |
| `chains_cursor_back` | *violated*: `EveryPageAdvances` | the scripts `Disordered` alone |

Some properties come in two forms. `EveryPageAdvances` says what the code claims of its cursors, and is false of it in one case; `CursorAdvances`
says the same of all the others (`Orderly`), and is what `chains` checks and `ChainsProof` proves. `ListedOnce` stands to `NothingTwice`
as `CursorAdvances` does to `EveryPageAdvances`. `BatchCommits` and `BatchAccepted` are related in the same way, the condition being that the
batch spans no more segments than are retained and that no run began late.

The scenarios of `flow` (`MCFlowWorker`): `Single`, one connection of one of eight shapes (pipelined, split,
closing, WebSocket, TCP Fast Open, other protocols, too long), up to two packets captured again, any lost
or reordered, SYNs missed, a reset; `InTurn`, two connections on one tuple, the second numbered above or below
the first, with client SYNs seen; `Pausing`, timeouts at any moment; `Crowded`, two tuples and a table of one.

The behaviours of `link` (`MCCollectorLink`): two edits and a packet with one fault of either side or of
the link at any moment, with handlers that are dropped, or with reads torn that then hang; one edit with a fault and reads
torn of which the connection ends, and with a packet on its way through torn reads.

The scripts of `chains` (`MCChains`): `Listings`, every arrangement of four sessions of one key over four instants with the last
one late, searched or not; `Mixed`, a second key, a legacy row, an empty record, filters, buckets and an edit of the rule;
`Members`, the pages of one chain, pinned to the listing's snapshot or not; `Known`, every sequence of up to eight events for
rules of three steps with gaps of 0 to 2; `Explained`, the match of a listing explained after edits and removals; `Crossed`, two keys side by side, searched while
retention removes two sessions, in any order or lowest ids first (`oldestFirst`). The searched ones of `Listings` and `Mixed` come in both
forms as well (`Removals`). In those where any session may go, `NothingTwice` and `EveryPageAdvances` are not promised (`Orderly`), but
`ListingComplete` and `BucketExact` are; `Disordered` is the part of `Crossed` in which they fail.
`ScriptsAssumption` says what a script is, `NoneAssumption` that `None` is none of the values it stands next to.

The scenarios of `api` (`MCApi`): `SignIns`, sign-ins and sign-outs with expiry and a restart; `Browses`, chain queries
and sign-ins whose clients leave; `SourceEdits`, two at a time
next to the local capture; `Failures`, edits while the capture ends with an error, and a restart; `Refreshes`, up to four starts with a changing FLAG_REGEX.

**Bounds.** All limits of the code are constants, so the small values reach every limit: queues, buffers
and tables do fill, retention does expire, sequence numbers do wrap. Two connections are enough for what a tuple
keeps of its past, since a flow is compared with the packet in hand only; two sockets for overlapping
connections, since `connect_once` holds one and older tasks do not interact but through the registry; two edits
for a snapshot that could go back; one crash for each of the writer's steps, since a restart keeps nothing but
the files and the catalog. A captured segment is within a window of the edge (`Window`, less than half the
number space: TCP never has 2^31 bytes in flight); its payload is no longer than the window, and the places where a
FIN is shown are less than a turn of the numbers apart. A server switches protocols only when asked to, and sends
nothing after a response that ends with the connection (`ScriptsAssumption`): to the code a 101 has no body and starts a
WebSocket whether asked for or not, and whatever follows such a response is part of it. Packets of a connection that come after the next one on its
tuple has opened are not modelled. `WireMax = 1` lets each write wait.
Sessions of one flow are never more than its script says. For the chains four sessions are enough to have one that bridges
two others, and one outside; a page of one and a budget of three put the end of a page and of a budget at every position;
the window is compared with a difference of starts only, so instants 0..3 give below, at and above it. For the API three
slots allow a request to be overtaken by two others, and two edits at a time, of up to four, are enough for one to
change the table between two statements of the other and between two steps of the capture. The other scenarios are those of an
analyzer in remote mode, which has no local capture; a capacity of one makes the second sign-in meet a full store. `Control` needs a queue
of one event to fill it with each line; a plan has at most three steps, all of which occur.
No other bound cuts a behaviour off.

`CHECK_DEADLOCK FALSE` stands in the runs whose behaviours end: all bytes shown, all sessions offered, all
connections over, all requests asked, all pages read, the program left. The link never stops (it reports every two seconds), and its deadlock check is on.

**Symmetry** is used for the slots and the browsers of `api`, whose properties are invariants that quantify over all of
them. No run with a temporal property has any.

## 4. Fairness

* `HttpSessions`: weak fairness of the loops' turns. They are synchronous code of one task.
* `FlowWorker`: the one-second tick happens, and time passes on a flow that gets no packets. Packets and
  new connections are not fair; the capture owes nothing.
* `StorageWriter`: the thread runs when it can; it blocks in `blocking_recv` only. Crashes and errors are not
  fair. `Progress` says that no session leaves queue, batch and rows but into the catalog (`NothingForgotten`) and that they are empty
  again and again. It is over when the writer ends: nothing restarts the thread in a running process. That only `MaxSessions` are offered makes
  "empty" something to ask for; a queue that is filled for ever never is.
* `CollectorLink`: every spawned task is polled again, tokio's `select!` starts at a random branch so each
  ready branch is taken in the end, and a broken link is noticed in the end. The last is an assumption on
  the kernel: the receiver has no read timeout, but a task that writes, or TCP keepalive where it is on,
  notices; the collector writes a report every two seconds. Edits, packets and faults are not fair.
  `FilterFollows` is stated of behaviours that are `Minded`: no handler of an edit is dropped, and
  no torn read leaves a length that the frames to come do not fill. In the others it fails: see section 6.
  A torn read of which the connection ends (`"lost"`) is within them.
* `Control`: the worker's thread runs, a command of docker ends unless the scenario says that it hangs, and `run` calls `tick` at
  least every 100 ms. No key is fair: nobody has to press one. `Settles` is stated of scenarios without a command that hangs, since
  `execute` waits without a limit; `Leaves` of all.
* `Chains`, `Api`, `FlagRefresh` have safety properties only. That following cursors ends is `CursorAdvances`: each page
  with a cursor has moved it in a well-founded order.

## 5. What is proved

Everything below holds for every value of the constants that satisfies the `ASSUME`s of the module: any number of
sessions, sockets, requests, any bounds of the queues, and so on. Each argument has the same shape: an inductive invariant, a
lemma for each action that the action preserves it, a lemma that combines them over `[Next]_vars`, and a theorem per
property that draws the conclusion. The runs check the same properties, and TLC checked the invariants before they were proved.

**`StorageWriterProof`**

| theorem | states | holds if |
|---|---|---|
| `CatalogResolves` | `Resolvable`: whatever the catalog says of a session can be read back, from its file, at its offset | (`~late` is part of it) |
| `TypesHold` | `TypeOK`, with the bounds of the queue and of the batch | |
| `NothingIsForgotten` | `NothingForgotten`: what is queued stays in the queue, the batch or its rows until it is in the catalog or the writer has ended | |
| `NumberedInOrder` | `IdsFollowArrival`: ids follow the order in which sessions were offered, over restarts too | |
| `ReadersHold` | `ReaderSound`: an API reader gets the session it looked up or an error, never another | `~late` |
| `BatchesHold` | `BatchAccepted`: a batch whose rows lie in no more segments than are retained is not refused, whatever its length | (`~late` is part of it) |

`Resolvable` is not inductive. A commit keeps it only if the rows of the batch are good (`RowsSafe`: the
payload of each is in the file its segment row names, unless that row has expired, in which case the foreign key
refuses the transaction; and before the commit it is synced). A rotation keeps it only if the segment being opened
is the newest, so that retention cannot take it away and no other file has its name (`Fresh`, `Newest`,
`ActiveKnown`, `Doomed`, with `Ordered` and `Created`: ids and creation times grow together). A crash keeps it only if the
committed records are synced (`SessionsSafe`). `IInv` is the conjunction of these with the types. `ReaderSound` adds that the segment a
reader has looked up either is still there or has been expired for good, since ids of segments only grow (`Latest`, `ReaderKnows`);
`BatchAccepted` adds that every segment newer than one the batch has rows in holds a row of the batch too, or is about to (`RowsKept`,
`Touched`). So when retention takes a segment of the batch, there are `Retention` newer ones in which the batch has rows, and it
spans more segments than are retained.
`Fresh` is what a run that begins late breaks, so this invariant is one of the states before that (`late` stays true once it is); `TypeOK`,
`IdsFollowArrival` and `NothingForgotten` have invariants of their own that hold of late runs too. Neither condition is an artefact: section 6 shows what the
code does without them. `ReaderSound` is checked of late runs as well, and not proved of them.

**`TcpAssemblerProof`**

| theorem | states |
|---|---|
| `StreamInOrder` | `InOrder`: what has been handed on is the stream from its first position, each byte once, where the capture is honest about it |
| `NothingHeldBack` | `Prompt`: between two packets, everything up to the first byte not shown has been handed on |
| `ClosedIsComplete` | `ClosedComplete`: a closed direction was handed on up to its FIN |
| `GivesUpForRoom` | `FailsForCause`: on an honest capture the assembler fails for want of room only |
| `TypesHold` | `TypeOK`: `pending_bytes` is the sum of the buffered chunks and within its limit, whatever is added, grown, trimmed or drained |

The assembler knows sequence numbers and the properties are about positions. That a signed wrapping difference is the
difference of two positions holds only for numbers less than half the number space apart, so the invariant has to keep
everything the assembler compares together (`Placed`: each buffered chunk is at a position within a window of the edge; `Spread`: no
two are further apart than the comparison bears). `Anchored` ties `next` to the position of the edge, `Chunks` bounds the buffer,
`Agree` says that chunks which claim the same byte claim it as the capture showed it, `Handed` is what was handed on, `Covered` that every byte
shown and not given up is handed on or buffered (for `Prompt`), `FinPlace` and `Honest` where the FIN is and when the capture has lied (for
the last two). The modular arithmetic is a section of lemmas of its own. `Modulus` is any even number and `Window` any
width below half of it: the theorem covers 2^32. For `TypesHold` the invariant is `Metered` on top of these; that a chunk added, grown or taken changes the
sum by its length is a lemma about folds (`DataLemmas`: `SumIs`, proved by induction over the size of the set).

**`HttpSessionsProof`**

| theorem | states |
|---|---|
| `AssociatedAlways` | `Associated`: each exchange handed on is a request with its own response, once each, in the order of the requests |
| `OwnBytesAlways` | `OwnBytes`: it holds the bytes of these two messages, and is filed under the offsets where they begin |
| `AllAccountedAlways` | `AllAccounted`: on a connection fed to its clean end no request is missing without having been counted |
| `TypesHold` | `TypeOK`: `request_bytes` and `response_bytes` are the sums of what is held, within `max_session_bytes`, and the queues within their numbers |

They hold of every set of conversations of any length that satisfies `ScriptsAssumption`, every cut, and all values of the limits.
The code keeps no number of an exchange: which response answers which request is only in how far the two decoders have got. So the
invariant `HttpInv` says where they are. It names, for some `m`, `x`, `y` and `at`, how many requests have joined the queue, how
much of each direction has been fed, and where on the server's wire each chunk of the backlog begins. Then the client's decoder is
in request `m + 1`, at the byte its counters say (`Reading`, `Asking`); the queue holds the last requests up to `m`, in order, each
whole or dropped (`Queue`); the server's decoder is in the response to the oldest queued request, and its bytes, the backlog and the
chunk in hand lie end to end on the wire (`Replying`, `Answering`, `Placed`, `Laid`). What has been handed on is its own (`Handed`),
`Accounted` counts it, `Steering` relates the loops and the two ways to an end. Beneath it are lemmas on partial concatenations (the byte
at a place of the wire belongs to one message), on stretches of a sequence, and on what each decoder does with a byte; where they need
induction they argue over the least natural number without the property.

That the request counter never exceeds the limit is not inductive: a request of any size may be finished. `Bounded` adds that the queue *and* the
request being read stay within it together, since the budget of a request is what the queue leaves (`RetainRequest`, `HeadOfRequest`), and the queue
only shrinks while it is read. TLC checked it on all states of the `http` instance first.

**`CollectorLinkProof`**

| theorem | states |
|---|---|
| `LinkImplementsFeed` | `FeedSteps`: each step of the link is a step of `SourceFeed`, or leaves what it is about alone |
| `OnceAtMost` | `AtMostOnce`: no packet is forwarded twice |
| `PacketsKnown` | `NoneRefused`: a serving task works with a snapshot at least as new as the one each packet on its wire was captured under |
| `NeverLeftOnline` | `OfflineShown`: with no task past its Hello the registry shows the collector as disconnected |
| `TypesHold` | the types of the state |

`LinkInv` follows the Sources along their way: the snapshots on a wire are in the order of their revisions (`Ordered`), nobody holds
one newer than the catalog (`Behind`), and the task that serves has sent, and so works with, each snapshot a packet on its way to it can have
been captured under (`Covered`); packets leave the queue in the order they entered it and each is in one place (`QueueOrdered`, `SentOnce`,
`DeliveredOnce`).

**`ApiProof`**

| theorem | states | holds if |
|---|---|---|
| `SignOutHolds` | `SignedOut`: a record signed out of, or replaced by a new sign-in, is never stored again, whatever the session layer saves late | |
| `PermitsBound` | `WorkBounded`: verifications and reads in progress never exceed the permits, closures whose handler was dropped included | |
| `CaptureInStep` | `CaptureFollows`: once all edits are answered and the last revision is seen, the capture works with the Sources of the table | no edit's handler is dropped (`Leaving \cap Edits = {}`) |
| `FlagsInStep` | `FlagsCurrent`: when the API serves, the flag columns are of the regex of the process | `~Reverts` |
| `TypesHold` | `TypeOK` | |

`FlagsCurrent` follows from two facts about the refresh (`RefreshInv`): the setting is at most each flag's regex and each flag's
at most that of the process (`Between`), and the pages done are current (`Progress`). Section 6 describes both excepted cases.

**`ControlProof`**: `ConsentGiven` (`Consented`: a command for another service than the one chosen runs only when the user accepted that very dialog), `DependencyHolds`
(`DependencyKept`: the analyzer is not stopped under a running frontend, nor the frontend started without an analyzer) and `OneOperation`
(`OneAtATime`: the dialog belongs to a dashboard at rest, and an operation has the screen until its final event). `ControlInv` relates the screen, the pending choice and the plan to what the worker has left to
do (`Turns`, `Screen`, `Choice`, `Plan`), and what the daemon runs to where the worker stands in its plan (`Kept`).

**`ChainsProof`**

| theorem | states | holds if |
|---|---|---|
| `EverythingListedOnce` | `ListedOnce`: no two chains of a listing share a session, no row or member comes twice | (`Orderly` is part of it) |
| `CursorsAdvance` | `CursorAdvances`: every page with a cursor, an empty one too, has got further | (`Orderly` is part of it) |
| `NothingIsMissed` | `ListingComplete`: at the end of a listing, what was there at its first page and has kept all its members is in it if, and of chains only if, it was asked for | (as long as no rule is edited, which is part of it) |
| `BucketsExact` | `BucketExact`: the bucket of a row is the first explanation of the rule in the whole chain the row belongs to; a listed match is explained while it is current, and refused as stale after it | |
| `FindsFirst` | `Find` (`MatchState::feed` over a sequence) meets `Explains`: it finds an occurrence if there is one, and the one complete first | |
| `ListingsInvariant` | `IInv`, the inductive invariant behind the first two | |

They hold of any sessions, rules, windows, page sizes and budgets, and of anything persisted, removed or interrupted between two requests. A chain is no stored
object, so the proof begins with what deriving it anew can do: chains partition what is visible (`ChainsPartition`), a session removed never
joins two (`ChainsShrink`: what is left of a chain is a union of later chains), late sessions are above the pinned snapshot, and a chain that has lost
its first members is not found below where it was (`PlaceRises`); if the lowest ids go first, the pending one is gone or whole, and so where it was (`ChainKept`). `Listings`
says for each of the three listings how the client's cursor, the request in progress and what was listed lie to each other: what a later page can
still contain is disjoint from, and below, all that was listed (`ListsOnce`, `ListingIs`), the pending chain lies below the cursor's position
and its saved position is in it (`PendingKnown`), what a scan has still to read lies behind the saved position (`RestIs`, `SearchIs`).
`Orderly` excepts one case, a payload search of chains while retention takes a later session of a chain before an earlier one; there
`NothingTwice` and `EveryPageAdvances` are false, of the model and of the code (section 6). The invariant was checked by TLC on all
states of `chains` before it was proved.

`NothingIsMissed` needs no such condition: a chain that moves up takes the cursor up, which can repeat a chain but not miss one. Its invariant
`Complete` says, of the chains that have kept all their members and that the client asked for: those above the cursor are listed, or found by the request in progress; what remains
of the one being searched lies behind its saved position, and what was read before held no hit. For rows and members it says that exactly
those up to the cursor are listed. At the end of the listing nothing lies below the cursor.

`FindsFirst` is proved event by event. After each, the prefix kept for step `k` is the latest one viable: it matches the first `k` steps within the
gaps, and no occurrence of them ends later (`Begun`, `Matching`); that is enough, since a continuation asks only how far back its prefix ends. `BucketsExact` puts three
things together: the chains the code finds through the last start before each session are those the definition by gaps divides them into
(`ChainsCorrelate`); the sessions read by a chain's range are its members (`RangeIs`); and a transaction has one place in the events of a chain, so the place of
a match can be found again by its session and ordinal (`OccurrenceRises`, `ExplanationIs`). Its invariant `Buckets` says of the cursor,
of every request on its way and of the page that their rule is a rule of the script and that what they carry is exact for it; it needs `IInv` for what was
visible, and no hypothesis on the order of removals. That a rule has at least one step and a natural gap is `ScriptsAssumption`; `attack_rules.rs:189` refuses others.

**Only model-checked**

* Liveness under fairness, that of the refinement included: `Progress`, `Returns`, `Drains`, `FilterFollows`, `Settles`,
  `Leaves`. The prover has no rules for `WF_` of actions as large as these, nor for `ENABLED`.
* The invariants of `FlowWorker`, which composes small versions of two modules whose theorems are proved above in full.

## 6. Where the code and its documents disagree

Run, with a counterexample:

* **A batch can outlive its segment** (`storage_retention`). `ensure_active` expires segments between
  two rows of one batch; a batch spanning more rotations than segments are retained loses the segment of its first
  rows before they are committed, the foreign key refuses them, and the writer thread ends for good. With one
  retained segment, which the configuration accepts, one rotation is enough.
* **A push can be torn** (`link_torn_push`). `read_frame` is not cancellation-safe and is polled in a
  `select!` with branches that complete on their own. The receiver has the same form: there a changed revision can tear a
  packet frame, which is lost without being counted. No document promises that packet, so no property asks for it.
* **Two connections can be crossed** (`flow_crossed`). When the second connection's client SYN is lost as well as
  the first one's server packets, the server SYN of the second becomes the missing anchor of the first.
* **A cursor that goes backwards** (`chains_cursor_back`). A pending
  chain is found again by its lowest id and completed at the position it has then
  (chains.rs:374). Retention takes the newest of several surplus segments first, and goes by `created_at`, not by id, when a run began with a late
  session; so the session that gave the chain its start can go before the one with the lowest id. The chain has then moved up the list, the
  empty page that completes it takes the cursor up with it, against chains.rs:384 ("Empty search pages still have a advancing cursor"), and
  the chains in between are searched again and, when they have a hit, listed again: of the same scripts `NothingTwice` is false as well. With retention in the order of ids it is
  proved that neither happens.

Met while modelling and expressible in the model, but without a run of their own. The first three are behind the conditions of properties that
hold: dropped as the parentheses say, TLC finds the property violated.

* *A late first session* (`Resolvable` without `~late`). After a restart, a first session that ended before every
  retained segment was created (clock set back, lagging collector) opens the oldest segment, which
  `expire_old_segments` removes at once while `active` keeps it. Its id is free again (no AUTOINCREMENT), the
  next rotation takes it, and the committed row points into another file; docs/storage.md:155,167 rule that out.
* *A dropped handler* (`CaptureFollows` with edits in `Leaving`, `FilterFollows` without `Minded`). The HTTP client of an edit goes away while the handler awaits the
  commit: the edit is committed and `notify_source_change` never runs (api.rs:221, against docs/architecture.md:25 and README.md:81), neither for the
  local capture nor for the collectors.
* *A FLAG_REGEX that goes back* (`FlagsCurrent` with `Reverts = TRUE`). A refresh for a new FLAG_REGEX is cut short after a page, and the next start has the
  old one again: the setting still names the old revision, nothing is made anew, and the page keeps the new columns
  (storage/rules.rs:97-103 against docs/session-filtering-v2.md:60-68). In `api` the pattern does not go back.
* *An old task speaks for a new connection* (`OfflineShown` has no converse). `registry.disconnected(id)` goes by collector (collector.rs:224): when a
  link breaks silently and the collector is back before the old task notices, the old task's end marks the working connection as offline
  (against test/collector_split/README.md:19), and its packets and reports do not change that.
* *A starved reader.* A tear inside the four bytes of the length leaves a length of some thousand bytes; the
  reader waits for them, and neither side has a read timeout once the handshake is over.
* *A FIN captured again after its flow's end* makes a flow with neither a client SYN nor payload;
  the next connection's client SYN does not look new to it (against docs/http-sessions.md:118), and its own FIN
  makes the assembler fail. `AllStored` excepts this case (`fate = "joined"`).
* *A Source that comes back under a request.* `create_source` restores a deleted row and then reads its id by port, without a transaction
  around the two. When another request deletes or moves the row in between, the answer is an error although the edit was made, or has the id of
  another row; the revision is not bumped by the failed one. `CaptureFollows` holds because the other request bumps it. An SQL error of another kind at that place
  (catalog.rs:79-83) would leave the edit unannounced as a dropped handler does; it is not modelled.
* *A deleted Source keeps its port.* An update to the port of a deleted Source is refused, since `UNIQUE` knows no `deleted_at`;
  docs/storage.md:54 speaks of active ports.
* *Logs behind an operation.* In newhatchctl an action waits behind a refresh; when the user opens the logs meanwhile, the refresh's end
  starts the action, which takes the screen while the log command is left running behind it, until Escape.
* *A capture that has ended.* The first error of `capture::run` ends its task, which main.rs:71 logs; nothing starts it again while the API
  serves (`CaptureFails`). No document says otherwise; `CaptureFollows` is about a capture that runs.
* *Without SYNs a raw record may be whole in name only.* The stream begins at the first packet seen; one that was
  overtaken is trimmed as a retransmission, and the record is not marked incomplete (docs/architecture.md:52).
  `WholeWhenAnchored` is stated of flows whose two SYNs were seen.

## 7. Not modelled, and the plan

Left out on purpose: encodings, head and packet parsing, BPF, the incremental flag scan, timestamps other than
those rotation and adjacency compare, the peer allowlist and the origin checks, password hashing, schema migrations, the SQL of the
filters, which bytes a rule marks, drawing, logging. The hashing of tuples to workers makes
workers independent, so one is modelled. In `FlowWorker` a WebSocket upgrade in the middle of an HTTP
connection is left to `HttpSessions`. Payload text, its origins and its search are conversions of bytes: `Chains` uses
whether a session holds the text.

The modules were written in the order: `TcpAssembler`, `HttpSessions`, `StorageWriter` and its proof, `CollectorLink` over
`SourceFeed`, `FlowWorker` composing the first two in small; then `RuleMatch` and `Chains` over it, `FlagRefresh` and `Api` over it,
`Control`. Still open:

* the web interface's polls: an answer that comes after the filters have changed (`useTrafficFilters.ts`), exports;
* packaging.

The theorems still open, TLC having agreed with each: the invariants of `FlowWorker`.
