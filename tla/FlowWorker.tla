----------------------------- MODULE FlowWorker -----------------------------
(***************************************************************************)
(* A flow worker of the analyzer: FlowWorker and FlowState of              *)
(* crates/analyzer/src/flow.rs.  Captured packets are sorted into flows by *)
(* endpoint tuple, reassembled in each direction, recognised as HTTP, raw  *)
(* TCP or neither, and end up as sessions handed to the storage.           *)
(*                                                                         *)
(* The environment opens connections one after the other on each tuple.    *)
(* The capture loses packets, repeats and reorders them, but sees a        *)
(* handshake before the data that answers it: each peer waits for it.      *)
(*                                                                         *)
(* A direction of a connection is a sequence of tokens, one sequence       *)
(* number each; its SYN comes before and its FIN after them.  TcpAssembler *)
(* and HttpSessions are modules of their own, over bytes and chunks; here  *)
(* they appear with what the worker uses of them.                          *)
(***************************************************************************)
EXTENDS Integers, Sequences, FiniteSets, SequencesExt

CONSTANTS
    Key,          \* collector and endpoint tuple, all of one worker
    Scenarios,    \* what the peers and the capture may do, see below
    StreamMax,    \* max_stream_bytes, for what is kept while undecided
    PendingMax,   \* what TcpAssembler holds out of order
    RawAfter      \* 64 KiB: after so much without a hint of HTTP it is raw

Directions == {"c2s", "s2c"}
Other(d) == IF d = "c2s" THEN "s2c" ELSE "c2s"
None == -1000

(***************************************************************************)
(* A script gives each direction's tokens: [kind, of] where `of' numbers   *)
(* the exchange.  "request" and "response" are whole messages, "line" and  *)
(* "head" the two halves of a request, "closing" a response that ends with *)
(* the connection, "upgrade" and "switch" a WebSocket handshake, "garbage" *)
(* a line of another protocol, "bytes" anything else.  With fastOpen the   *)
(* client's SYN carries its first token; it closes only if it `ends'.      *)
(***************************************************************************)
(***************************************************************************)
(* A scenario says on how many tuples connections open (`keys'), what      *)
(* their peers may send (`scripts'), the initial sequence numbers of each  *)
(* tuple's connections (`bases'), how many packets are captured a second   *)
(* time (`copies'), whether a peer may reset (`resets'), of which          *)
(* directions the capture may lose the SYN (`missable'), whether           *)
(* idle_timeout may pass between packets (`idling'), and max_active_flows. *)
(***************************************************************************)
ASSUME WorkerAssumption ==
    /\ \A s \in Scenarios :
          /\ s.keys \subseteq Key /\ s.maxFlows \in Nat \ {0} /\ s.copies \in Nat
          /\ s.missable \subseteq Directions /\ {s.resets, s.idling} \subseteq BOOLEAN
          /\ \A b, c \in s.bases : b \in Seq(Int) /\ Len(b) = Len(c) /\ Len(b) > 0
    /\ StreamMax \in Nat \ {0} /\ PendingMax \in Nat /\ RawAfter \in Nat

VARIABLES
    scene,         \* the scenario
    script, base,  \* the connections each tuple will have
    life,          \* the number of the tuple's latest connection
    captured,      \* its packets captured so far
    copies,        \* packets captured again
    fate,          \* "joined" what an earlier one left, "spoiled" by a reset,
                   \* a refusal or a timeout, or "kept"
    flows,         \* the HashMap of the worker, NoFlow where it has no entry
    stored,        \* the sessions handed on, in order
    running

network == <<scene, script, base, life, captured, copies, fate>>
Lives == Len(CHOOSE b \in scene.bases : TRUE)
MaxFlows == scene.maxFlows
vars == <<network, flows, stored, running>>

-----------------------------------------------------------------------------
(* The packets of connection n of tuple k. *)

Tokens(k, n, d) ==
    [i \in DOMAIN script[k][n][d] |->
        [life |-> n, dir |-> d, at |-> i,
         kind |-> script[k][n][d][i].kind, of |-> script[k][n][d][i].of]]

Packet(d, at, data, flag) == [dir |-> d, at |-> at, data |-> data, flag |-> flag]

Syn(k, n, d) ==
    Packet(d, 0, IF d = "c2s" /\ script[k][n].fastOpen
                 THEN <<Tokens(k, n, d)[1]>> ELSE <<>>, "syn")
Syns(k, n) == {Syn(k, n, d) : d \in Directions}
Data(k, n) ==
    UNION {{Packet(d, i, <<Tokens(k, n, d)[i]>>, "none") : i \in DOMAIN script[k][n][d]} :
              d \in Directions}
Fins(k, n) ==
    {Packet(d, Len(script[k][n][d]) + 1, <<>>, "fin") :
        d \in {e \in Directions : script[k][n].ends}}
Rst == Packet("s2c", 0, <<>>, "rst")

Stream(k, n) == Syns(k, n) \cup Data(k, n) \cup Fins(k, n)
Packets(k, n) == Stream(k, n) \cup IF scene.resets THEN {Rst} ELSE {}

(* The SYNs of a connection that come before packet p. *)
Before(k, p) ==
    IF p.flag # "syn" THEN Syns(k, life[k])
    ELSE IF p.dir = "s2c" THEN {Syn(k, life[k], "c2s")}
    ELSE {}

InTime(k, p) ==
    /\ p.flag = "syn" => captured[k] \subseteq Before(k, p) \cup {p}
    /\ \A q \in Before(k, p) : q.dir \in scene.missable \/ q \in captured[k]

SequenceOf(k, p) == base[k][life[k]] + p.at

-----------------------------------------------------------------------------
(* TcpAssembler, one token at a time. *)

NewAssembler == [next |-> None, pending |-> <<>>, fin |-> None, failed |-> FALSE]

Seed(a, sequence) == IF a.next = None THEN [a EXCEPT !.next = sequence] ELSE a

(* What the tokens from `from' on hand to the consumer. *)
RunFrom(pending, from) ==
    LET end == CHOOSE e \in from .. from + Cardinality(DOMAIN pending) :
                  /\ e \notin DOMAIN pending
                  /\ from .. e - 1 \subseteq DOMAIN pending
    IN  [i \in 1 .. end - from |-> pending[from + i - 1]]

(* push: what becomes of the assembler, the tokens consumed, new or not. *)
Push(before, sequence, data) ==
    LET a == Seed(before, sequence)
        kept(b) == [a |-> b, out |-> <<>>, accepted |-> FALSE]
        run == RunFrom(a.pending, sequence + 1)
    IN  IF before.failed \/ data = <<>> THEN kept(before)
        ELSE IF sequence < a.next THEN kept(a)
        ELSE IF a.fin # None /\ a.fin <= sequence THEN kept([a EXCEPT !.failed = TRUE])
        ELSE IF sequence = a.next
        THEN [a |-> [a EXCEPT !.next = sequence + 1 + Len(run),
                              !.pending = [s \in {t \in DOMAIN @ : t > sequence + Len(run)}
                                             |-> @[s]]],
              out |-> data \o run, accepted |-> TRUE]
        ELSE IF sequence \in DOMAIN a.pending
        THEN kept([a EXCEPT !.failed = a.pending[sequence] # data[1]])
        ELSE IF Cardinality(DOMAIN a.pending) >= PendingMax
        THEN kept([a EXCEPT !.failed = TRUE])
        ELSE [a |-> [a EXCEPT !.pending = [s \in DOMAIN @ \cup {sequence} |->
                                              IF s = sequence THEN data[1] ELSE @[s]]],
              out |-> <<>>, accepted |-> TRUE]

Fin(a, sequence) ==
    [a EXCEPT !.fin = sequence,
              !.failed = \/ @
                         \/ a.fin \notin {None, sequence}
                         \/ a.next # None /\ sequence < a.next
                         \/ \E s \in DOMAIN a.pending : sequence <= s]

Closed(a) == ~a.failed /\ a.fin # None /\ a.fin = a.next
HasGap(a) == a.failed \/ a.pending # <<>> \/ (a.fin # None /\ ~Closed(a))

-----------------------------------------------------------------------------
(* HttpSessions, one token at a time: each call gives the state and the    *)
(* exchanges that are ready.                                               *)

NoHttp == [on |-> FALSE]
NewHttp == [on |-> TRUE, requests |-> <<>>, part |-> <<>>, responses |-> <<>>,
            open |-> <<>>, closed |-> "no", failed |-> FALSE]

Fed(h, ready) == [http |-> h, ready |-> ready]
Failed(h) == [NewHttp EXCEPT !.failed = TRUE, !.closed = h.closed]
Exchange(request, response, incomplete) ==
    [kind |-> "http", c2s |-> request, s2c |-> response, incomplete |-> incomplete]

Respond(h, token) ==
    IF h.open # <<>> THEN Fed([h EXCEPT !.open = Append(@, token)], <<>>)
    ELSE IF token.kind = "response"
    THEN Fed([h EXCEPT !.requests = Tail(@)], <<Exchange(Head(h.requests), <<token>>, FALSE)>>)
    ELSE IF token.kind = "closing" THEN Fed([h EXCEPT !.open = <<token>>], <<>>)
    ELSE Fed(Failed(h), <<>>)

After(ready, fed) == Fed(fed.http, ready \o fed.ready)

FinishOpen(fed) ==
    LET h == fed.http
    IN  IF h.failed \/ h.closed = "no" \/ h.responses # <<>> \/ h.requests = <<>> \/ h.open = <<>>
        THEN fed
        ELSE Fed([h EXCEPT !.requests = Tail(@), !.open = <<>>],
                 Append(fed.ready, Exchange(Head(h.requests), h.open, h.closed = "unclean")))

FlushOne(fed, token) ==
    IF fed.http.failed \/ fed.http.requests = <<>> THEN fed
    ELSE After(fed.ready, Respond([fed.http EXCEPT !.responses = Tail(@)], token))

Flush(h) == FinishOpen(FoldLeft(FlushOne, Fed(h, <<>>), h.responses))

(* What the client's next token adds to. *)
Asks(h, token) ==
    \/ h.part = <<>> /\ token.kind \in {"request", "line"}
    \/ h.part # <<>> /\ token.kind = "head"
Asked(h, token) ==
    IF token.kind = "line" THEN [h EXCEPT !.part = <<token>>]
    ELSE [h EXCEPT !.part = <<>>, !.requests = Append(@, Append(h.part, token))]

ThenFlush(fed) == After(fed.ready, Flush(fed.http))

FeedHttp(h, token) ==
    IF h.failed THEN Fed(h, <<>>)
    ELSE IF token.dir = "c2s"
    THEN IF Asks(h, token) THEN Flush(Asked(h, token)) ELSE Fed(Failed(h), <<>>)
    ELSE IF h.requests = <<>> THEN Fed([h EXCEPT !.responses = Append(@, token)], <<>>)
    ELSE ThenFlush(Respond(h, token))

FeedOne(fed, token) == After(fed.ready, FeedHttp(fed.http, token))
FeedAll(h, tokens) == FoldLeft(FeedOne, Fed(h, <<>>), tokens)

CloseResponse(h, clean) ==
    Flush([h EXCEPT !.closed = IF clean THEN "clean" ELSE "unclean"])

HasPending(h) ==
    h.failed \/ h.requests # <<>> \/ h.part # <<>> \/ h.responses # <<>> \/ h.open # <<>>

-----------------------------------------------------------------------------
(* FlowState. *)

NoFlow == [live |-> FALSE]
Both(x) == [d \in Directions |-> x]

NewFlow ==
    [live |-> TRUE, syn |-> Both(None), paid |-> FALSE, ordered |-> Both(NewAssembler),
     kept |-> Both(<<>>), truncated |-> Both(FALSE), http |-> NoHttp,
     rawDecided |-> FALSE, suppressed |-> FALSE, responseEof |-> FALSE,
     silent |-> FALSE,   \* idle_timeout has passed since last_payload ...
     unseen |-> FALSE]   \* ... and since last_seen

(* Slip: only the server's SYN is compared. *)
IsNewConnectionAnswered(f, p, sequence) ==
    p.flag = "syn" /\ p.dir = "s2c" /\ f.syn[p.dir] \notin {None, sequence}

IsNewConnection(f, p, sequence) ==
    /\ p.flag = "syn"
    /\ IF p.dir = "c2s" /\ f.syn[p.dir] = None THEN f.paid
       ELSE f.syn[p.dir] \notin {None, sequence}

RequestHttp(f) ==
    f.kept["c2s"] # <<>> /\ Head(f.kept["c2s"]).kind \in {"request", "line", "upgrade"}
ResponseHttp(f) ==
    f.kept["s2c"] # <<>> /\ Head(f.kept["s2c"]).kind \in {"response", "closing", "switch"}
Has(tokens, kinds) == \E i \in DOMAIN tokens : tokens[i].kind \in kinds

(* The probes: a complete first line, a complete request head.  What is sent *)
(* of a response includes its head.                                          *)
LineEnd(f) == Has(f.kept["c2s"], {"request", "line", "head", "upgrade", "garbage"})
HeadersReady(f) ==
    (RequestHttp(f) /\ Has(f.kept["c2s"], {"request", "head", "upgrade"})) \/ ResponseHttp(f)
WebSocket(f) ==
    \/ f.kept["c2s"] # <<>> /\ Head(f.kept["c2s"]).kind = "upgrade"
    \/ f.kept["s2c"] # <<>> /\ Head(f.kept["s2c"]).kind = "switch"

(* Slip: one sequence anchor is enough. *)
AnchoredOnce(f) == \E d \in Directions : f.syn[d] # None

Anchored(f) == \A d \in Directions : f.syn[d] # None

Undecided(f) == ~f.http.on /\ ~f.rawDecided /\ ~f.suppressed

IdleHttpContext(f) ==
    /\ f.http.on /\ ~HasPending(f.http)
    /\ \A d \in Directions : ~HasGap(f.ordered[d]) /\ f.ordered[d].fin = None

(* Slip: nothing recognised as HTTP expires, pending or not. *)
ExpiredRaw(f) == ~f.http.on /\ f.unseen

Expired(f) ==
    /\ ~IdleHttpContext(f)
    /\ IF f.http.on \/ f.suppressed \/ (Undecided(f) /\ (RequestHttp(f) \/ ResponseHttp(f)))
       THEN f.silent
       ELSE f.unseen

(* StreamAssembler: what is kept of a stream that is not, or not yet, HTTP. *)
Keep(f, d, tokens) ==
    IF tokens = <<>> \/ f.truncated[d] THEN f
    ELSE IF Len(f.kept[d]) < StreamMax THEN [f EXCEPT !.kept[d] = @ \o tokens]
    ELSE [f EXCEPT !.truncated[d] = TRUE]

Result(f, ready) == [flow |-> f, ready |-> ready]
WithHttp(f, fed) == Result([f EXCEPT !.http = fed.http], fed.ready)

(* The preprocessor starts: everything kept is fed to it, the client's     *)
(* bytes first, and then what StreamMax kept out.                          *)
StartHttp(f, g, d, tokens) ==
    WithHttp([g EXCEPT !.kept = Both(<<>>)],
             FeedAll(NewHttp, g.kept["c2s"] \o g.kept["s2c"] \o
                              IF g.kept[d] = f.kept[d] THEN tokens ELSE <<>>))

(* The protocol of a flow f that has become g by keeping the tokens. *)
Recognise(f, g, d, tokens) ==
    IF ~HeadersReady(g)
    THEN Result([g EXCEPT !.rawDecided =
                    ~RequestHttp(g) /\ (LineEnd(g) \/ Len(g.kept["c2s"]) >= RawAfter)], <<>>)
    ELSE IF WebSocket(g) THEN Result([g EXCEPT !.rawDecided = TRUE], <<>>)
    ELSE IF Anchored(g) THEN StartHttp(f, g, d, tokens)
    ELSE IF g.syn["c2s"] # None THEN Result(g, <<>>)
    ELSE Result([g EXCEPT !.suppressed = TRUE, !.kept = Both(<<>>),
                          !.truncated = Both(FALSE)], <<>>)

Consume(f, d, tokens) ==
    IF f.suppressed THEN Result(f, <<>>)
    ELSE IF f.http.on THEN WithHttp(f, FeedAll(f.http, tokens))
    ELSE IF f.rawDecided THEN Result(Keep(f, d, tokens), <<>>)
    ELSE Recognise(f, Keep(f, d, tokens), d, tokens)

(* A SYN without payload runs the recogniser once more: the request in the  *)
(* client's SYN may have been waiting for the server's.                     *)
Reprobes(f, p) == p.flag = "syn" /\ p.data = <<>> /\ Undecided(f) /\ Anchored(f)

Then(ready, result) == Result(result.flow, ready \o result.ready)

Deliver(f, d, tokens) ==
    FoldLeft(LAMBDA done, token : Then(done.ready, Consume(done.flow, d, <<token>>)),
             Result(f, <<>>), tokens)

(* What the assembler makes of the packet goes to the recogniser, and its   *)
(* FIN comes after its data.                                                *)
Ordered(f, p, first, pushed) ==
    LET settled(done) ==
          Result([done.flow EXCEPT
                    !.ordered[p.dir] = IF p.flag = "fin" THEN Fin(pushed.a, first) ELSE pushed.a,
                    !.silent = @ /\ ~pushed.accepted], done.ready)
    IN  settled(Deliver(f, p.dir, pushed.out))

Reprobe(done, p) ==
    IF Reprobes(done.flow, p) THEN Then(done.ready, Consume(done.flow, p.dir, <<>>)) ELSE done

(* The server's direction has just closed. *)
EndResponse(done) ==
    LET f == done.flow
        ended == [f EXCEPT !.responseEof = TRUE]
    IN  IF ~Closed(f.ordered["s2c"]) \/ f.responseEof THEN done
        ELSE IF ~f.http.on THEN Result(ended, done.ready)
        ELSE Then(done.ready, WithHttp(ended, CloseResponse(f.http, TRUE)))

Ingest(old, p, sequence) ==
    LET anchored == p.flag = "syn" /\ old.syn[p.dir] = None
        first == sequence + IF p.flag = "syn" THEN 1 ELSE 0
        seen == [old EXCEPT !.unseen = FALSE, !.paid = @ \/ p.data # <<>>,
                            !.syn[p.dir] = IF anchored THEN sequence ELSE @]
        before == IF anchored THEN Seed(old.ordered[p.dir], first) ELSE old.ordered[p.dir]
    IN  EndResponse(Reprobe(Ordered(seen, p, first, Push(before, first, p.data)), p))

WholeInPart(f) ==   \* Slip: one closed direction is enough.
    \E d \in Directions : Closed(f.ordered[d]) /\ ~HasGap(f.ordered[d])

Whole(f) == \A d \in Directions : Closed(f.ordered[d]) /\ ~HasGap(f.ordered[d])

(* finish: the sessions a flow leaves behind. *)
Finish(f, timedOut) ==
    LET answered == Closed(f.ordered["s2c"]) /\ ~HasGap(f.ordered["s2c"])
    IN  IF f.suppressed THEN <<>>
        ELSE IF f.http.on THEN CloseResponse(f.http, answered).ready
        ELSE IF ~WebSocket(f) /\ (RequestHttp(f) \/ ResponseHttp(f)) THEN <<>>
        ELSE <<[kind |-> "raw", c2s |-> f.kept["c2s"], s2c |-> f.kept["s2c"],
                incomplete |-> timedOut \/ ~Whole(f) \/ \E d \in Directions : f.truncated[d]]>>

-----------------------------------------------------------------------------
(* FlowWorker. *)

Active == {k \in Key : flows[k].live}
Store(k, sessions) == [i \in DOMAIN sessions |-> [key |-> k, session |-> sessions[i]]]

FullOneOver(k) == Cardinality(Active \ {k}) > MaxFlows   \* Slip: one more.
Full(k) == Cardinality(Active \ {k}) >= MaxFlows

Init ==
    /\ scene \in Scenarios
    /\ script \in [scene.keys -> [1 .. Lives -> scene.scripts]] /\ base \in [scene.keys -> scene.bases]
    /\ life = [k \in Key |-> 0] /\ captured = [k \in Key |-> {}] /\ copies = 0
    /\ fate = [k \in Key |-> "kept"]
    /\ flows = [k \in Key |-> NoFlow] /\ stored = <<>> /\ running = TRUE

(* What the packet made of its flow, stored, kept or dropped. *)
Settle(k, p, ended, done) ==
    LET over == p.flag = "rst" \/ \A d \in Directions : Closed(done.flow.ordered[d])
    IN  /\ flows' = [flows EXCEPT ![k] = IF over THEN NoFlow ELSE done.flow]
        /\ stored' = stored \o Store(k, ended \o done.ready \o
                          IF over THEN Finish(done.flow, FALSE) ELSE <<>>)
        /\ fate' = [fate EXCEPT ![k] = IF p.flag = "rst" THEN "spoiled" ELSE @]

(* The flow limit is reached. *)
Refuse(k, ended) ==
    /\ flows' = [flows EXCEPT ![k] = NoFlow]
    /\ stored' = stored \o Store(k, ended)
    /\ fate' = [fate EXCEPT ![k] = "spoiled"]

HandlePacket(k, p) ==
    LET sequence == SequenceOf(k, p)
        replaced == flows[k].live /\ IsNewConnection(flows[k], p, sequence)
        known == flows[k].live /\ ~replaced
        ended == IF replaced THEN Finish(flows[k], TRUE) ELSE <<>>
    IN  /\ running
        /\ IF ~known /\ Full(k) THEN Refuse(k, ended)
           ELSE Settle(k, p, ended, Ingest(IF known THEN flows[k] ELSE NewFlow, p, sequence))

(* Contexts kept for an idle HTTP connection go only when the table is full. *)
DueUnpressed(k) == Expired(flows[k])   \* Slip: not even then.

Due(k) ==
    \/ Expired(flows[k])
    \/ /\ Cardinality(Active) >= MaxFlows
       /\ IdleHttpContext(flows[k]) /\ flows[k].silent

(* The one-second tick. *)
ExpireIdle ==
    LET expired == {k \in Active : Due(k)}
    IN  /\ running /\ expired # {}
        /\ flows' = [k \in Key |-> IF k \in expired THEN NoFlow ELSE flows[k]]
        /\ \E order \in SetToSeqs(expired) :
              stored' = stored \o FlattenSeq([i \in DOMAIN order |->
                            Store(order[i], Finish(flows[order[i]], TRUE))])
        /\ fate' = [k \in Key |-> IF k \in expired THEN "spoiled" ELSE fate[k]]
        /\ UNCHANGED <<scene, script, base, life, captured, copies, running>>

(* The packet channel is closed: what remains is drained. *)
Shutdown ==
    /\ running /\ running' = FALSE
    /\ flows' = [k \in Key |-> NoFlow]
    /\ \E order \in SetToSeqs(Active) :
          stored' = stored \o FlattenSeq([i \in DOMAIN order |->
                        Store(order[i], Finish(flows[order[i]], TRUE))])
    /\ UNCHANGED network

-----------------------------------------------------------------------------
(* The environment. *)

Open(k) ==
    /\ running /\ life[k] < Lives
    /\ life' = [life EXCEPT ![k] = @ + 1]
    /\ captured' = [captured EXCEPT ![k] = {}]
    /\ fate' = [fate EXCEPT ![k] = IF flows[k].live /\ flows[k].syn["c2s"] = None
                                 THEN "joined" ELSE "kept"]
    /\ UNCHANGED <<scene, script, base, copies, flows, stored, running>>

Capture(k, p) ==
    /\ InTime(k, p) /\ Rst \notin captured[k]
    /\ IF p \in captured[k] THEN copies < scene.copies /\ copies' = copies + 1
       ELSE UNCHANGED copies
    /\ captured' = [captured EXCEPT ![k] = @ \cup {p}]
    /\ HandlePacket(k, p)
    /\ UNCHANGED <<scene, script, base, life, running>>

(* idle_timeout passes without new payload, and without any packet. *)
Silence(k) ==
    /\ scene.idling /\ running /\ flows[k].live /\ ~flows[k].unseen
    /\ flows' = [flows EXCEPT ![k].unseen = flows[k].silent, ![k].silent = TRUE]
    /\ UNCHANGED <<network, stored, running>>

Next ==
    \/ \E k \in scene.keys : \/ Open(k) \/ Silence(k)
                             \/ life[k] > 0 /\ \E p \in Packets(k, life[k]) : Capture(k, p)
    \/ ExpireIdle \/ Shutdown

Spec == Init /\ [][Next]_vars

(* The tick comes every second, and time passes. *)
FairSpec == Spec /\ WF_vars(ExpireIdle) /\ \A k \in Key : WF_vars(Silence(k))

(* The tokens of all that is stored of one session. *)
Contents(entry) == entry.session.c2s \o entry.session.s2c

(* No session joins bytes of two TCP connections, although the connections   *)
(* share their tuple, packets of either get lost, and is_new_connection has  *)
(* to recognise the second by a SYN.                                         *)
Unmixed ==
    \A i \in DOMAIN stored : \A t, u \in Range(Contents(stored[i])) : t.life = u.life

(* And an HTTP session is a request and its own response, whatever was lost, *)
(* repeated, reordered or seen before the flow was recognised.               *)
Associated ==
    /\ Unmixed
    /\ \A i \in DOMAIN stored : stored[i].session.kind = "http" =>
          \A t, u \in Range(Contents(stored[i])) : t.of = u.of

(* A raw record that is not marked incomplete, of a flow whose two SYNs were *)
(* seen, holds every byte of both directions.                                *)
WholeWhenAnchored ==
    [][\A i \in DOMAIN stored' \ DOMAIN stored :
          LET k == stored'[i].key
              s == stored'[i].session
          IN  /\ s.kind = "raw" /\ ~s.incomplete /\ flows[k].live
              /\ \A d \in Directions : flows[k].syn[d] # None
              => \A n \in 1 .. Lives : flows[k].syn["c2s"] = base[k][n] =>
                    \A d \in Directions : s[d] = Tokens(k, n, d)]_vars

(* No exchange is stored twice, neither by the replay of what was kept while *)
(* the protocol was undecided nor by a retransmission.                       *)
StoredOnce ==
    \A i, j \in DOMAIN stored :
        /\ stored[i].session.kind = "http"
        /\ stored[i].key = stored[j].key /\ stored[i].session.c2s = stored[j].session.c2s
        => i = j

(* A connection of which every packet was captured is stored as it was: all  *)
(* of its exchanges if it spoke HTTP, its two streams if not.  With one      *)
(* exception: when a repeated packet of the tuple's last connection came     *)
(* after its end, the flow it made knows no client SYN, and a connection     *)
(* whose SYN says nothing new to is_new_connection continues that flow.      *)
SpeaksHttp(c) == c["c2s"][1].kind \in {"request", "line"} /\ c["s2c"][1].kind # "switch"

Recorded(k, n) ==
    IF SpeaksHttp(script[k][n])
    THEN \A e \in {t.of : t \in Range(script[k][n]["c2s"])} :
            \E i \in DOMAIN stored :
                /\ stored[i].key = k /\ stored[i].session.kind = "http"
                /\ ~stored[i].session.incomplete
                /\ Range(Contents(stored[i])) =
                      {t \in Range(Tokens(k, n, "c2s") \o Tokens(k, n, "s2c")) : t.of = e}
    ELSE \E i \in DOMAIN stored :
            /\ stored[i].key = k /\ ~stored[i].session.incomplete
            /\ \A d \in Directions : stored[i].session[d] = Tokens(k, n, d)

CapturedWhole(k) ==
    /\ life[k] > 0 /\ script[k][life[k]].ends
    /\ SpeaksHttp(script[k][life[k]]) \/
          \A d \in Directions : Len(script[k][life[k]][d]) <= StreamMax
    /\ captured[k] = Stream(k, life[k])

AllStored ==
    /\ StoredOnce
    /\ \A k \in scene.keys : CapturedWhole(k) /\ fate[k] = "kept" => Recorded(k, life[k])

(* A flow is given up in the end, or waits as an idle HTTP context; and when *)
(* the table is full, such contexts are given up to make room.               *)
MakesRoom ==
    scene.idling /\ Cardinality(Active) = MaxFlows ~> Cardinality(Active) < MaxFlows
Drains ==
    /\ \A k \in Key : scene.idling /\ flows[k].live ~> ~flows[k].live \/ IdleHttpContext(flows[k])
    /\ MakesRoom

-----------------------------------------------------------------------------
IsToken(t) ==
    /\ t.life \in 1 .. Lives /\ t.dir \in Directions /\ t.at \in Nat /\ t.of \in Nat
    /\ t.kind \in {"request", "line", "head", "upgrade", "garbage", "bytes",
                   "response", "closing", "switch"}
AllTokens(tokens) == \A i \in DOMAIN tokens : IsToken(tokens[i])

(* Types, and the limits of the table and of what a flow keeps. *)
TypeOK ==
    /\ life \in [Key -> 0 .. Lives] /\ copies \in 0 .. scene.copies
    /\ fate \in [Key -> {"kept", "joined", "spoiled"}] /\ running \in BOOLEAN
    /\ \A k \in Key : life[k] = 0 \/ captured[k] \subseteq Packets(k, life[k])
    /\ Cardinality(Active) <= MaxFlows
    /\ \A k \in Active, d \in Directions :
          /\ AllTokens(flows[k].kept[d]) /\ Len(flows[k].kept[d]) <= StreamMax
          /\ Cardinality(DOMAIN flows[k].ordered[d].pending) <= PendingMax
    /\ \A i \in DOMAIN stored :
          /\ stored[i].key \in Key /\ stored[i].session.kind \in {"http", "raw"}
          /\ AllTokens(stored[i].session.c2s \o stored[i].session.s2c)
=============================================================================
