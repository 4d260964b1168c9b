---------------------------- MODULE HttpSessions ----------------------------
(***************************************************************************)
(* HTTP/1.x request-response association over one TCP connection:          *)
(* HttpSessions and Decoder of crates/analyzer/src/http_sessions.rs.       *)
(*                                                                         *)
(* The two directions are reassembled independently, so any prefix of the  *)
(* client's bytes may be fed before or after any prefix of the server's,   *)
(* in chunks cut anywhere.  Responses that are seen before their request   *)
(* wait in a backlog.                                                      *)
(*                                                                         *)
(* A byte is a token: the head of a message is one token, and so is every  *)
(* unit of its body.  What parsing a head yields (method, upgrade, status, *)
(* body length) is looked up in the exchange the token belongs to; how     *)
(* much of the body is expected is decided as the code decides it, from    *)
(* the response and the method of the request it is taken to answer.       *)
(*                                                                         *)
(* feed runs its loops to the end before it returns; here each turn of a   *)
(* loop is a step, `phase' says which loop is running and `rest' is what   *)
(* remains of the chunk in hand.  Only in phase "idle" can the caller make *)
(* another call.                                                           *)
(***************************************************************************)
EXTENDS Integers, Sequences, FiniteSets, Functions

CONSTANTS Limit,        \* bytes kept of a message: max_session_bytes
          MaxRequests,  \* MAX_PENDING_REQUESTS, 256 in the code
          MaxChunks,    \* MAX_PENDING_CHUNKS, 256 in the code
          Scripts,      \* the conversations the endpoints may have
          ChunkMax      \* bound: longest chunk fed in one call

(***************************************************************************)
(* A script is a sequence of exchanges: what the client sends, and what    *)
(* the server answers, reply being the length of the response's body.      *)
(***************************************************************************)
UntilClose == -2
Exchange == [method : {"Other", "HEAD", "CONNECT", "bad"}, upgrade : BOOLEAN,
             body : Nat, chunked : BOOLEAN,
             interim : BOOLEAN, status : Nat, reply : Nat \cup {UntilClose}]
NoHead == [kind |-> "none"]
NoExchange == [request |-> 0]

ASSUME LimitsAssumption ==
  Limit \in Nat \ {0} /\ MaxRequests \in Nat /\ MaxChunks \in Nat /\ ChunkMax \in Nat \ {0}

\* A server switches protocols only when asked to, and sends nothing after a
\* response that ends with the connection.
ASSUME ScriptsAssumption ==
  \A s \in Scripts :
    /\ s \in Seq(Exchange)
    /\ \A i \in DOMAIN s : /\ s[i].status = 101 => s[i].upgrade
                           /\ s[i].reply = UntilClose => i = Len(s)

VARIABLES script, c2s, s2c,            \* the conversation and its unread bytes
          request, response,           \* the two decoders
          requests, requestBytes,      \* requests waiting for their response
          responses, responseBytes,    \* response chunks waiting for a request
          responseClosed,              \* "open", "clean" or "unclean"
          clientUpgrade, upgradeClient, upgraded,
          failed, discarded,
          phase, rest, finishing,      \* control
          emitted                      \* history: the exchanges handed on

wire == <<script, c2s, s2c>>
queue == <<requests, requestBytes>>
backlog == <<responses, responseBytes>>
upgrade == <<clientUpgrade, upgradeClient, upgraded>>
control == <<phase, rest, finishing>>
vars == <<script, c2s, s2c, request, response, requests, requestBytes,
          responses, responseBytes, responseClosed, clientUpgrade,
          upgradeClient, upgraded, failed, discarded, phase, rest,
          finishing, emitted>>

-----------------------------------------------------------------------------
(* The bytes on the wire. *)

Token(kind, i) == [kind |-> kind, of |-> i]
Run(kind, i, n) == [k \in 1..n |-> Token(kind, i)]

\* A connection becomes a tunnel or a WebSocket.
Tunnels(e) == \/ e.method = "CONNECT" /\ e.status = 200
              \/ e.upgrade /\ e.status = 101
Raw(e, i) == Run("raw", i, IF Tunnels(e) THEN 1 ELSE 0)

\* The request and the response of exchange i, and all that the two sides
\* send for it.
Ask(e, i) == <<Token(IF e.method = "bad" THEN "bad" ELSE "head", i)>> \o Run("body", i, e.body)
Answer(e, i) ==
  <<Token("head", i)>> \o Run("body", i, IF e.method = "HEAD" \/ Tunnels(e) THEN 0
                                        ELSE IF e.reply = UntilClose THEN 2 ELSE e.reply)
Interim(e, i) == Run("interim", i, IF e.interim THEN 1 ELSE 0)

ClientBytes(e, i) == Ask(e, i) \o Raw(e, i)
ServerBytes(e, i) == Interim(e, i) \o Answer(e, i) \o Raw(e, i)

\* The concatenation of the first n sequences, and of all.
UpTo(sequences) ==
  LET upTo[n \in 0..Len(sequences)] ==
        IF n = 0 THEN <<>> ELSE upTo[n - 1] \o sequences[n]
  IN  upTo
Concat(sequences) == UpTo(sequences)[Len(sequences)]

ClientParts(s) == [i \in DOMAIN s |-> ClientBytes(s[i], i)]
ServerParts(s) == [i \in DOMAIN s |-> ServerBytes(s[i], i)]
ClientWire(s) == Concat(ClientParts(s))
ServerWire(s) == Concat(ServerParts(s))

-----------------------------------------------------------------------------
(* Messages and decoders.  need is what remains of the body: a number,     *)
(* UntilClose, or -1 while the head has not been read.                     *)

NewMessage == [offset |-> 0, bytes |-> <<>>, head |-> NoHead,
               total |-> 0, dropped |-> FALSE]
NewDecoder == [consumed |-> 0, message |-> NewMessage, need |-> -1]

Room(bytes, limit) == IF Len(bytes) < limit THEN limit - Len(bytes) ELSE 0

AppendBounded(bytes, more, limit) ==
  bytes \o SubSeq(more, 1, IF Len(more) < Room(bytes, limit)
                           THEN Len(more) ELSE Room(bytes, limit))

Discard(message) == [message EXCEPT !.bytes = <<>>, !.dropped = TRUE]

\* Message::retain for one byte of a request, and of a response.
RetainRequest(message, token, budget) ==
  LET seen == [message EXCEPT !.total = @ + 1]
  IN  IF message.dropped THEN seen
      ELSE IF seen.total > budget THEN Discard(seen)
      ELSE [seen EXCEPT !.bytes = AppendBounded(@, <<token>>, budget)]

RetainResponse(message, token) ==
  [message EXCEPT !.total = @ + 1,
                  !.bytes = AppendBounded(@, <<token>>, Limit)]

ReadHead(decoder, token, need) ==
  [decoder EXCEPT !.message.bytes = Append(@, token), !.message.head = token,
                  !.message.total = @ + 1, !.need = need]

ReadBody(decoder, message) ==
  [decoder EXCEPT !.message = message,
                  !.need = IF @ = UntilClose THEN @ ELSE @ - 1]

\* Decoder::take: the finished message, and the decoder without it.
Taken(decoder) == [decoder.message EXCEPT !.offset = decoder.consumed]
AfterTake(decoder) ==
  [NewDecoder EXCEPT !.consumed = decoder.consumed + decoder.message.total]

\* A request whose body is announced to exceed the budget is given up at its
\* head; a chunked one when the bytes arrive.
HeadOfRequest(token, budget) ==
  LET e == script[token.of]
      read == ReadHead(request, token, e.body)
  IN  IF \/ Len(read.message.bytes) > budget
         \/ ~e.chunked /\ e.body > Room(read.message.bytes, budget)
      THEN [read EXCEPT !.message = Discard(@)]
      ELSE read

\* Slip: the body length is taken from the response alone.
HeadOfResponseAlone(token, asked) ==
  ReadHead(response, token, IF token.kind = "interim" THEN 0 ELSE script[token.of].reply)

\* parse_head for a response: HEAD, 1xx and a successful CONNECT have no body.
HeadOfResponse(token, asked) ==
  LET e == script[token.of]
      noBody == \/ script[asked.of].method = "HEAD"
                \/ token.kind = "interim" \/ e.status = 101
                \/ script[asked.of].method = "CONNECT" /\ e.status = 200
  IN  ReadHead(response, token, IF noBody THEN 0 ELSE e.reply)

-----------------------------------------------------------------------------
(* fail, pair *)

Fail ==
  /\ failed' = TRUE
  /\ requests' = <<>> /\ requestBytes' = 0
  /\ responses' = <<>> /\ responseBytes' = 0
  /\ request' = NewDecoder /\ response' = NewDecoder
  /\ upgradeClient' = <<>>

\* HttpSessions::pair: the response answers the oldest waiting request.
\* decoder is what remains of the response decoder.
Pair(message, incomplete, decoder) ==
  IF message.head.kind = "interim"
  THEN /\ response' = decoder
       /\ UNCHANGED <<request, queue, backlog, upgrade, failed, emitted>>
  ELSE LET asked == requests[1]
           ask == script[asked.head.of]
           status == script[message.head.of].status
           websocket == status = 101 \/ ask.upgrade
           tunnel == ask.method = "CONNECT" /\ status = 200
           exchange ==
             [request |-> asked.head.of, response |-> message.head.of,
              c2s |-> IF websocket
                      THEN AppendBounded(asked.bytes, upgradeClient, Limit)
                      ELSE asked.bytes,
              s2c |-> message.bytes,
              requestOffset |-> asked.offset, responseOffset |-> message.offset,
              incomplete |-> \/ incomplete
                             \/ websocket /\ Len(upgradeClient) > Room(asked.bytes, Limit),
              protocol |-> IF websocket THEN "websocket" ELSE "http"]
       IN  /\ upgraded' = IF ~asked.dropped /\ websocket THEN exchange ELSE upgraded
           /\ emitted' = IF ~asked.dropped /\ ~websocket
                         THEN Append(emitted, exchange) ELSE emitted
           /\ UNCHANGED clientUpgrade
           /\ IF tunnel THEN Fail
              ELSE /\ requests' = Tail(requests)
                   /\ requestBytes' = requestBytes - Len(asked.bytes)
                   /\ upgradeClient' = IF ~asked.dropped /\ websocket
                                       THEN <<>> ELSE upgradeClient
                   /\ response' = decoder
                   /\ UNCHANGED <<request, backlog, failed>>

FailParsing == Fail /\ UNCHANGED <<clientUpgrade, upgraded, emitted>>
-----------------------------------------------------------------------------
(* feed *)

Chunk(stream, n) == SubSeq(stream, 1, n)
Unread(stream, n) == SubSeq(stream, n + 1, Len(stream))

\* After an upgrade the bytes of a direction are appended to the exchange.
AppendUpgraded(direction, bytes) ==
  upgraded' = [upgraded EXCEPT
    ![direction] = AppendBounded(@, bytes, Limit),
    !.incomplete = @ \/ Len(bytes) > Room(upgraded[direction], Limit)]

\* The first lines of feed, for the next n bytes of one direction.
Feed(direction, bytes) ==
  IF failed
  THEN UNCHANGED <<upgraded, control>>
  ELSE IF upgraded # NoExchange
  THEN AppendUpgraded(direction, bytes) /\ UNCHANGED control
  ELSE /\ phase' = direction
       /\ rest' = bytes
       /\ UNCHANGED <<upgraded, finishing>>

FeedClient(n) ==
  /\ phase = "idle" /\ ~finishing /\ n <= Len(c2s)
  /\ Feed("c2s", Chunk(c2s, n))
  /\ c2s' = Unread(c2s, n)
  /\ UNCHANGED <<script, s2c, request, response, queue, backlog, responseClosed,
                 clientUpgrade, upgradeClient, failed, discarded, emitted>>

FeedServer(n) ==
  /\ phase = "idle" /\ ~finishing /\ n <= Len(s2c) /\ responseClosed = "open"
  /\ Feed("s2c", Chunk(s2c, n))
  /\ s2c' = Unread(s2c, n)
  /\ UNCHANGED <<script, c2s, request, response, queue, backlog, responseClosed,
                 clientUpgrade, upgradeClient, failed, discarded, emitted>>

\* Slip: a request given up as too large leaves no trace in the queue.
EnqueueRetained(decoder) ==
  LET message == Taken(decoder)
  IN  /\ discarded' = discarded + IF message.dropped THEN 1 ELSE 0
      /\ clientUpgrade' = script[message.head.of].upgrade
      /\ request' = AfterTake(decoder)
      /\ UNCHANGED <<response, backlog, upgradeClient, upgraded, failed, emitted>>
      /\ IF message.dropped THEN UNCHANGED queue
         ELSE /\ requests' = Append(requests, message)
              /\ requestBytes' = requestBytes + Len(message.bytes)

\* Slip: the queue limit is not compared with.
EnqueueUnbounded(decoder) ==
  LET message == Taken(decoder)
  IN  /\ discarded' = discarded + IF message.dropped THEN 1 ELSE 0
      /\ requests' = Append(requests, message)
      /\ requestBytes' = requestBytes + Len(message.bytes)
      /\ clientUpgrade' = script[message.head.of].upgrade
      /\ request' = AfterTake(decoder)
      /\ UNCHANGED <<response, backlog, upgradeClient, upgraded, failed, emitted>>

\* A finished request joins the queue; an Upgrade ends the requests.
EnqueueRequest(decoder) ==
  LET message == Taken(decoder)
  IN  /\ discarded' = discarded + IF message.dropped THEN 1 ELSE 0
      /\ IF Len(requests) >= MaxRequests
         THEN FailParsing
         ELSE /\ requests' = Append(requests, message)
              /\ requestBytes' = requestBytes + Len(message.bytes)
              /\ clientUpgrade' = script[message.head.of].upgrade
              /\ request' = AfterTake(decoder)
              /\ UNCHANGED <<response, backlog, upgradeClient, upgraded, failed, emitted>>

ReadRequest ==
  LET token == Head(rest)
      budget == IF requestBytes < Limit THEN Limit - requestBytes ELSE 0
      decoder == IF request.need = -1 THEN HeadOfRequest(token, budget)
                 ELSE ReadBody(request, RetainRequest(request.message, token, budget))
  IN  /\ phase = "c2s" /\ rest # <<>> /\ ~failed
      /\ IF clientUpgrade
         THEN /\ upgradeClient' = AppendBounded(upgradeClient, rest, Limit)
              /\ rest' = <<>>
              /\ UNCHANGED <<request, response, queue, backlog, clientUpgrade,
                             upgraded, failed, discarded, emitted>>
         ELSE /\ rest' = Tail(rest)
              /\ \/ /\ request.need = -1 /\ token.kind # "head"
                    /\ FailParsing /\ UNCHANGED discarded
                 \/ /\ request.need # -1 \/ token.kind = "head"
                    /\ decoder.need = 0
                    /\ EnqueueRequest(decoder)
                 \/ /\ request.need # -1 \/ token.kind = "head"
                    /\ decoder.need # 0
                    /\ request' = decoder
                    /\ UNCHANGED <<response, queue, backlog, upgrade, failed,
                                   discarded, emitted>>
      /\ UNCHANGED <<wire, responseClosed, phase, finishing>>

\* process_response with no request to answer: the rest of the chunk waits,
\* in front if it was taken from the backlog.
BufferResponse ==
  IF responseBytes + Len(rest) > Limit \/ Len(responses) >= MaxChunks
  THEN FailParsing
  ELSE /\ responses' = IF phase = "backlog" THEN <<rest>> \o responses
                       ELSE Append(responses, rest)
       /\ responseBytes' = responseBytes + Len(rest)
       /\ UNCHANGED <<request, response, queue, upgrade, failed, emitted>>

\* process_response for the next byte, given to the decoder.
DecodeResponse(token) ==
  LET asked == requests[1].head
      decoder == IF response.need = -1 THEN HeadOfResponse(token, asked)
                 ELSE ReadBody(response, RetainResponse(response.message, token))
  IN  \/ /\ response.need = -1 /\ token.kind \notin {"head", "interim"}
         /\ FailParsing
      \/ /\ response.need # -1 \/ token.kind \in {"head", "interim"}
         /\ decoder.need = 0
         /\ Pair(Taken(decoder), FALSE, AfterTake(decoder))
      \/ /\ response.need # -1 \/ token.kind \in {"head", "interim"}
         /\ decoder.need # 0
         /\ response' = decoder
         /\ UNCHANGED <<request, queue, backlog, upgrade, failed, emitted>>

ReadResponse ==
  /\ phase \in {"s2c", "backlog"} /\ rest # <<>> /\ ~failed
  /\ IF upgraded # NoExchange
     THEN /\ AppendUpgraded("s2c", rest)
          /\ rest' = <<>>
          /\ UNCHANGED <<request, response, queue, backlog, clientUpgrade,
                         upgradeClient, failed, emitted>>
     ELSE IF requests = <<>>
     THEN BufferResponse /\ rest' = <<>>
     ELSE DecodeResponse(Head(rest)) /\ rest' = Tail(rest)
  /\ UNCHANGED <<wire, responseClosed, discarded, phase, finishing>>

ChunkDone ==
  /\ phase \in {"c2s", "s2c", "backlog"} /\ (rest = <<>> \/ failed)
  /\ phase' = "flush" /\ rest' = <<>>
  /\ UNCHANGED <<wire, request, response, queue, backlog, responseClosed, upgrade,
                 failed, discarded, finishing, emitted>>

-----------------------------------------------------------------------------
(* flush_responses, close_response, finish *)

\* Slip: the backlog is taken up although no request waits.
MayFlushAlways == ~failed

MayFlush == ~failed /\ (requests # <<>> \/ upgraded # NoExchange)

FlushChunk ==
  /\ phase = "flush" /\ MayFlush /\ responses # <<>>
  /\ phase' = "backlog"
  /\ rest' = Head(responses)
  /\ responses' = Tail(responses)
  /\ responseBytes' = responseBytes - Len(Head(responses))
  /\ UNCHANGED <<wire, request, response, queue, responseClosed, upgrade, failed,
                 discarded, finishing, emitted>>

\* Slip: a response that ends with the connection is not finished.
FlushUnfinished ==
  /\ phase = "flush" /\ (~MayFlush \/ responses = <<>>)
  /\ phase' = "idle"
  /\ UNCHANGED <<wire, request, response, queue, backlog, upgrade, failed,
                 responseClosed, discarded, rest, finishing, emitted>>

\* Decoder::finish: what a closed connection makes of an unfinished response.
FlushDone ==
  /\ phase = "flush" /\ (~MayFlush \/ responses = <<>>)
  /\ phase' = "idle"
  /\ IF /\ ~failed /\ responseClosed # "open"
        /\ responses = <<>> /\ requests # <<>> /\ response.message.head # NoHead
     THEN Pair(Taken(response),
               ~(responseClosed = "clean" /\ response.need = UntilClose),
               AfterTake(response))
     ELSE UNCHANGED <<request, response, queue, backlog, upgrade, failed, emitted>>
  /\ UNCHANGED <<wire, responseClosed, discarded, rest, finishing>>

\* The server's FIN was reached: all its bytes have been fed.
CloseResponse ==
  /\ phase = "idle" /\ ~finishing /\ responseClosed = "open" /\ s2c = <<>>
  /\ responseClosed' = "clean"
  /\ phase' = "flush"
  /\ UNCHANGED <<wire, request, response, queue, backlog, upgrade, failed,
                 discarded, rest, finishing, emitted>>

\* finish: the connection has ended or timed out.
Finish ==
  /\ phase = "idle" /\ ~finishing
  /\ finishing' = TRUE
  /\ responseClosed' = IF responseClosed = "clean" THEN "clean" ELSE "unclean"
  /\ phase' = "flush"
  /\ UNCHANGED <<wire, request, response, queue, backlog, upgrade, failed,
                 discarded, rest, emitted>>

\* The last lines of finish: the upgraded connection becomes one exchange.
\* connection is finish's incomplete_connection: only when both directions
\* were closed without a gap can it be FALSE.
EmitUpgraded ==
  /\ phase = "idle" /\ finishing /\ upgraded # NoExchange
  /\ \E connection \in BOOLEAN :
       /\ (responseClosed = "unclean" \/ c2s # <<>>) => connection
       /\ emitted' = Append(emitted, [upgraded EXCEPT !.incomplete = @ \/ connection])
  /\ upgraded' = NoExchange
  /\ UNCHANGED <<wire, request, response, queue, backlog, responseClosed,
                 clientUpgrade, upgradeClient, failed, discarded, control>>

Init ==
  /\ script \in Scripts
  /\ c2s = ClientWire(script) /\ s2c = ServerWire(script)
  /\ request = NewDecoder /\ response = NewDecoder
  /\ requests = <<>> /\ requestBytes = 0
  /\ responses = <<>> /\ responseBytes = 0 /\ responseClosed = "open"
  /\ clientUpgrade = FALSE /\ upgradeClient = <<>> /\ upgraded = NoExchange
  /\ failed = FALSE /\ discarded = 0
  /\ phase = "idle" /\ rest = <<>> /\ finishing = FALSE
  /\ emitted = <<>>

Next ==
  \/ \E n \in 1..ChunkMax : FeedClient(n) \/ FeedServer(n)
  \/ ReadRequest \/ ReadResponse \/ ChunkDone
  \/ FlushChunk \/ FlushDone
  \/ CloseResponse \/ Finish \/ EmitUpgraded

Spec == Init /\ [][Next]_vars

\* Every call runs to its end: the loops are plain synchronous code.
Loops == ReadRequest \/ ReadResponse \/ ChunkDone \/ FlushChunk \/ FlushDone
FairSpec == Spec /\ WF_vars(Loops)

-----------------------------------------------------------------------------
(* Correctness. *)

Phases == {"idle", "c2s", "s2c", "backlog", "flush"}

\* The byte counters are those of the two queues, and what the queued
\* requests retain stays within the limit.
TotalLength(s) == SumFunction([i \in DOMAIN s |-> Len(s[i])])
Counted ==
  /\ requestBytes = SumFunction([i \in DOMAIN requests |-> Len(requests[i].bytes)])
  /\ responseBytes = TotalLength(responses)
  /\ requestBytes <= Limit /\ responseBytes <= Limit

\* Types, and the bounds of what a connection makes the analyzer hold back.
TypeOK ==
  /\ Counted
  /\ phase \in Phases
  /\ responseClosed \in {"open", "clean", "unclean"}
  /\ requestBytes \in Nat /\ responseBytes \in Nat /\ discarded \in Nat
  /\ \A i \in DOMAIN requests : requests[i].head.kind = "head"
  /\ Len(requests) <= MaxRequests /\ Len(responses) <= MaxChunks
  /\ {failed, clientUpgrade, finishing} \subseteq BOOLEAN

Http == {k \in DOMAIN emitted : emitted[k].protocol = "http"}

\* A response is shown with the request it answers, never with another one,
\* however the two directions were interleaved and cut into chunks and
\* whichever requests were given up as too large; and exchanges are handed
\* on once each, in the order of their requests.
Associated ==
  /\ \A k \in DOMAIN emitted : emitted[k].request = emitted[k].response
  /\ \A j, k \in DOMAIN emitted :
       j < k => emitted[j].request < emitted[k].request

\* The offset an exchange is filed under is where its message starts in the
\* direction's byte stream, with dropped requests and 1xx responses counted.
Located ==
  \A k \in DOMAIN emitted :
    LET e == emitted[k] IN
      /\ ClientWire(script)[e.requestOffset + 1] = Token("head", e.request)
      /\ ServerWire(script)[e.responseOffset + 1] = Token("head", e.response)

\* An exchange holds bytes of its own two messages only, and holds them from
\* the first on, up to the limit; and it is filed under their offsets.
OwnBytes ==
  /\ Located
  /\ \A k \in Http :
       LET e == emitted[k]
           ask == Ask(script[e.request], e.request)
           answer == Answer(script[e.response], e.response)
       IN  /\ e.c2s = ask
           /\ Len(e.s2c) <= Len(answer) /\ e.s2c = SubSeq(answer, 1, Len(e.s2c))
           /\ ~e.incomplete => \/ Len(e.s2c) = Limit
                               \/ e.s2c = answer

\* A connection that was seen to its clean end accounts for every request:
\* each has its exchange or was counted as discarded.
AllAccounted ==
  (/\ finishing /\ phase = "idle" /\ ~failed /\ upgraded = NoExchange
   /\ c2s = <<>> /\ s2c = <<>> /\ responseClosed = "clean"
   /\ \A i \in DOMAIN script : script[i].upgrade => i = Len(script))
  => Len(emitted) + discarded = Len(script)

\* Every call returns: the flush loop, which may put back what it takes,
\* cannot run forever.
Returns == (phase # "idle") ~> (phase = "idle")
=============================================================================
