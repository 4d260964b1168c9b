-------------------------- MODULE MCHttpSessions ----------------------------
EXTENDS HttpSessions
(***************************************************************************)
(* The exchanges a conversation is put together from.                      *)
(***************************************************************************)
Plain == [method |-> "Other", upgrade |-> FALSE, body |-> 0, chunked |-> FALSE,
          interim |-> FALSE, status |-> 200, reply |-> 1]

Post == [Plain EXCEPT !.body = 1, !.interim = TRUE, !.reply = 0]
HeadRequest == [Plain EXCEPT !.method = "HEAD"]
Oversized == [Plain EXCEPT !.body = Limit]
OversizedChunked == [Oversized EXCEPT !.chunked = TRUE]
Closing == [Plain EXCEPT !.reply = UntilClose]
Clipped == [Plain EXCEPT !.reply = Limit + 1]
WebSocket == [Plain EXCEPT !.upgrade = TRUE, !.status = 101]
Refused == [WebSocket EXCEPT !.status = 400]
Connect == [Plain EXCEPT !.method = "CONNECT"]
ConnectRefused == [Connect EXCEPT !.status = 400]
Malformed == [Plain EXCEPT !.method = "bad"]

Anywhere == {Plain, Post, HeadRequest, Oversized, OversizedChunked, Clipped, ConnectRefused}
Final == Anywhere \cup {Closing, WebSocket, Refused, Connect, Malformed}

Pairs == {<<a, z>> : a \in Anywhere, z \in Final}
Triples == {<<a, b, z>> : a \in {Plain, HeadRequest, Oversized},
                        b \in {Plain, Post, Refused}, z \in {Plain, Closing, WebSocket}}
MCScripts == Pairs \cup Triples
=============================================================================
