--------------------------------- MODULE Api ---------------------------------
(***************************************************************************)
(* The analyzer's API under concurrent requests (auth.rs, the Sources of   *)
(* api.rs and storage/catalog.rs) and the local capture that the edits of  *)
(* Sources steer (capture.rs), from the start of the process, which        *)
(* refreshes the flag columns first (FlagRefresh), to its end, which takes *)
(* the login sessions with it but not the browsers' cookies.               *)
(*                                                                         *)
(* A slot is one request: its handler suspends at each await, on the mutex *)
(* of BoundedStore or on spawn_blocking, and may be dropped there when its *)
(* client goes away.  A closure on a blocking thread runs on regardless;   *)
(* what it has of the semaphores it gives back when it ends.  The order in *)
(* which login and the session layer call the store is tower-sessions'.    *)
(***************************************************************************)
EXTENDS FlagRefresh, Sequences

CONSTANTS
  Slots,      \* requests at the same time
  Clients,    \* browsers
  Ports,      \* ports a Source may be given
  Capacity,   \* 1024 login sessions
  Verifiers,  \* permits of AuthState.verifier, 1
  ChainReads, \* permits of CHAIN_READS, 2
  TTL,        \* SESSION_EXPIRACY
  Leaving,    \* the kinds of request whose client may go away
  Scenarios   \* what may happen: the requests' kinds, the FLAG_REGEXes, whether
              \* sessions are stored, whether the capture is local and whether it
              \* may fail; bounds: requests, how many at a time, starts, time

Edits == {"create", "update", "delete"}
Kinds == {"login", "logout", "browse"} \cup Edits

ASSUME ApiAssumption ==
  /\ Capacity \in Nat /\ Verifiers \in Nat \ {0} /\ ChainReads \in Nat \ {0}
  /\ TTL \in Nat \ {0} /\ Leaving \subseteq Kinds
  /\ Scenarios \subseteq [kinds : SUBSET Kinds, regexes : SUBSET Regexes, stores : BOOLEAN, local : BOOLEAN,
                          fails : BOOLEAN, asks : Nat, together : Nat,
                          starts : 0..MaxStarts, time : Nat]

VARIABLES
  scenario, asked,
  records,    \* BoundedStore: when the session of each id expires
  nextId,     \* Id::default(): never the same twice
  now,
  cookie,     \* per client, the id in its cookie, or 0
  request,    \* per slot, the request and where its handler stands
  verifier,   \* free permits of the two semaphores
  reads,
  orphans,    \* closures whose handler has been dropped, per semaphore
  sources,    \* the table sources, row by row
  capture,    \* the local capture: where its loop stands, the Sources it has
              \* loaded, and whether the revision has changed since it looked
  revoked     \* history: ids that an answered logout or login has ended

login == <<records, nextId, cookie, revoked>>
threads == <<verifier, reads, orphans>>
catalog == <<sources, capture>>
vars == <<scenario, asked, refresh, login, now, request, threads, catalog>>

Free == [step |-> "free"]
Steps == {"session", "permit", "verifying", "renew", "create", "save", "flush",
          "reading", "edit", "insert", "select", "notify"}
Begun == [step |-> "load", active |-> {}, unseen |-> FALSE]
Ended == [Begun EXCEPT !.step = "ended"]

Live(id) == id \in DOMAIN records /\ records[id] > now
Purged == [id \in {k \in DOMAIN records : Live(k)} |-> records[id]]


Deleted(id) == [k \in DOMAIN records \ {id} |-> records[k]]

Active == {row \in {<<i, sources[i].port>> : i \in DOMAIN sources} :
             sources[row[1]].enabled /\ ~sources[row[1]].deleted}

Running(step) == {s \in Slots : request[s].step = step}
At(s, step) == Serving /\ request[s].step = step
Goto(s, step) == request' = [request EXCEPT ![s].step = step]
Answer(s) == request' = [request EXCEPT ![s] = Free]

Rest(r) == UNCHANGED <<scenario, asked, refresh, now, r>>

Init ==
  /\ scenario \in Scenarios /\ asked = 0 /\ RefreshInit
  /\ records = [id \in {} |-> 0] /\ nextId = 1 /\ now = 0
  /\ cookie = [c \in Clients |-> 0]
  /\ request = [s \in Slots |-> Free]
  /\ verifier = Verifiers /\ reads = ChainReads
  /\ orphans = [verifying |-> 0, reading |-> 0]
  /\ sources = <<>> /\ capture = Ended /\ revoked = {}

-----------------------------------------------------------------------------
(* A request arrives; require_session lets login pass. *)

Ask(s) ==
  /\ At(s, "free") /\ asked < scenario.asks
  /\ Cardinality(Slots \ Running("free")) < scenario.together
  /\ asked' = asked + 1
  /\ \E c \in Clients, kind \in scenario.kinds :
       \E row \in IF kind \in {"update", "delete"} THEN 1..Cardinality(Ports) ELSE {0},
          port \in IF kind \in {"create", "update"} THEN Ports ELSE {0},
          enabled \in IF kind = "update" THEN BOOLEAN ELSE {TRUE} :
         request' = [request EXCEPT ![s] =
           [step |-> IF kind = "login" THEN "permit" ELSE "session",
            kind |-> kind, client |-> c, cookie |-> cookie[c], new |-> 0,
            row |-> row, port |-> port, enabled |-> enabled]]
  /\ UNCHANGED <<scenario, refresh, now, login, threads, catalog>>

\* A session that is not there, or no longer, also takes the cookie away.
RequireSession(s) ==
  /\ At(s, "session")
  /\ LET r == request[s]
     IN  IF Live(r.cookie)
         THEN /\ Goto(s, CASE r.kind = "logout" -> "flush" [] r.kind = "browse" -> "permit"
                           [] OTHER -> "edit")
              /\ UNCHANGED <<records, cookie>>
         ELSE /\ Answer(s) /\ records' = Deleted(r.cookie)
              /\ cookie' = IF r.cookie = 0 THEN cookie ELSE [cookie EXCEPT ![r.client] = 0]
  /\ Rest(<<nextId, revoked, threads, catalog>>)

-----------------------------------------------------------------------------
(* login and logout *)

\* Slip: a second verification waits on another thread instead of being refused.
StartVerificationUnasked(s) ==
  /\ At(s, "permit") /\ request[s].kind = "login"
  /\ Goto(s, "verifying") /\ verifier' = IF verifier > 0 THEN verifier - 1 ELSE 0
  /\ Rest(<<login, reads, orphans, catalog>>)

StartVerification(s) ==
  /\ At(s, "permit") /\ request[s].kind = "login"
  /\ IF verifier > 0
     THEN verifier' = verifier - 1 /\ Goto(s, "verifying")
     ELSE UNCHANGED verifier /\ Answer(s)
  /\ Rest(<<login, reads, orphans, catalog>>)

Verified(s) ==
  /\ At(s, "verifying")
  /\ verifier' = verifier + 1
  /\ Goto(s, "renew") \/ Answer(s)
  /\ Rest(<<login, reads, orphans, catalog>>)

\* flush and cycle_id: both delete the record of the cookie.
RenewId(s) ==
  /\ At(s, "renew")
  /\ records' = Deleted(request[s].cookie) /\ Goto(s, "create")
  /\ Rest(<<nextId, cookie, revoked, threads, catalog>>)

\* Slip: a sign-in goes on with the id of the cookie.
CreateSessionKept(s) ==
  LET id == IF request[s].cookie = 0 THEN nextId ELSE request[s].cookie
  IN  /\ At(s, "create")
      /\ IF Cardinality(DOMAIN Purged) >= Capacity
         THEN Answer(s) /\ records' = Purged /\ UNCHANGED nextId
         ELSE /\ records' = [k \in DOMAIN Purged \cup {id} |->
                               IF k = id THEN now + TTL ELSE records[k]]
              /\ nextId' = IF id = nextId THEN nextId + 1 ELSE nextId
              /\ request' = [request EXCEPT ![s].step = "save", ![s].new = id, ![s].cookie = 0]
      /\ Rest(<<cookie, revoked, threads, catalog>>)

\* The save in login: BoundedStore::create.
CreateSession(s) ==
  /\ At(s, "create")
  /\ IF Cardinality(DOMAIN Purged) >= Capacity
     THEN Answer(s) /\ records' = Purged /\ UNCHANGED nextId
     ELSE /\ records' = [id \in DOMAIN Purged \cup {nextId} |->
                           IF id = nextId THEN now + TTL ELSE records[id]]
          /\ nextId' = nextId + 1
          /\ request' = [request EXCEPT ![s].step = "save", ![s].new = nextId]
  /\ Rest(<<cookie, revoked, threads, catalog>>)

LoggedIn(s) ==
  /\ cookie' = [cookie EXCEPT ![request[s].client] = request[s].new]
  /\ revoked' = revoked \cup ({request[s].cookie} \ {0})

\* Slip: a record that is gone is put back.
SaveSessionAgain(s) ==
  /\ At(s, "save")
  /\ records' = [id \in DOMAIN records \cup {request[s].new} |->
                   IF id = request[s].new THEN now + TTL ELSE records[id]]
  /\ LoggedIn(s) /\ Answer(s)
  /\ Rest(<<nextId, threads, catalog>>)

\* The session layer saves again what a handler has modified.
SaveSession(s) ==
  /\ At(s, "save")
  /\ Answer(s)
  /\ IF Live(request[s].new) THEN LoggedIn(s) ELSE UNCHANGED <<cookie, revoked>>
  /\ Rest(<<records, nextId, threads, catalog>>)

FlushSession(s) ==
  /\ At(s, "flush")
  /\ records' = Deleted(request[s].cookie)
  /\ cookie' = [cookie EXCEPT ![request[s].client] = 0]
  /\ revoked' = revoked \cup {request[s].cookie}
  /\ Answer(s)
  /\ Rest(<<nextId, threads, catalog>>)

-----------------------------------------------------------------------------
(* chain_blocking: a query of the chains, or an answer of 503. *)

StartRead(s) ==
  /\ At(s, "permit") /\ request[s].kind = "browse"
  /\ IF reads > 0 THEN reads' = reads - 1 /\ Goto(s, "reading") ELSE UNCHANGED reads /\ Answer(s)
  /\ Rest(<<login, verifier, orphans, catalog>>)

ReadDone(s) ==
  /\ At(s, "reading")
  /\ reads' = reads + 1 /\ Answer(s)
  /\ Rest(<<login, verifier, orphans, catalog>>)

-----------------------------------------------------------------------------
(* The Sources, a statement at a time: every call has a connection of its  *)
(* own and no transaction around its statements.                           *)

OnPort(port, deleted) ==
  {i \in DOMAIN sources : sources[i].port = port /\ sources[i].deleted = deleted}

Write(s, table, next) == sources' = table /\ Goto(s, next) /\ UNCHANGED capture

\* Slip: a Source that comes back is taken for one that never left.
RestoreSourceQuietly(s) ==
  LET r == request[s]  deleted == OnPort(r.port, TRUE)
  IN  /\ At(s, "edit") /\ r.kind = "create"
      /\ IF deleted = {} THEN Goto(s, "insert") /\ UNCHANGED sources
         ELSE /\ sources' = [i \in DOMAIN sources |-> IF i \in deleted
                   THEN [sources[i] EXCEPT !.enabled = r.enabled, !.deleted = FALSE]
                   ELSE sources[i]]
              /\ Answer(s)
      /\ Rest(<<capture, login, threads>>)

RestoreSource(s) ==
  LET r == request[s]  deleted == OnPort(r.port, TRUE)
  IN  /\ At(s, "edit") /\ r.kind = "create"
      /\ IF deleted = {} THEN Write(s, sources, "insert")
         ELSE Write(s, [i \in DOMAIN sources |-> IF i \in deleted
                          THEN [sources[i] EXCEPT !.enabled = r.enabled, !.deleted = FALSE]
                          ELSE sources[i]],
                    "select")
      /\ Rest(<<login, threads>>)

\* The id of the restored row is read by its port: it may be gone again.  Any
\* other error of this query ends the handler like a client that leaves here.
SelectRestored(s) ==
  /\ At(s, "select")
  /\ IF OnPort(request[s].port, FALSE) # {} THEN Goto(s, "notify") ELSE Answer(s)
  /\ Rest(<<login, threads, catalog>>)

\* The port is UNIQUE, also among the deleted.
InsertSource(s) ==
  LET r == request[s]
  IN  /\ At(s, "insert")
      /\ IF \E i \in DOMAIN sources : sources[i].port = r.port
         THEN Answer(s) /\ UNCHANGED catalog
         ELSE Write(s, Append(sources, [port |-> r.port, enabled |-> r.enabled, deleted |-> FALSE]),
                    "notify")
      /\ Rest(<<login, threads>>)

Absent(i) == i \notin DOMAIN sources \/ sources[i].deleted

UpdateSource(s) ==
  LET r == request[s]
  IN  /\ At(s, "edit") /\ r.kind = "update"
      /\ IF Absent(r.row) \/ \E i \in DOMAIN sources \ {r.row} : sources[i].port = r.port
         THEN Answer(s) /\ UNCHANGED catalog
         ELSE Write(s, [sources EXCEPT ![r.row].port = r.port, ![r.row].enabled = r.enabled],
                    "notify")
      /\ Rest(<<login, threads>>)

DeleteSource(s) ==
  LET r == request[s]
  IN  /\ At(s, "edit") /\ r.kind = "delete"
      /\ IF Absent(r.row) THEN Answer(s) /\ UNCHANGED catalog
         ELSE Write(s, [sources EXCEPT ![r.row].enabled = FALSE, ![r.row].deleted = TRUE], "notify")
      /\ Rest(<<login, threads>>)

NotifySourceChange(s) ==
  /\ At(s, "notify")
  /\ capture' = [capture EXCEPT !.unseen = capture.step # "ended"] /\ Answer(s)
  /\ Rest(<<sources, login, threads>>)

-----------------------------------------------------------------------------
(* capture::run *)

CaptureRest == UNCHANGED <<scenario, asked, refresh, login, now, request, threads, sources>>

LoadSources ==
  /\ capture.step = "load"
  /\ capture' = [capture EXCEPT !.step = "open", !.active = Active]
  /\ CaptureRest

\* Slip: a new socket starts from the newest revision.
OpenCaptureAnew ==
  /\ capture.step = "open"
  /\ capture' = [capture EXCEPT !.step = IF capture.active = {} THEN "paused" ELSE "capturing",
                               !.unseen = FALSE]
  /\ CaptureRest

OpenCapture ==
  /\ capture.step = "open"
  /\ capture' = [capture EXCEPT !.step = IF capture.active = {} THEN "paused" ELSE "capturing"]
  /\ CaptureRest

SourcesChanged ==
  /\ capture.step \in {"paused", "capturing"} /\ capture.unseen
  /\ capture' = [capture EXCEPT !.step = "load", !.unseen = FALSE]
  /\ CaptureRest

\* A query, a socket or a packet fails: the task ends, the API goes on.
CaptureFails ==
  /\ scenario.fails /\ capture.step \in {"load", "open", "capturing"}
  /\ capture.step = "open" => capture.active # {}
  /\ capture' = Ended
  /\ CaptureRest

RunCapture == LoadSources \/ OpenCapture \/ SourcesChanged \/ CaptureFails

-----------------------------------------------------------------------------
(* The client goes away and its handler is dropped. *)

\* Slip: the handler holds the permit, not the closure.
LeaveWithPermit(s) ==
  LET step == request[s].step
  IN  /\ Serving /\ step # "free" /\ request[s].kind \in Leaving
      /\ orphans' = IF step \in DOMAIN orphans THEN [orphans EXCEPT ![step] = @ + 1] ELSE orphans
      /\ verifier' = IF step = "verifying" THEN verifier + 1 ELSE verifier
      /\ Answer(s)
      /\ Rest(<<login, reads, catalog>>)

Leave(s) ==
  LET step == request[s].step
  IN  /\ Serving /\ step # "free" /\ request[s].kind \in Leaving
      /\ orphans' = IF step \in DOMAIN orphans THEN [orphans EXCEPT ![step] = @ + 1] ELSE orphans
      /\ Answer(s)
      /\ Rest(<<login, verifier, reads, catalog>>)

OrphanDone ==
  /\ \/ orphans.verifying > 0 /\ orphans' = [orphans EXCEPT !.verifying = @ - 1]
        /\ verifier' = verifier + 1 /\ UNCHANGED reads
     \/ orphans.reading > 0 /\ orphans' = [orphans EXCEPT !.reading = @ - 1]
        /\ reads' = reads + 1 /\ UNCHANGED verifier
  /\ Rest(<<login, request, catalog>>)

Tick ==
  /\ now < scenario.time /\ now' = now + 1
  /\ UNCHANGED <<scenario, asked, refresh, login, request, threads, catalog>>

-----------------------------------------------------------------------------
(* The process. *)

\* The capture begins, with a fresh revision, when the refresh is done.
StartUp ==
  /\ \/ RefreshPage \/ RefreshDone
     \/ starts < scenario.starts /\ \E r \in scenario.regexes : Boot(r)
  /\ capture' = IF process' = "serving" /\ scenario.local THEN Begun ELSE Ended
  /\ UNCHANGED <<scenario, asked, login, now, request, threads, sources>>

Record ==
  /\ scenario.stores /\ (Store \/ Expire)
  /\ UNCHANGED <<scenario, asked, login, now, request, threads, catalog>>

End ==
  /\ Halt
  /\ records' = [id \in {} |-> 0]
  /\ request' = [s \in Slots |-> Free] /\ capture' = Ended
  /\ verifier' = Verifiers /\ reads' = ChainReads
  /\ orphans' = [verifying |-> 0, reading |-> 0]
  /\ UNCHANGED <<scenario, asked, now, nextId, cookie, revoked, sources>>

Handle(s) ==
  \/ Ask(s) \/ RequireSession(s) \/ Leave(s)
  \/ StartVerification(s) \/ Verified(s) \/ RenewId(s) \/ CreateSession(s)
  \/ SaveSession(s) \/ FlushSession(s)
  \/ StartRead(s) \/ ReadDone(s)
  \/ RestoreSource(s) \/ SelectRestored(s) \/ InsertSource(s)
  \/ UpdateSource(s) \/ DeleteSource(s) \/ NotifySourceChange(s)

Next ==
  \/ StartUp \/ Record \/ End \/ Tick \/ OrphanDone \/ RunCapture
  \/ \E s \in Slots : Handle(s)

Spec == Init /\ [][Next]_vars

-----------------------------------------------------------------------------
(* Types, and the limits of the store of sessions and of the permits. *)
TypeOK ==
  /\ scenario \in Scenarios /\ asked \in 0..scenario.asks
  /\ process \in {"down", "refreshing", "serving"}
  /\ DOMAIN records \subseteq 1..(nextId - 1) /\ Cardinality(DOMAIN records) <= Capacity
  /\ now \in 0..scenario.time
  /\ \A c \in Clients : cookie[c] \in 0..(nextId - 1)
  /\ \A s \in Slots : request[s].step \in Steps \cup {"free"}
  /\ verifier \in 0..Verifiers /\ reads \in 0..ChainReads
  /\ capture.step \in {"load", "open", "paused", "capturing", "ended"}
  /\ revoked \subseteq 1..(nextId - 1)

(* What a user has signed out of, or replaced by signing in again, never   *)
(* opens the API again, whatever other requests of the same cookie are     *)
(* under way, in whatever order they delete, create and save.              *)
SignedOut == revoked \cap DOMAIN records = {}

(* At no time are more passwords verified or chains queried than there are *)
(* permits, also when the clients that asked for it have gone away.        *)
WorkBounded ==
  /\ Cardinality(Running("verifying")) + orphans.verifying <= Verifiers
  /\ Cardinality(Running("reading")) + orphans.reading <= ChainReads

(* When every edit of the Sources has been answered and the capture has    *)
(* taken notice of the last revision, it captures what the table holds,    *)
(* whatever was edited while it was loading, and also when a create has    *)
(* failed because the row it restored had moved on before its id was read. *)
(* This is false once the handler of an edit may end between the commit    *)
(* and the notification (Edits among Leaving).                             *)
CaptureFollows ==
  /\ Serving /\ Running("select") = {} /\ Running("notify") = {}
  /\ capture.step \in {"paused", "capturing"} /\ ~capture.unseen
  => capture.active = Active
=============================================================================
