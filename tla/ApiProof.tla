------------------------------ MODULE ApiProof ------------------------------
(***************************************************************************)
(* Theorems about the API and the refresh of the flag columns, for every   *)
(* number of requests, browsers, ports, permits, login sessions, stored    *)
(* sessions and starts, and every scenario.                                *)
(***************************************************************************)
EXTENDS Api, DataLemmas

-----------------------------------------------------------------------------
(* The refresh of the flag columns.                                        *)
(*                                                                         *)
(* FlagsCurrent is not inductive.  A process serves without a refresh when *)
(* the setting is its regex, so no session may have flags of another regex *)
(* then, whatever refreshes were cut short since.  While FLAG_REGEX never  *)
(* goes back, flags are never older than the setting nor newer than the    *)
(* regex, and where these agree nothing else is left.                      *)

RefreshTypes ==
  /\ process \in {"down", "refreshing", "serving"}
  /\ regex \in Nat /\ setting \in Nat /\ after \in Nat /\ starts \in 0..MaxStarts
  /\ flags \in [Retained -> Nat] /\ Retained \subseteq 1..MaxId

\* The columns lie between the last refresh completed and the regex.
Between == setting <= regex /\ \A id \in Retained : setting <= flags[id] /\ flags[id] <= regex

\* The refresh leaves nothing behind it.
Progress == process = "refreshing" => \A id \in Retained : id <= after => flags[id] = regex

RefreshInv == RefreshTypes /\ Between /\ Progress /\ (Serving => setting = regex)

LEMMA MaxOf ==
  ASSUME NEW S \in SUBSET Nat, IsFiniteSet(S), S # {}
  PROVE  Max(S) \in S /\ \A x \in S : x <= Max(S)
<1>1. \E m \in S : \A x \in S : m >= x
  BY GreatestExists
<1>2. Max(S) \in S /\ \A x \in S : Max(S) >= x
  BY <1>1 DEF Max
<1> QED
  BY <1>2

\* A page holds what comes next: nothing is left out below its end, and it is
\* empty only when there is no more.
LEMMA PageIs ==
  ASSUME RefreshTypes
  PROVE  /\ Page \subseteq {id \in Retained : id > after}
         /\ Page = {} => \A id \in Retained : id <= after
         /\ Page # {} => /\ Max(Page) \in Nat
                         /\ \A id \in Retained : id <= Max(Page) => id <= after \/ id \in Page
<1> DEFINE rest == {id \in Retained : id > after}
           upTo(id) == {k \in rest : k <= id}
<1>1. rest \in SUBSET Nat /\ IsFiniteSet(rest)
  <2>1. MaxId \in Nat /\ IsFiniteSet(1..MaxId)
    BY FS_Interval, RefreshAssumption
  <2>2. rest \in SUBSET (1..MaxId)
    BY DEF RefreshTypes
  <2>3. IsFiniteSet(rest)
    BY <2>1, <2>2, FS_Subset
  <2> QED
    BY <2>1, <2>2, <2>3
<1>2. Page = {id \in rest : Cardinality(upTo(id)) <= PageSize}
  BY DEF Page
<1>3. after \in Nat /\ Retained \in SUBSET Nat
  BY RefreshAssumption DEF RefreshTypes
<1>4. ASSUME NEW id \in Retained, id > after, Page = {}
      PROVE  FALSE
  <2>1. rest # {}
    BY <1>4
  <2>2. PICK m \in rest : \A x \in rest : m <= x
    BY <1>1, <2>1, LeastExists
  <2>3. upTo(m) = {m}
    BY <1>1, <2>2
  <2>4. Cardinality(upTo(m)) = 1
    BY <2>3, FS_Singleton
  <2> QED
    BY <1>2, <1>4, <2>4, RefreshAssumption
<1>5. ASSUME Page # {}
      PROVE  Max(Page) \in Page /\ Max(Page) \in Nat
  <2>1. Page \in SUBSET Nat /\ IsFiniteSet(Page)
    <3>1. Page \in SUBSET rest
      BY <1>2
    <3>2. IsFiniteSet(Page)
      BY <3>1, <1>1, FS_Subset
    <3> QED
      BY <3>1, <3>2, <1>1
  <2> QED
    BY <1>5, <2>1, MaxOf
<1>6. ASSUME Page # {}, NEW id \in Retained, id <= Max(Page), ~(id <= after)
      PROVE  id \in Page
  <2>1. Max(Page) \in rest /\ Cardinality(upTo(Max(Page))) <= PageSize
    BY <1>2, <1>5, <1>6
  <2>2. id \in rest
    BY <1>3, <1>6
  <2>3. upTo(id) \in SUBSET upTo(Max(Page)) /\ IsFiniteSet(upTo(Max(Page)))
    <3>1. upTo(id) \in SUBSET upTo(Max(Page))
      BY <1>1, <1>5, <1>6, <2>2
    <3>2. upTo(Max(Page)) \in SUBSET rest
      OBVIOUS
    <3>3. IsFiniteSet(upTo(Max(Page)))
      BY <3>2, <1>1, FS_Subset
    <3> QED
      BY <3>1, <3>3
  <2>4. /\ Cardinality(upTo(id)) <= Cardinality(upTo(Max(Page)))
        /\ Cardinality(upTo(id)) \in Nat /\ Cardinality(upTo(Max(Page))) \in Nat
    <3>1. IsFiniteSet(upTo(id)) /\ Cardinality(upTo(id)) <= Cardinality(upTo(Max(Page)))
      BY <2>3, FS_Subset
    <3> QED
      BY <3>1, <2>3, FS_CardinalityType
  <2>5. Cardinality(upTo(id)) <= PageSize
    BY <2>1, <2>4, RefreshAssumption
  <2> QED
    BY <1>2, <2>2, <2>5
<1>7. Page \subseteq rest
  BY <1>2
<1>8. Page = {} => \A id \in Retained : id <= after
  BY <1>3, <1>4
<1> HIDE DEF rest, upTo
<1> QED
  BY <1>5, <1>6, <1>7, <1>8 DEF rest

LEMMA RefreshStart == RefreshInit => RefreshInv
  BY RefreshAssumption
  DEF RefreshInit, RefreshInv, RefreshTypes, Between, Progress, Serving, Retained

LEMMA BootStep ==
  ASSUME ~Reverts, RefreshInv, NEW r \in Regexes, Boot(r)
  PROVE  RefreshInv'
<1>1. r \in Nat /\ r >= regex /\ regex' = r /\ setting' = setting /\ flags' = flags
  BY RefreshAssumption DEF Boot
<1>2. RefreshTypes'
  BY <1>1, RefreshAssumption DEF Boot, RefreshInv, RefreshTypes, Retained
<1>3. Between'
  BY <1>1 DEF RefreshInv, RefreshTypes, Between, Retained
<1>4. Progress'
  BY <1>1, RefreshAssumption DEF Boot, RefreshInv, RefreshTypes, Progress, Retained
<1>5. Serving' => setting' = regex'
  BY <1>1 DEF Boot, UpToDate, Serving
<1> QED
  BY <1>2, <1>3, <1>4, <1>5 DEF RefreshInv

LEMMA RefreshPageStep ==
  ASSUME RefreshInv, RefreshPage
  PROVE  RefreshInv'
<1> DEFINE new == [id \in Retained |-> IF id \in Page THEN regex ELSE flags[id]]
<1>1. RefreshTypes /\ flags' = new /\ after' = Max(Page) /\ Page # {}
  BY DEF RefreshInv, RefreshPage
<1>2. Max(Page) \in Nat /\ \A id \in Retained : id <= Max(Page) => id <= after \/ id \in Page
  BY <1>1, PageIs
<1>3. Retained' = Retained /\ \A id \in Retained : flags'[id] = IF id \in Page THEN regex ELSE flags[id]
  BY <1>1 DEF Retained
<1>4. RefreshTypes'
  BY <1>1, <1>2, <1>3 DEF RefreshPage, RefreshTypes
<1>5. Between'
  BY <1>1, <1>3 DEF RefreshPage, RefreshInv, RefreshTypes, Between
<1>6. Progress'
  BY <1>1, <1>2, <1>3 DEF RefreshPage, RefreshInv, RefreshTypes, Progress
<1>7. ~Serving'
  BY DEF RefreshPage, Serving
<1> QED
  BY <1>4, <1>5, <1>6, <1>7 DEF RefreshInv

LEMMA RefreshDoneStep ==
  ASSUME RefreshInv, RefreshDone
  PROVE  RefreshInv'
<1>1. \A id \in Retained : flags[id] = regex
  BY PageIs DEF RefreshInv, RefreshDone, Progress
<1>2. RefreshTypes'
  BY DEF RefreshDone, RefreshInv, RefreshTypes, Retained
<1>3. Between'
  BY <1>1 DEF RefreshDone, RefreshInv, RefreshTypes, Between, Retained
<1> QED
  BY <1>2, <1>3 DEF RefreshDone, RefreshInv, Progress, Serving

LEMMA StoreStep ==
  ASSUME RefreshInv, Store
  PROVE  RefreshInv'
<1>1. PICK id : /\ id = IF Retained = {} THEN 1 ELSE Max(Retained) + 1
                /\ id <= MaxId
                /\ flags' = [k \in Retained \cup {id} |-> IF k = id THEN regex ELSE flags[k]]
  BY DEF Store
<1>2. id \in 1..MaxId
  <2>1. CASE Retained = {}
    BY <1>1, <2>1, RefreshAssumption
  <2>2. CASE Retained # {}
    <3>1. MaxId \in Nat /\ IsFiniteSet(1..MaxId) /\ Retained \in SUBSET (1..MaxId)
      BY FS_Interval, RefreshAssumption DEF RefreshInv, RefreshTypes
    <3>2. IsFiniteSet(Retained)
      BY <3>1, FS_Subset
    <3>3. Retained \in SUBSET Nat
      BY <3>1
    <3>4. Max(Retained) \in Retained
      BY <2>2, <3>2, <3>3, MaxOf
    <3>5. Max(Retained) \in 1..MaxId
      BY <3>1, <3>4
    <3>6. id = Max(Retained) + 1 /\ id <= MaxId
      BY <1>1, <2>2
    <3> QED
      BY <3>1, <3>5, <3>6
  <2> QED
    BY <2>1, <2>2
<1>3. Retained' = Retained \cup {id} /\ \A k \in Retained' : flags'[k] = IF k = id THEN regex ELSE flags[k]
  BY <1>1 DEF Retained
<1>4. RefreshTypes'
  BY <1>1, <1>2, <1>3 DEF Store, RefreshInv, RefreshTypes
<1>5. Between'
  BY <1>3 DEF Store, RefreshInv, RefreshTypes, Between
<1> QED
  BY <1>4, <1>5 DEF Store, RefreshInv, Progress, Serving

LEMMA ExpireStep ==
  ASSUME RefreshInv, Expire
  PROVE  RefreshInv'
<1>1. Retained' \subseteq Retained /\ \A k \in Retained' : flags'[k] = flags[k]
  BY DEF Expire, Retained
<1>2. RefreshTypes'
  BY <1>1 DEF Expire, RefreshInv, RefreshTypes, Retained
<1>3. Between'
  BY <1>1 DEF Expire, RefreshInv, RefreshTypes, Between
<1> QED
  BY <1>2, <1>3 DEF Expire, RefreshInv, Progress, Serving

LEMMA HaltStep ==
  ASSUME RefreshInv, Halt
  PROVE  RefreshInv'
  BY DEF Halt, RefreshInv, RefreshTypes, Between, Progress, Retained, Serving

LEMMA RefreshUnchanged ==
  ASSUME RefreshInv, UNCHANGED refresh
  PROVE  RefreshInv'
  BY DEF refresh, RefreshInv, RefreshTypes, Between, Progress, Retained, Serving

-----------------------------------------------------------------------------
(* The inductive invariant of the API, in named parts. *)

Rows == 1..Cardinality(Ports) \cup {0}
Request == [step : Steps, kind : Kinds, client : Clients, cookie : Nat, new : Nat,
            row : Rows, port : Ports \cup {0}, enabled : BOOLEAN]
Source == [port : Ports \cup {0}, enabled : BOOLEAN, deleted : BOOLEAN]
CaptureSteps == {"load", "open", "paused", "capturing", "ended"}

ApiTypes ==
  /\ scenario \in Scenarios /\ asked \in 0..scenario.asks /\ now \in 0..scenario.time
  /\ nextId \in Nat \ {0}
  /\ DOMAIN records \subseteq 1..(nextId - 1) /\ Cardinality(DOMAIN records) <= Capacity
  /\ revoked \subseteq 1..(nextId - 1)
  /\ cookie \in [Clients -> 0..(nextId - 1)]
  /\ request \in [Slots -> {Free} \cup Request]
  /\ sources \in Seq(Source)
  /\ capture \in [step : CaptureSteps, active : SUBSET (Nat \X (Ports \cup {0})), unseen : BOOLEAN]

\* What a request knows of ids: none is one to come; one that has deleted the
\* record of its cookie will not find it back.
Ids ==
  /\ SignedOut
  /\ \A s \in Slots : request[s] # Free =>
       /\ request[s].cookie < nextId /\ request[s].new < nextId
       /\ request[s].step \in {"create", "save"} => request[s].cookie \notin DOMAIN records
       /\ request[s].step = "save" => request[s].new # 0
       /\ request[s].step = "flush" => request[s].cookie # 0

\* Every permit is free, with a handler or with a closure left behind.
Permits ==
  /\ verifier \in Nat /\ reads \in Nat /\ orphans \in [verifying : Nat, reading : Nat]
  /\ IsFiniteSet(Running("verifying")) /\ IsFiniteSet(Running("reading"))
  /\ verifier + Cardinality(Running("verifying")) + orphans.verifying = Verifiers
  /\ reads + Cardinality(Running("reading")) + orphans.reading = ChainReads

\* A change of the table that the capture has not loaded is still to be told
\* to it, or has been told and not been looked at.
Telling ==
  \E s \in Slots : \/ request[s].step = "notify"
                   \/ request[s].step = "select" /\ OnPort(request[s].port, FALSE) # {}
Editing(r) ==
  /\ r.step = "session" => r.kind # "login"
  /\ r.step \in {"edit", "insert", "select", "notify"} => r.kind \in Edits
Followed ==
  /\ capture.step \in {"open", "paused", "capturing"} =>
       capture.unseen \/ capture.active = Active \/ Telling
  /\ \A s \in Slots : Editing(request[s])

-----------------------------------------------------------------------------
(* Lemmas on what a handler's step does to its request. *)

\* A slot that is not free holds a whole request, and nothing else does.
LEMMA Occupied ==
  ASSUME ApiTypes, NEW s \in Slots
  PROVE  /\ request[s].step # "free" => request[s] \in Request /\ request[s] # Free
         /\ request[s].step = "free" => request[s] = Free
  BY DEF ApiTypes, Request, Steps, Free

\* Going to another step changes nothing else of the request.
LEMMA Goes ==
  ASSUME ApiTypes, NEW s \in Slots, request[s].step # "free", NEW step \in Steps, Goto(s, step)
  PROVE  /\ request' \in [Slots -> {Free} \cup Request]
         /\ \A t \in Slots \ {s} : request'[t] = request[t]
         /\ request'[s] \in Request /\ request'[s].step = step
         /\ request'[s].kind = request[s].kind /\ request'[s].cookie = request[s].cookie
         /\ request'[s].new = request[s].new /\ request'[s].port = request[s].port
<1>1. request[s] \in Request
  BY Occupied
<1>2. request' = [request EXCEPT ![s] = [request[s] EXCEPT !.step = step]]
  BY DEF Goto
<1>3. [request[s] EXCEPT !.step = step] \in Request
  BY <1>1 DEF Request
<1>4. request \in [Slots -> {Free} \cup Request]
  BY DEF ApiTypes
<1>5. request'[s] = [request[s] EXCEPT !.step = step] /\ \A t \in Slots \ {s} : request'[t] = request[t]
  BY <1>2, <1>4
<1> QED
  BY <1>1, <1>2, <1>3, <1>4, <1>5 DEF Request

LEMMA Answers ==
  ASSUME ApiTypes, NEW s \in Slots, Answer(s)
  PROVE  /\ request' \in [Slots -> {Free} \cup Request]
         /\ \A t \in Slots \ {s} : request'[t] = request[t]
         /\ request'[s] = Free /\ request'[s].step = "free"
  BY DEF Answer, ApiTypes, Free

\* The number of handlers at a step, when one slot moves.
LEMMA Counted ==
  ASSUME NEW s \in Slots, \A t \in Slots \ {s} : request'[t] = request[t], NEW step,
         IsFiniteSet(Running(step))
  PROVE  /\ IsFiniteSet(Running(step)') /\ Cardinality(Running(step)) \in Nat
         /\ Cardinality(Running(step)') \in Nat
         /\ Cardinality(Running(step)') =
              Cardinality(Running(step)) - (IF request[s].step = step THEN 1 ELSE 0)
                                         + (IF request'[s].step = step THEN 1 ELSE 0)
<1> DEFINE others == Running(step) \ {s}
<1>1. /\ IsFiniteSet(others) /\ Cardinality(Running(step)) \in Nat
      /\ Cardinality(others) =
           Cardinality(Running(step)) - (IF request[s].step = step THEN 1 ELSE 0)
  <2>1. IsFiniteSet(others) /\ Cardinality(others) =
           IF s \in Running(step) THEN Cardinality(Running(step)) - 1 ELSE Cardinality(Running(step))
    BY FS_RemoveElement
  <2>2. Cardinality(Running(step)) \in Nat
    BY FS_CardinalityType
  <2>3. s \in Running(step) <=> request[s].step = step
    BY DEF Running
  <2> QED
    BY <2>1, <2>2, <2>3
<1>2. CASE request'[s].step = step
  <2>1. Running(step)' = others \cup {s} /\ s \notin others
    BY <1>2 DEF Running
  <2>2. IsFiniteSet(others \cup {s}) /\ Cardinality(others \cup {s}) = Cardinality(others) + 1
    BY <1>1, <2>1, FS_AddElement
  <2> QED
    BY <1>1, <1>2, <2>1, <2>2, FS_CardinalityType
<1>3. CASE request'[s].step # step
  <2>1. Running(step)' = others
    BY <1>3 DEF Running
  <2> QED
    BY <1>1, <1>3, <2>1, FS_CardinalityType
<1> QED
  BY <1>2, <1>3

-----------------------------------------------------------------------------
(* Every step keeps the types. *)

LEMMA ActiveType ==
  ASSUME ApiTypes
  PROVE  Active \in SUBSET (Nat \X (Ports \cup {0}))
<1>1. sources \in Seq(Source) /\ \A i \in DOMAIN sources : sources[i] \in Source /\ i \in Nat
  BY DEF ApiTypes
<1>2. \A i \in DOMAIN sources : <<i, sources[i].port>> \in Nat \X (Ports \cup {0})
  BY <1>1 DEF Source
<1> QED
  BY <1>2 DEF Active

\* What a step that moves one request leaves of the types.
LEMMA TypesKept ==
  ASSUME ApiTypes, request' \in [Slots -> {Free} \cup Request],
         UNCHANGED <<scenario, asked, now, nextId, records, revoked, cookie, sources, capture>>
  PROVE  ApiTypes'
  BY DEF ApiTypes

\* Deleting records leaves fewer of them.
LEMMA Fewer ==
  ASSUME ApiTypes, DOMAIN records' \subseteq DOMAIN records
  PROVE  /\ IsFiniteSet(DOMAIN records) /\ IsFiniteSet(DOMAIN records')
         /\ DOMAIN records' \subseteq 1..(nextId - 1)
         /\ Cardinality(DOMAIN records') <= Capacity
<1>1. nextId - 1 \in Int /\ DOMAIN records \in SUBSET (1..(nextId - 1))
  BY DEF ApiTypes
<1>2. IsFiniteSet(1..(nextId - 1))
  BY <1>1, FS_Interval
<1>3. IsFiniteSet(DOMAIN records)
  BY <1>1, <1>2, FS_Subset
<1>4. IsFiniteSet(DOMAIN records') /\ Cardinality(DOMAIN records') <= Cardinality(DOMAIN records)
  BY <1>3, FS_Subset
<1>5. Cardinality(DOMAIN records) \in Nat /\ Cardinality(DOMAIN records') \in Nat
  BY <1>3, <1>4, FS_CardinalityType
<1> QED
  BY <1>1, <1>3, <1>4, <1>5, ApiAssumption DEF ApiTypes

LEMMA AskTypes ==
  ASSUME ApiTypes, NEW s \in Slots, Ask(s)
  PROVE  /\ ApiTypes' /\ \A t \in Slots \ {s} : request'[t] = request[t]
         /\ request'[s] \in Request
         /\ request'[s].step \in {"permit", "session"} /\ request'[s].new = 0
         /\ request'[s].cookie < nextId
         /\ request'[s].step = "session" => request'[s].kind # "login"
<1>1. PICK c \in Clients, kind \in scenario.kinds,
           row \in Rows, port \in Ports \cup {0}, enabled \in BOOLEAN :
         request' = [request EXCEPT ![s] =
           [step |-> IF kind = "login" THEN "permit" ELSE "session",
            kind |-> kind, client |-> c, cookie |-> cookie[c], new |-> 0,
            row |-> row, port |-> port, enabled |-> enabled]]
  BY DEF Ask, Rows
<1>2. kind \in Kinds
  BY ApiAssumption DEF ApiTypes
<1>3. cookie[c] \in Nat /\ cookie[c] < nextId
  BY DEF ApiTypes
<1> DEFINE new == [step |-> IF kind = "login" THEN "permit" ELSE "session",
                   kind |-> kind, client |-> c, cookie |-> cookie[c], new |-> 0,
                   row |-> row, port |-> port, enabled |-> enabled]
<1>4. new \in Request
  BY <1>2, <1>3 DEF Request, Steps
<1>5. /\ new.step \in {"permit", "session"} /\ new.new = 0 /\ new.cookie < nextId
      /\ new.step = "session" => new.kind # "login"
  BY <1>3
<1>6. request' = [request EXCEPT ![s] = new]
  BY <1>1
<1>7. asked' \in 0..scenario.asks
  BY ApiAssumption DEF Ask, ApiTypes
<1> HIDE DEF new
<1>8. request' \in [Slots -> {Free} \cup Request] /\ request'[s] = new
      /\ \A t \in Slots \ {s} : request'[t] = request[t]
  BY <1>4, <1>6 DEF ApiTypes
<1>9. ApiTypes'
  BY <1>7, <1>8 DEF Ask, ApiTypes, login, threads, catalog
<1> QED
  BY <1>4, <1>5, <1>8, <1>9

\* Logins, logouts and reads.
LEMMA SessionTypes ==
  ASSUME ApiTypes, Ids, NEW s \in Slots,
         \/ RequireSession(s) \/ StartVerification(s) \/ Verified(s) \/ RenewId(s)
         \/ CreateSession(s) \/ SaveSession(s) \/ FlushSession(s)
         \/ StartRead(s) \/ ReadDone(s)
  PROVE  ApiTypes'
<1> USE DEF Rest, login, threads, catalog
<1>1. CASE RequireSession(s)
  <2>1. request' \in [Slots -> {Free} \cup Request]
    BY <1>1, Goes, Answers DEF RequireSession, At, Steps
  <2>2. DOMAIN records' \subseteq DOMAIN records
    BY <1>1 DEF RequireSession, Deleted
  <2>3. cookie' \in [Clients -> 0..(nextId - 1)]
    <3>1. request[s] \in Request
      BY <1>1, Occupied DEF RequireSession, At
    <3> QED
      BY <1>1, <3>1 DEF RequireSession, ApiTypes, Request
  <2> QED
    BY <1>1, <2>1, <2>2, <2>3, Fewer DEF RequireSession, ApiTypes
<1>2. CASE StartVerification(s)
  <2>1. request' \in [Slots -> {Free} \cup Request]
    BY <1>2, Goes, Answers DEF StartVerification, At, Steps
  <2> QED
    BY <1>2, <2>1, TypesKept DEF StartVerification
<1>3. CASE Verified(s)
  <2>1. request' \in [Slots -> {Free} \cup Request]
    BY <1>3, Goes, Answers DEF Verified, At, Steps
  <2> QED
    BY <1>3, <2>1, TypesKept DEF Verified
<1>4. CASE RenewId(s)
  <2>1. request' \in [Slots -> {Free} \cup Request]
    BY <1>4, Goes DEF RenewId, At, Steps
  <2>2. DOMAIN records' \subseteq DOMAIN records
    BY <1>4 DEF RenewId, Deleted
  <2> QED
    BY <1>4, <2>1, <2>2, Fewer DEF RenewId, ApiTypes
<1>5. CASE CreateSession(s)
  <2>1. DOMAIN Purged \subseteq DOMAIN records
    BY DEF Purged
  <2>2. CASE Cardinality(DOMAIN Purged) >= Capacity
    <3>1. request' \in [Slots -> {Free} \cup Request]
      BY <1>5, <2>2, Answers DEF CreateSession
    <3>2. DOMAIN records' \subseteq DOMAIN records
      BY <1>5, <2>1, <2>2 DEF CreateSession
    <3> QED
      BY <1>5, <2>2, <3>1, <3>2, Fewer DEF CreateSession, ApiTypes
  <2>3. CASE ~(Cardinality(DOMAIN Purged) >= Capacity)
    <3>1. request' \in [Slots -> {Free} \cup Request]
      <4>1. request[s] \in Request
        BY <1>5, Occupied DEF CreateSession, At
      <4>2. [request[s] EXCEPT !.step = "save", !.new = nextId] \in Request
        BY <4>1 DEF Request, Steps, ApiTypes
      <4>3. request' = [request EXCEPT ![s] = [request[s] EXCEPT !.step = "save", !.new = nextId]]
        BY <1>5, <2>3 DEF CreateSession
      <4> QED
        BY <4>2, <4>3 DEF ApiTypes
    <3>2. DOMAIN records' = DOMAIN Purged \cup {nextId} /\ nextId' = nextId + 1
      BY <1>5, <2>3 DEF CreateSession
    <3>3. IsFiniteSet(DOMAIN Purged) /\ Cardinality(DOMAIN Purged) \in Nat
      <4>1. IsFiniteSet(DOMAIN records)
        <5>1. nextId - 1 \in Int /\ DOMAIN records \in SUBSET (1..(nextId - 1))
          BY DEF ApiTypes
        <5>2. IsFiniteSet(1..(nextId - 1))
          BY <5>1, FS_Interval
        <5> QED
          BY <5>1, <5>2, FS_Subset
      <4>2. IsFiniteSet(DOMAIN Purged)
        BY <2>1, <4>1, FS_Subset
      <4> QED
        BY <4>2, FS_CardinalityType
    <3>4. Cardinality(DOMAIN records') <= Capacity
      <4>1. Cardinality(DOMAIN Purged \cup {nextId}) =
              IF nextId \in DOMAIN Purged THEN Cardinality(DOMAIN Purged)
              ELSE Cardinality(DOMAIN Purged) + 1
        BY <3>3, FS_AddElement
      <4>2. IsFiniteSet(DOMAIN Purged \cup {nextId})
        BY <3>3, FS_AddElement
      <4>3. Cardinality(DOMAIN Purged \cup {nextId}) \in Nat
        BY <4>2, FS_CardinalityType
      <4> QED
        BY <2>3, <3>2, <3>3, <4>1, <4>3, ApiAssumption
    <3>5. DOMAIN records' \subseteq 1..(nextId' - 1)
      BY <2>1, <3>2 DEF ApiTypes
    <3>6. revoked \subseteq 1..(nextId' - 1) /\ cookie \in [Clients -> 0..(nextId' - 1)]
          /\ nextId' \in Nat \ {0}
      BY <3>2 DEF ApiTypes
    <3> QED
      BY <1>5, <3>1, <3>4, <3>5, <3>6 DEF CreateSession, ApiTypes
  <2> QED
    BY <2>2, <2>3
<1>6. CASE SaveSession(s)
  <2>1. request' \in [Slots -> {Free} \cup Request] /\ request[s] \in Request /\ request[s] # Free
    BY <1>6, Answers, Occupied DEF SaveSession, At
  <2>2. request[s].new \in 0..(nextId - 1) /\ request[s].cookie \in 0..(nextId - 1)
    BY <2>1 DEF Ids, Request, ApiTypes
  <2>3. cookie' \in [Clients -> 0..(nextId - 1)]
    <3>1. cookie \in [Clients -> 0..(nextId - 1)]
      BY DEF ApiTypes
    <3>2. cookie' = cookie \/ cookie' = [cookie EXCEPT ![request[s].client] = request[s].new]
      BY <1>6 DEF SaveSession, LoggedIn
    <3> QED
      BY <2>2, <3>1, <3>2
  <2>4. revoked' \subseteq 1..(nextId - 1)
    <3>1. revoked \subseteq 1..(nextId - 1)
      BY DEF ApiTypes
    <3>2. revoked' = revoked \/ revoked' = revoked \cup ({request[s].cookie} \ {0})
      BY <1>6 DEF SaveSession, LoggedIn
    <3>3. {request[s].cookie} \ {0} \subseteq 1..(nextId - 1)
      BY <2>2
    <3> QED
      BY <3>1, <3>2, <3>3
  <2> QED
    BY <1>6, <2>1, <2>3, <2>4 DEF SaveSession, ApiTypes
<1>7. CASE FlushSession(s)
  <2>1. request' \in [Slots -> {Free} \cup Request] /\ request[s] \in Request /\ request[s] # Free
    BY <1>7, Answers, Occupied DEF FlushSession, At
  <2>2. request[s].cookie \in 1..(nextId - 1)
    BY <1>7, <2>1 DEF Ids, Request, ApiTypes, FlushSession, At
  <2>3. cookie' \in [Clients -> 0..(nextId - 1)]
    <3>1. 0 \in 0..(nextId - 1) /\ cookie \in [Clients -> 0..(nextId - 1)]
      BY DEF ApiTypes
    <3> QED
      BY <1>7, <3>1 DEF FlushSession
  <2>4. revoked' \subseteq 1..(nextId - 1)
    <3>1. revoked' = revoked \cup {request[s].cookie} /\ revoked \subseteq 1..(nextId - 1)
      BY <1>7 DEF FlushSession, ApiTypes
    <3> QED
      BY <2>2, <3>1
  <2>5. DOMAIN records' \subseteq DOMAIN records
    BY <1>7 DEF FlushSession, Deleted
  <2> QED
    BY <1>7, <2>1, <2>3, <2>4, <2>5, Fewer DEF FlushSession, ApiTypes
<1>8. CASE StartRead(s)
  <2>1. request' \in [Slots -> {Free} \cup Request]
    BY <1>8, Goes, Answers DEF StartRead, At, Steps
  <2> QED
    BY <1>8, <2>1, TypesKept DEF StartRead
<1>9. CASE ReadDone(s)
  <2>1. request' \in [Slots -> {Free} \cup Request]
    BY <1>9, Answers DEF ReadDone
  <2> QED
    BY <1>9, <2>1, TypesKept DEF ReadDone
<1> QED
  BY <1>1, <1>2, <1>3, <1>4, <1>5, <1>6, <1>7, <1>8, <1>9

\* The Sources. A row that is written keeps its type.
LEMMA EditTypes ==
  ASSUME ApiTypes, NEW s \in Slots,
         \/ RestoreSource(s) \/ SelectRestored(s) \/ InsertSource(s)
         \/ UpdateSource(s) \/ DeleteSource(s) \/ NotifySourceChange(s)
  PROVE  ApiTypes'
<1> USE DEF Rest, login, threads, catalog
<1>1. sources \in Seq(Source) /\ \A i \in DOMAIN sources : sources[i] \in Source
  BY DEF ApiTypes
<1>2. ASSUME request[s].step # "free"
      PROVE  request[s].port \in Ports \cup {0} /\ request[s].enabled \in BOOLEAN
  BY <1>2, Occupied DEF Request
<1>3. CASE RestoreSource(s)
  <2>1. request' \in [Slots -> {Free} \cup Request]
    BY <1>3, Goes DEF RestoreSource, Write, At, Steps
  <2> DEFINE deleted == OnPort(request[s].port, TRUE)
             table == [i \in DOMAIN sources |-> IF i \in deleted
                         THEN [sources[i] EXCEPT !.enabled = request[s].enabled, !.deleted = FALSE]
                         ELSE sources[i]]
  <2>2. table \in Seq(Source)
    <3>1. \A i \in DOMAIN sources :
            [sources[i] EXCEPT !.enabled = request[s].enabled, !.deleted = FALSE] \in Source
      BY <1>1, <1>2, <1>3 DEF RestoreSource, At, Source
    <3>2. DOMAIN sources = 1..Len(sources) /\ Len(sources) \in Nat
      BY <1>1
    <3>3. table \in [1..Len(sources) -> Source]
      BY <1>1, <3>1, <3>2
    <3> HIDE DEF table
    <3> QED
      BY <3>2, <3>3, SeqDef
  <2>3. sources' = sources \/ sources' = table
    BY <1>3 DEF RestoreSource, Write
  <2>4. UNCHANGED capture
    BY <1>3 DEF RestoreSource, Write
  <2> HIDE DEF table
  <2> QED
    BY <1>1, <1>3, <2>1, <2>2, <2>3, <2>4 DEF RestoreSource, ApiTypes
<1>4. CASE SelectRestored(s)
  <2>1. request' \in [Slots -> {Free} \cup Request]
    BY <1>4, Goes, Answers DEF SelectRestored, At, Steps
  <2> QED
    BY <1>4, <2>1, TypesKept DEF SelectRestored
<1>5. CASE InsertSource(s)
  <2>1. request' \in [Slots -> {Free} \cup Request]
    BY <1>5, Goes, Answers DEF InsertSource, Write, At, Steps
  <2>2. sources' \in Seq(Source) /\ UNCHANGED capture
    <3>1. [port |-> request[s].port, enabled |-> request[s].enabled, deleted |-> FALSE] \in Source
      BY <1>2, <1>5 DEF InsertSource, At, Source
    <3> QED
      BY <1>1, <1>5, <3>1 DEF InsertSource, Write
  <2> QED
    BY <1>5, <2>1, <2>2 DEF InsertSource, ApiTypes
<1>6. CASE UpdateSource(s)
  <2>1. request' \in [Slots -> {Free} \cup Request]
    BY <1>6, Goes, Answers DEF UpdateSource, Write, At, Steps
  <2>2. sources' \in Seq(Source) /\ UNCHANGED capture
    <3> DEFINE row == request[s].row
               edited == [sources EXCEPT ![row].port = request[s].port,
                                         ![row].enabled = request[s].enabled]
    <3>1. CASE sources' = edited /\ row \in DOMAIN sources
      <4>1. request[s].port \in Ports \cup {0} /\ request[s].enabled \in BOOLEAN
        BY <1>2, <1>6 DEF UpdateSource, At
      <4>2. [[sources[row] EXCEPT !.port = request[s].port] EXCEPT !.enabled = request[s].enabled]
              \in Source
        BY <1>1, <3>1, <4>1 DEF Source
      <4>3. edited = [sources EXCEPT ![row] =
                  [[sources[row] EXCEPT !.port = request[s].port] EXCEPT !.enabled = request[s].enabled]]
        BY <1>1, <3>1
      <4>4. edited \in Seq(Source)
        BY <1>1, <3>1, <4>2, <4>3
      <4> QED
        BY <1>6, <3>1, <4>4 DEF UpdateSource, Write
    <3>2. CASE UNCHANGED sources
      BY <1>1, <1>6, <3>2 DEF UpdateSource, Write
    <3> QED
      BY <1>6, <3>1, <3>2 DEF UpdateSource, Write, Absent
  <2> QED
    BY <1>6, <2>1, <2>2 DEF UpdateSource, ApiTypes
<1>7. CASE DeleteSource(s)
  <2>1. request' \in [Slots -> {Free} \cup Request]
    BY <1>7, Goes, Answers DEF DeleteSource, Write, At, Steps
  <2>2. sources' \in Seq(Source) /\ UNCHANGED capture
    <3> DEFINE row == request[s].row
               edited == [sources EXCEPT ![row].enabled = FALSE, ![row].deleted = TRUE]
    <3>1. CASE sources' = edited /\ row \in DOMAIN sources
      <4>1. [[sources[row] EXCEPT !.enabled = FALSE] EXCEPT !.deleted = TRUE] \in Source
        BY <1>1, <3>1 DEF Source
      <4>2. edited = [sources EXCEPT ![row] =
                  [[sources[row] EXCEPT !.enabled = FALSE] EXCEPT !.deleted = TRUE]]
        BY <1>1, <3>1
      <4>3. edited \in Seq(Source)
        BY <1>1, <3>1, <4>1, <4>2
      <4> QED
        BY <1>7, <3>1, <4>3 DEF DeleteSource, Write
    <3>2. CASE UNCHANGED sources
      BY <1>1, <1>7, <3>2 DEF DeleteSource, Write
    <3> QED
      BY <1>7, <3>1, <3>2 DEF DeleteSource, Write, Absent
  <2> QED
    BY <1>7, <2>1, <2>2 DEF DeleteSource, ApiTypes
<1>8. CASE NotifySourceChange(s)
  <2>1. request' \in [Slots -> {Free} \cup Request]
    BY <1>8, Answers DEF NotifySourceChange
  <2>2. capture' \in [step : CaptureSteps, active : SUBSET (Nat \X (Ports \cup {0})), unseen : BOOLEAN]
    BY <1>8 DEF NotifySourceChange, ApiTypes
  <2> QED
    BY <1>8, <2>1, <2>2 DEF NotifySourceChange, ApiTypes
<1> QED
  BY <1>3, <1>4, <1>5, <1>6, <1>7, <1>8

LEMMA LeaveTypes ==
  ASSUME ApiTypes, NEW s \in Slots, Leave(s)
  PROVE  ApiTypes'
<1>1. request' \in [Slots -> {Free} \cup Request]
  BY Answers DEF Leave
<1> QED
  BY <1>1, TypesKept DEF Leave, Rest, login, catalog

LEMMA CaptureTypes ==
  ASSUME ApiTypes, RunCapture
  PROVE  ApiTypes'
<1>1. capture' \in [step : CaptureSteps, active : SUBSET (Nat \X (Ports \cup {0})), unseen : BOOLEAN]
  <2>1. CASE LoadSources
    BY <2>1, ActiveType DEF LoadSources, ApiTypes, CaptureSteps
  <2>2. CASE OpenCapture
    BY <2>2 DEF OpenCapture, ApiTypes, CaptureSteps
  <2>3. CASE SourcesChanged
    BY <2>3 DEF SourcesChanged, ApiTypes, CaptureSteps
  <2>4. CASE CaptureFails
    BY <2>4 DEF CaptureFails, Ended, Begun, CaptureSteps
  <2> QED
    BY <2>1, <2>2, <2>3, <2>4 DEF RunCapture
<1>2. CaptureRest
  BY DEF RunCapture, LoadSources, OpenCapture, SourcesChanged, CaptureFails
<1> QED
  BY <1>1, <1>2 DEF CaptureRest, ApiTypes, login

\* The process: what it loses has the types it starts with.
LEMMA ProcessTypes ==
  ASSUME ApiTypes, StartUp \/ Record \/ End \/ Tick \/ OrphanDone
  PROVE  ApiTypes'
<1> USE DEF Rest, login, threads, catalog, refresh
<1>1. CASE StartUp
  <2>1. capture' \in [step : CaptureSteps, active : SUBSET (Nat \X (Ports \cup {0})), unseen : BOOLEAN]
    BY <1>1 DEF StartUp, Begun, Ended, CaptureSteps
  <2> QED
    BY <1>1, <2>1 DEF StartUp, ApiTypes
<1>2. CASE Record
  BY <1>2 DEF Record, ApiTypes
<1>3. CASE End
  <2>1. records' = [id \in {} |-> 0] /\ DOMAIN records' = {}
    BY <1>3 DEF End
  <2>2. Cardinality(DOMAIN records') <= Capacity
    BY <2>1, FS_EmptySet, ApiAssumption
  <2>3. capture' \in [step : CaptureSteps, active : SUBSET (Nat \X (Ports \cup {0})), unseen : BOOLEAN]
    BY <1>3 DEF End, Begun, Ended, CaptureSteps
  <2>4. request' \in [Slots -> {Free} \cup Request]
    BY <1>3 DEF End
  <2> QED
    BY <1>3, <2>1, <2>2, <2>3, <2>4 DEF End, ApiTypes
<1>4. CASE Tick
  BY <1>4, ApiAssumption DEF Tick, ApiTypes
<1>5. CASE OrphanDone
  BY <1>5 DEF OrphanDone, ApiTypes
<1> QED
  BY <1>1, <1>2, <1>3, <1>4, <1>5

LEMMA NextTypes ==
  ASSUME ApiTypes, Ids, [Next]_vars
  PROVE  ApiTypes'
<1>1. CASE UNCHANGED vars
  BY <1>1 DEF vars, login, threads, catalog, ApiTypes
<1>2. CASE \E s \in Slots : Handle(s)
  BY <1>2, AskTypes, SessionTypes, EditTypes, LeaveTypes DEF Handle
<1> QED
  BY <1>1, <1>2, CaptureTypes, ProcessTypes DEF Next

-----------------------------------------------------------------------------
(* Every step keeps what is known of the login sessions' ids. *)

\* A step that creates no record and adds no slot to those that know an id.
LEMMA IdsKept ==
  ASSUME Ids, NEW s \in Slots, \A t \in Slots \ {s} : request'[t] = request[t],
         DOMAIN records' \subseteq DOMAIN records, nextId' = nextId,
         revoked' \cap DOMAIN records' = {},
         request'[s] # Free =>
           /\ request'[s].cookie < nextId /\ request'[s].new < nextId
           /\ request'[s].step \in {"create", "save"} => request'[s].cookie \notin DOMAIN records'
           /\ request'[s].step = "save" => request'[s].new # 0
           /\ request'[s].step = "flush" => request'[s].cookie # 0
  PROVE  Ids'
  BY DEF Ids, SignedOut

LEMMA NextIds ==
  ASSUME ApiTypes, Ids, [Next]_vars
  PROVE  Ids'
<1> USE DEF Rest, login, threads, catalog
<1>1. CASE UNCHANGED vars
  BY <1>1 DEF vars, Ids, SignedOut
<1>2. CASE StartUp \/ Record \/ Tick \/ OrphanDone
  <2>1. UNCHANGED <<login, request>>
    BY <1>2 DEF StartUp, Record, Tick, OrphanDone
  <2> QED
    BY <2>1 DEF Ids, SignedOut
<1>3. CASE RunCapture
  <2>1. UNCHANGED <<login, request>>
    BY <1>3 DEF RunCapture, LoadSources, OpenCapture, SourcesChanged, CaptureFails, CaptureRest
  <2> QED
    BY <2>1 DEF Ids, SignedOut
<1>4. CASE End
  BY <1>4 DEF End, Ids, SignedOut
<1>5. ASSUME NEW s \in Slots, Handle(s)
      PROVE  Ids'
  <2>1. revoked \cap DOMAIN records = {}
    BY DEF Ids, SignedOut
  <2>2. ASSUME request[s].step # "free"
        PROVE  /\ request[s] \in Request
               /\ request[s].cookie < nextId /\ request[s].new < nextId
    BY <2>2, Occupied DEF Ids
  <2>3. CASE Ask(s)
    <3>1. UNCHANGED login
      BY <2>3 DEF Ask
    <3>2. \A t \in Slots \ {s} : request'[t] = request[t]
      BY <2>3, AskTypes
    <3>3. /\ request'[s].new < nextId /\ request'[s].cookie < nextId
          /\ request'[s].step \notin {"create", "save", "flush"}
      <4>1. /\ request'[s].new = 0 /\ request'[s].cookie < nextId
            /\ request'[s].step \in {"permit", "session"}
        BY <2>3, AskTypes
      <4>2. 0 < nextId
        BY DEF ApiTypes
      <4> QED
        BY <4>1, <4>2
    <3> QED
      BY <2>1, <3>1, <3>2, <3>3, IdsKept
  <2>4. CASE RequireSession(s)
    <3>1. DOMAIN records' \subseteq DOMAIN records /\ UNCHANGED <<nextId, revoked>>
      BY <2>4 DEF RequireSession, Deleted
    <3>2. CASE Live(request[s].cookie)
      <4>1. PICK step \in {"flush", "permit", "edit"} : Goto(s, step) /\ UNCHANGED records
        BY <2>4, <3>2 DEF RequireSession
      <4>2. request[s].cookie \in DOMAIN records /\ request[s].cookie # 0
        BY <3>2 DEF Live, ApiTypes
      <4> QED
        BY <2>1, <2>2, <2>4, <3>1, <4>1, <4>2, Goes, IdsKept DEF RequireSession, At, Steps
    <3>3. CASE ~Live(request[s].cookie)
      BY <2>1, <2>4, <3>1, <3>3, Answers, IdsKept DEF RequireSession
    <3> QED
      BY <3>2, <3>3
  <2>5. CASE StartVerification(s) \/ Verified(s) \/ StartRead(s) \/ ReadDone(s) \/ Leave(s)
             \/ RestoreSource(s) \/ SelectRestored(s) \/ InsertSource(s)
             \/ UpdateSource(s) \/ DeleteSource(s) \/ NotifySourceChange(s)
    <3>1. UNCHANGED login
      BY <2>5 DEF StartVerification, Verified, StartRead, ReadDone, Leave, RestoreSource,
                  SelectRestored, InsertSource, UpdateSource, DeleteSource, NotifySourceChange
    <3>2. CASE Answer(s)
      BY <2>1, <3>1, <3>2, Answers, IdsKept
    <3>3. CASE ~Answer(s)
      <4>1. request[s].step # "free" /\
            \E step \in Steps \ {"create", "save", "flush"} : Goto(s, step)
        BY <2>5, <3>3
        DEF StartVerification, Verified, StartRead, ReadDone, Leave, RestoreSource, Write, At, Steps,
            SelectRestored, InsertSource, UpdateSource, DeleteSource, NotifySourceChange
      <4> QED
        BY <2>1, <2>2, <3>1, <4>1, Goes, IdsKept
    <3> QED
      BY <3>2, <3>3
  <2>6. CASE RenewId(s)
    <3>1. DOMAIN records' \subseteq DOMAIN records /\ request[s].cookie \notin DOMAIN records'
          /\ UNCHANGED <<nextId, revoked>>
      BY <2>6 DEF RenewId, Deleted
    <3> QED
      BY <2>1, <2>2, <2>6, <3>1, Goes, IdsKept DEF RenewId, At, Steps
  <2>7. CASE CreateSession(s)
    <3>1. DOMAIN Purged \subseteq DOMAIN records
      BY DEF Purged
    <3>2. request[s].step = "create" /\ request[s] # Free /\ revoked' = revoked
      BY <2>7, Occupied DEF CreateSession, At
    <3>3. CASE Cardinality(DOMAIN Purged) >= Capacity
      BY <2>1, <2>7, <3>1, <3>2, <3>3, Answers, IdsKept DEF CreateSession
    <3>4. CASE ~(Cardinality(DOMAIN Purged) >= Capacity)
      <4>1. /\ DOMAIN records' = DOMAIN Purged \cup {nextId} /\ nextId' = nextId + 1
            /\ request' = [request EXCEPT ![s].step = "save", ![s].new = nextId]
        BY <2>7, <3>4 DEF CreateSession
      <4>2. \A t \in Slots \ {s} : request'[t] = request[t]
        BY <4>1 DEF ApiTypes
      <4>3. request[s] \in Request /\ request[s].cookie < nextId /\ nextId \in Nat \ {0}
            /\ request[s].cookie \notin DOMAIN records
        BY <2>2, <3>2 DEF Ids, ApiTypes
      <4>4. /\ request'[s].step = "save" /\ request'[s].new = nextId
            /\ request'[s].cookie = request[s].cookie
        BY <4>1, <4>3 DEF ApiTypes, Request
      <4>5. revoked' \cap DOMAIN records' = {}
        BY <2>1, <3>1, <3>2, <4>1 DEF ApiTypes
      <4>6. request[s].cookie \notin DOMAIN records' /\ request[s].cookie < nextId'
        BY <3>1, <4>1, <4>3 DEF Request
      <4>7. ASSUME NEW t \in Slots \ {s}, request'[t] # Free
            PROVE  /\ request'[t].cookie < nextId' /\ request'[t].new < nextId'
                   /\ request'[t].step \in {"create", "save"} =>
                        request'[t].cookie \notin DOMAIN records'
                   /\ request'[t].step = "save" => request'[t].new # 0
                   /\ request'[t].step = "flush" => request'[t].cookie # 0
        <5>1. request[t] \in Request /\ request'[t] = request[t]
          BY <4>2, <4>7 DEF ApiTypes
        <5>2. request[t].cookie \in Nat /\ request[t].new \in Nat
          BY <5>1 DEF Request
        <5>3. /\ request[t].cookie < nextId /\ request[t].new < nextId
              /\ request[t].step \in {"create", "save"} => request[t].cookie \notin DOMAIN records
              /\ request[t].step = "save" => request[t].new # 0
              /\ request[t].step = "flush" => request[t].cookie # 0
          BY <4>7, <5>1 DEF Ids
        <5> QED
          BY <3>1, <4>1, <4>3, <5>1, <5>2, <5>3
      <4>8. /\ request'[s].cookie < nextId' /\ request'[s].new < nextId'
            /\ request'[s].cookie \notin DOMAIN records'
            /\ request'[s].step = "save" /\ request'[s].new # 0
        BY <4>1, <4>3, <4>4, <4>6
      <4> HIDE DEF Rest, login, threads, catalog
      <4> QED
        BY <4>5, <4>7, <4>8 DEF Ids, SignedOut
    <3> QED
      BY <3>3, <3>4
  <2>8. CASE SaveSession(s)
    <3>1. UNCHANGED <<records, nextId>> /\ Answer(s)
      BY <2>8 DEF SaveSession
    <3>2. request[s].step = "save" /\ request[s] # Free
      BY <2>8, Occupied DEF SaveSession, At
    <3>3. request[s].cookie \notin DOMAIN records
      BY <3>2 DEF Ids
    <3>4. revoked' \cap DOMAIN records' = {}
      BY <2>1, <2>8, <3>1, <3>3 DEF SaveSession, LoggedIn
    <3> QED
      BY <3>1, <3>4, Answers, IdsKept
  <2>9. CASE FlushSession(s)
    <3>1. /\ DOMAIN records' = DOMAIN records \ {request[s].cookie} /\ nextId' = nextId
          /\ revoked' = revoked \cup {request[s].cookie} /\ Answer(s)
      BY <2>9 DEF FlushSession, Deleted
    <3>2. revoked' \cap DOMAIN records' = {}
      BY <2>1, <3>1
    <3> QED
      BY <3>1, <3>2, Answers, IdsKept
  <2> QED
    BY <1>5, <2>3, <2>4, <2>5, <2>6, <2>7, <2>8, <2>9 DEF Handle
<1> QED
  BY <1>1, <1>2, <1>3, <1>4, <1>5 DEF Next

-----------------------------------------------------------------------------
(* Every step keeps the count of the permits. *)

LEMMA NextPermits ==
  ASSUME ApiTypes, Permits, [Next]_vars
  PROVE  Permits'
<1> USE DEF Rest, login, threads, catalog
<1> DEFINE V == Running("verifying")
           R == Running("reading")
<1>0. /\ verifier \in Nat /\ reads \in Nat /\ orphans \in [verifying : Nat, reading : Nat]
      /\ IsFiniteSet(V) /\ IsFiniteSet(R)
      /\ Cardinality(V) \in Nat /\ Cardinality(R) \in Nat
      /\ verifier + Cardinality(V) + orphans.verifying = Verifiers
      /\ reads + Cardinality(R) + orphans.reading = ChainReads
  BY FS_CardinalityType DEF Permits
<1>1. ASSUME UNCHANGED request
      PROVE  V' = V /\ R' = R
  BY <1>1 DEF Running
<1>2. CASE UNCHANGED vars
  BY <1>0, <1>1, <1>2 DEF vars, Permits
<1>3. CASE StartUp \/ Record \/ Tick \/ RunCapture
  BY <1>0, <1>1, <1>3
  DEF StartUp, Record, Tick, RunCapture, LoadSources, OpenCapture, SourcesChanged, CaptureFails,
      CaptureRest, Permits
<1>4. CASE OrphanDone
  <2>1. UNCHANGED request
    BY <1>4 DEF OrphanDone
  <2>2. /\ verifier' + orphans'.verifying = verifier + orphans.verifying
        /\ reads' + orphans'.reading = reads + orphans.reading
        /\ verifier' \in Nat /\ reads' \in Nat /\ orphans' \in [verifying : Nat, reading : Nat]
    BY <1>0, <1>4 DEF OrphanDone
  <2> QED
    BY <1>0, <1>1, <2>1, <2>2 DEF Permits
<1>5. CASE End
  <2>1. V' = {} /\ R' = {}
    BY <1>5 DEF End, Running, Free
  <2>2. /\ IsFiniteSet(V') /\ Cardinality(V') = 0
        /\ IsFiniteSet(R') /\ Cardinality(R') = 0
    BY <2>1, FS_EmptySet
  <2>3. /\ verifier' = Verifiers /\ reads' = ChainReads
        /\ orphans' = [verifying |-> 0, reading |-> 0]
    BY <1>5 DEF End
  <2> HIDE DEF V, R
  <2>4. /\ verifier' + Cardinality(V') + orphans'.verifying = Verifiers
        /\ reads' + Cardinality(R') + orphans'.reading = ChainReads
    BY <2>2, <2>3, ApiAssumption
  <2> QED
    BY <2>2, <2>3, <2>4, ApiAssumption DEF Permits, V, R
<1>6. ASSUME NEW s \in Slots, Handle(s)
      PROVE  Permits'
  <2> DEFINE one(r, step) == IF r.step = step THEN 1 ELSE 0
  <2>1. ASSUME \A t \in Slots \ {s} : request'[t] = request[t],
               verifier' \in Nat, reads' \in Nat, orphans' \in [verifying : Nat, reading : Nat],
               verifier' + orphans'.verifying + one(request'[s], "verifying")
                 = verifier + orphans.verifying + one(request[s], "verifying"),
               reads' + orphans'.reading + one(request'[s], "reading")
                 = reads + orphans.reading + one(request[s], "reading")
        PROVE  Permits'
    <3>1. /\ IsFiniteSet(V') /\ Cardinality(V') \in Nat
          /\ Cardinality(V') = Cardinality(V) - one(request[s], "verifying")
                                              + one(request'[s], "verifying")
      BY <1>0, <2>1, Counted
    <3>2. /\ IsFiniteSet(R') /\ Cardinality(R') \in Nat
          /\ Cardinality(R') = Cardinality(R) - one(request[s], "reading")
                                              + one(request'[s], "reading")
      BY <1>0, <2>1, Counted
    <3>3. /\ one(request[s], "verifying") \in Nat /\ one(request'[s], "verifying") \in Nat
          /\ one(request[s], "reading") \in Nat /\ one(request'[s], "reading") \in Nat
      OBVIOUS
    <3> HIDE DEF V, R, one
    <3>4. verifier' + Cardinality(V') + orphans'.verifying = Verifiers
      BY <1>0, <2>1, <3>1, <3>3
    <3>5. reads' + Cardinality(R') + orphans'.reading = ChainReads
      BY <1>0, <2>1, <3>2, <3>3
    <3> QED
      BY <2>1, <3>1, <3>2, <3>4, <3>5 DEF Permits, V, R
  <2>2. CASE Ask(s)
    <3>1. request[s].step = "free" /\ UNCHANGED threads
      BY <2>2 DEF Ask, At
    <3>2. request'[s].step \in {"permit", "session"} /\ \A t \in Slots \ {s} : request'[t] = request[t]
      BY <2>2, AskTypes
    <3> QED
      BY <1>0, <2>1, <3>1, <3>2
  <2>3. CASE RequireSession(s) \/ RenewId(s) \/ SaveSession(s) \/ FlushSession(s)
             \/ RestoreSource(s) \/ SelectRestored(s) \/ InsertSource(s)
             \/ UpdateSource(s) \/ DeleteSource(s) \/ NotifySourceChange(s)
    <3>1. request[s].step \notin {"free", "verifying", "reading"} /\ UNCHANGED threads
      BY <2>3
      DEF RequireSession, RenewId, SaveSession, FlushSession, RestoreSource, SelectRestored,
          InsertSource, UpdateSource, DeleteSource, NotifySourceChange, At
    <3>2. Answer(s) \/ \E step \in Steps \ {"verifying", "reading"} : Goto(s, step)
      BY <2>3
      DEF RequireSession, RenewId, SaveSession, FlushSession, RestoreSource, SelectRestored, Write,
          InsertSource, UpdateSource, DeleteSource, NotifySourceChange, Steps
    <3>3. /\ request'[s].step \notin {"verifying", "reading"}
          /\ \A t \in Slots \ {s} : request'[t] = request[t]
      BY <3>1, <3>2, Answers, Goes
    <3> QED
      BY <1>0, <2>1, <3>1, <3>3
  <2>4. CASE CreateSession(s)
    <3>1. request[s].step = "create" /\ UNCHANGED threads
      BY <2>4 DEF CreateSession, At
    <3>2. \/ Answer(s)
          \/ request' = [request EXCEPT ![s].step = "save", ![s].new = nextId]
      BY <2>4 DEF CreateSession
    <3>3. /\ request'[s].step \notin {"verifying", "reading"}
          /\ \A t \in Slots \ {s} : request'[t] = request[t]
      <4>1. CASE Answer(s)
        BY <4>1, Answers
      <4>2. CASE request' = [request EXCEPT ![s].step = "save", ![s].new = nextId]
        <5>1. request[s] \in Request
          BY <3>1, Occupied
        <5> QED
          BY <4>2, <5>1 DEF ApiTypes, Request
      <4> QED
        BY <3>2, <4>1, <4>2
    <3> QED
      BY <1>0, <2>1, <3>1, <3>3
  <2>5. CASE StartVerification(s)
    <3>1. request[s].step = "permit"
      BY <2>5 DEF StartVerification, At
    <3>2. CASE verifier > 0
      <4>1. /\ verifier' = verifier - 1 /\ UNCHANGED <<reads, orphans>> /\ Goto(s, "verifying")
        BY <2>5, <3>2 DEF StartVerification
      <4>2. request'[s].step = "verifying" /\ \A t \in Slots \ {s} : request'[t] = request[t]
        BY <3>1, <4>1, Goes DEF Steps
      <4>3. verifier' \in Nat
        BY <1>0, <3>2, <4>1
      <4> QED
        BY <1>0, <2>1, <3>1, <4>1, <4>2, <4>3
    <3>3. CASE ~(verifier > 0)
      <4>1. UNCHANGED threads /\ Answer(s)
        BY <2>5, <3>3 DEF StartVerification
      <4> QED
        BY <1>0, <2>1, <3>1, <4>1, Answers
    <3> QED
      BY <3>2, <3>3
  <2>6. CASE StartRead(s)
    <3>1. request[s].step = "permit"
      BY <2>6 DEF StartRead, At
    <3>2. CASE reads > 0
      <4>1. /\ reads' = reads - 1 /\ UNCHANGED <<verifier, orphans>> /\ Goto(s, "reading")
        BY <2>6, <3>2 DEF StartRead
      <4>2. request'[s].step = "reading" /\ \A t \in Slots \ {s} : request'[t] = request[t]
        BY <3>1, <4>1, Goes DEF Steps
      <4>3. reads' \in Nat
        BY <1>0, <3>2, <4>1
      <4> QED
        BY <1>0, <2>1, <3>1, <4>1, <4>2, <4>3
    <3>3. CASE ~(reads > 0)
      <4>1. UNCHANGED threads /\ Answer(s)
        BY <2>6, <3>3 DEF StartRead
      <4> QED
        BY <1>0, <2>1, <3>1, <4>1, Answers
    <3> QED
      BY <3>2, <3>3
  <2>7. CASE Verified(s)
    <3>1. request[s].step = "verifying" /\ verifier' = verifier + 1 /\ UNCHANGED <<reads, orphans>>
      BY <2>7 DEF Verified, At
    <3>2. request'[s].step \in {"renew", "free"} /\ \A t \in Slots \ {s} : request'[t] = request[t]
      BY <2>7, <3>1, Goes, Answers DEF Verified, Steps
    <3> QED
      BY <1>0, <2>1, <3>1, <3>2
  <2>8. CASE ReadDone(s)
    <3>1. request[s].step = "reading" /\ reads' = reads + 1 /\ UNCHANGED <<verifier, orphans>>
      BY <2>8 DEF ReadDone, At
    <3>2. request'[s].step = "free" /\ \A t \in Slots \ {s} : request'[t] = request[t]
      BY <2>8, Answers DEF ReadDone
    <3> QED
      BY <1>0, <2>1, <3>1, <3>2
  <2>9. CASE Leave(s)
    <3>1. /\ UNCHANGED <<verifier, reads>>
          /\ orphans' = IF request[s].step \in DOMAIN orphans
                        THEN [orphans EXCEPT ![request[s].step] = @ + 1] ELSE orphans
      BY <2>9 DEF Leave
    <3>2. request'[s].step = "free" /\ \A t \in Slots \ {s} : request'[t] = request[t]
      BY <2>9, Answers DEF Leave
    <3>3. DOMAIN orphans = {"verifying", "reading"}
      BY <1>0
    <3>4. /\ orphans' \in [verifying : Nat, reading : Nat]
          /\ orphans'.verifying = orphans.verifying + one(request[s], "verifying")
          /\ orphans'.reading = orphans.reading + one(request[s], "reading")
      BY <1>0, <3>1, <3>3
    <3> QED
      BY <1>0, <2>1, <3>1, <3>2, <3>4
  <2> QED
    BY <1>6, <2>2, <2>3, <2>4, <2>5, <2>6, <2>7, <2>8, <2>9 DEF Handle
<1> QED
  BY <1>2, <1>3, <1>4, <1>5, <1>6 DEF Next

-----------------------------------------------------------------------------
(* Every step keeps the capture following the table of Sources, as long as *)
(* no handler that edits it is dropped between its statements.             *)

\* A step that leaves the table and what the capture has loaded alone, and of
\* the requests at most one that has nothing to tell.
LEMMA FollowedKept ==
  ASSUME Followed, NEW s \in Slots, \A t \in Slots \ {s} : request'[t] = request[t],
         UNCHANGED sources, UNCHANGED capture,
         request[s].step = "select" => OnPort(request[s].port, FALSE) = {},
         request[s].step # "notify",
         Editing(request'[s])
  PROVE  Followed'
<1>1. Active' = Active /\ \A port \in {request[t].port : t \in Slots} :
                            OnPort(port, FALSE)' = OnPort(port, FALSE)
  BY DEF Active, OnPort
<1>2. Telling => Telling'
  <2> SUFFICES ASSUME NEW t \in Slots,
                      \/ request[t].step = "notify"
                      \/ request[t].step = "select" /\ OnPort(request[t].port, FALSE) # {}
               PROVE  Telling'
    BY DEF Telling
  <2>1. t # s /\ request'[t] = request[t]
    OBVIOUS
  <2> QED
    BY <1>1, <2>1 DEF Telling
<1> QED
  BY <1>1, <1>2 DEF Followed

LEMMA NextFollowed ==
  ASSUME Leaving \cap Edits = {}, ApiTypes, Followed, [Next]_vars
  PROVE  Followed'
<1> USE DEF Rest, login, threads, catalog
<1>1. CASE UNCHANGED <<request, catalog>>
  BY <1>1 DEF Followed, Telling, Active, OnPort
<1>2. CASE UNCHANGED vars \/ Record \/ Tick \/ OrphanDone
  BY <1>1, <1>2 DEF vars, Record, Tick, OrphanDone
<1>3. CASE StartUp
  <2>1. capture'.step \in {"load", "ended"} /\ UNCHANGED request
    BY <1>3 DEF StartUp, Begun, Ended
  <2> QED
    BY <2>1 DEF Followed
<1>4. CASE End
  <2>1. capture'.step = "ended" /\ \A s \in Slots : request'[s].step = "free"
    BY <1>4 DEF End, Begun, Ended, Free
  <2> QED
    BY <2>1 DEF Followed, Editing
<1>5. CASE RunCapture
  <2>1. UNCHANGED <<request, sources>>
    BY <1>5 DEF RunCapture, LoadSources, OpenCapture, SourcesChanged, CaptureFails, CaptureRest
  <2>2. Active' = Active /\ (Telling <=> Telling')
    BY <2>1 DEF Active, Telling, OnPort
  <2>3. capture \in [step : CaptureSteps, active : SUBSET (Nat \X (Ports \cup {0})), unseen : BOOLEAN]
    BY DEF ApiTypes
  <2>4. CASE LoadSources
    <3>1. capture'.active = Active
      BY <2>3, <2>4 DEF LoadSources
    <3> QED
      BY <2>1, <2>2, <3>1 DEF Followed
  <2>5. CASE OpenCapture
    <3>1. capture.step = "open" /\ capture'.active = capture.active /\ capture'.unseen = capture.unseen
      BY <2>3, <2>5 DEF OpenCapture
    <3> QED
      BY <2>1, <2>2, <3>1 DEF Followed
  <2>6. CASE SourcesChanged \/ CaptureFails
    <3>1. capture'.step \in {"load", "ended"}
      BY <2>3, <2>6 DEF SourcesChanged, CaptureFails, Begun, Ended
    <3> QED
      BY <2>1, <3>1 DEF Followed
  <2> QED
    BY <1>5, <2>4, <2>5, <2>6 DEF RunCapture
<1>6. ASSUME NEW s \in Slots, Handle(s)
      PROVE  Followed'
  <2>1. Editing(request[s])
    BY DEF Followed
  <2>2. CASE Ask(s)
    <3>1. request[s].step = "free" /\ UNCHANGED catalog
      BY <2>2 DEF Ask, At
    <3>2. /\ request'[s].step \in {"permit", "session"}
          /\ request'[s].step = "session" => request'[s].kind # "login"
          /\ \A t \in Slots \ {s} : request'[t] = request[t]
      BY <2>2, AskTypes
    <3> QED
      BY <3>1, <3>2, FollowedKept DEF Editing
  <2>3. CASE RequireSession(s)
    <3>1. request[s].step = "session" /\ request[s].kind # "login" /\ UNCHANGED catalog
      BY <2>1, <2>3 DEF RequireSession, At, Editing
    <3>2. CASE Answer(s)
      BY <3>1, <3>2, Answers, FollowedKept DEF Editing
    <3>3. CASE Goto(s, "flush") \/ Goto(s, "permit")
      BY <3>1, <3>3, Goes, FollowedKept DEF Editing, Steps
    <3>4. CASE Goto(s, "edit") /\ request[s].kind \notin {"logout", "browse"}
      <4>1. request[s].kind \in Edits
        BY <3>1, <3>4, Occupied DEF Request, Kinds
      <4> QED
        BY <3>1, <3>4, <4>1, Goes, FollowedKept DEF Editing, Steps
    <3> QED
      BY <2>3, <3>2, <3>3, <3>4 DEF RequireSession
  <2>4. CASE StartVerification(s) \/ Verified(s) \/ RenewId(s) \/ SaveSession(s) \/ FlushSession(s)
             \/ StartRead(s) \/ ReadDone(s)
    <3>1. request[s].step \notin {"free", "select", "notify"} /\ UNCHANGED catalog
      BY <2>4 DEF StartVerification, Verified, RenewId, SaveSession, FlushSession, StartRead,
                  ReadDone, At
    <3>2. Answer(s) \/ \E step \in {"verifying", "renew", "create", "reading"} : Goto(s, step)
      BY <2>4 DEF StartVerification, Verified, RenewId, SaveSession, FlushSession, StartRead,
                  ReadDone
    <3> QED
      BY <3>1, <3>2, Answers, Goes, FollowedKept DEF Editing, Steps
  <2>5. CASE CreateSession(s)
    <3>1. request[s].step = "create" /\ UNCHANGED catalog
      BY <2>5 DEF CreateSession, At
    <3>2. CASE Answer(s)
      BY <3>1, <3>2, Answers, FollowedKept DEF Editing
    <3>3. CASE request' = [request EXCEPT ![s].step = "save", ![s].new = nextId]
      <4>1. request[s] \in Request
        BY <3>1, Occupied
      <4>2. request'[s].step = "save" /\ \A t \in Slots \ {s} : request'[t] = request[t]
        BY <3>3, <4>1 DEF ApiTypes, Request
      <4> QED
        BY <3>1, <4>2, FollowedKept DEF Editing
    <3> QED
      BY <2>5, <3>2, <3>3 DEF CreateSession
  <2>6. CASE Leave(s)
    <3>1. request[s].step # "free" /\ request[s].kind \notin Edits /\ Answer(s) /\ UNCHANGED catalog
      BY <2>6 DEF Leave
    <3>2. request[s].step \notin {"select", "notify"}
      BY <2>1, <3>1 DEF Editing
    <3> QED
      BY <3>1, <3>2, Answers, FollowedKept DEF Editing
  <2>7. CASE RestoreSource(s)
    <3> DEFINE deleted == OnPort(request[s].port, TRUE)
    <3>1. request[s].step = "edit" /\ UNCHANGED capture /\ request[s].kind \in Edits
      BY <2>1, <2>7 DEF RestoreSource, Write, At, Editing
    <3>2. CASE deleted = {}
      <4>1. UNCHANGED sources /\ Goto(s, "insert")
        BY <2>7, <3>2 DEF RestoreSource, Write
      <4> QED
        BY <3>1, <4>1, Goes, FollowedKept DEF Editing, Steps
    <3>3. CASE deleted # {}
      <4>1. /\ sources' = [i \in DOMAIN sources |-> IF i \in deleted
                             THEN [sources[i] EXCEPT !.enabled = request[s].enabled, !.deleted = FALSE]
                             ELSE sources[i]]
            /\ Goto(s, "select")
        BY <2>7, <3>3 DEF RestoreSource, Write
      <4>2. PICK i \in DOMAIN sources : i \in deleted
        BY <3>3 DEF OnPort
      <4>3. sources[i] \in Source /\ sources[i].port = request[s].port
        BY <4>2 DEF OnPort, ApiTypes
      <4>4. i \in DOMAIN sources' /\ sources'[i].port = request[s].port /\ sources'[i].deleted = FALSE
        BY <4>1, <4>2, <4>3 DEF Source
      <4>5. /\ request'[s].step = "select" /\ request'[s].kind \in Edits
            /\ request'[s].port = request[s].port /\ \A t \in Slots \ {s} : request'[t] = request[t]
        BY <3>1, <4>1, Goes DEF Steps
      <4>6. Telling'
        BY <4>4, <4>5 DEF Telling, OnPort
      <4> QED
        BY <4>5, <4>6 DEF Followed, Editing
    <3> QED
      BY <3>2, <3>3
  <2>8. CASE InsertSource(s) \/ UpdateSource(s) \/ DeleteSource(s)
    <3>1. /\ request[s].step \in {"edit", "insert"} /\ request[s].kind \in Edits /\ UNCHANGED capture
          /\ (Answer(s) /\ UNCHANGED sources) \/ Goto(s, "notify")
      BY <2>1, <2>8 DEF InsertSource, UpdateSource, DeleteSource, Write, At, Editing
    <3>2. CASE Answer(s) /\ UNCHANGED sources
      BY <3>1, <3>2, Answers, FollowedKept DEF Editing
    <3>3. CASE Goto(s, "notify")
      <4>1. /\ request'[s].step = "notify" /\ request'[s].kind \in Edits
            /\ \A t \in Slots \ {s} : request'[t] = request[t]
        BY <3>1, <3>3, Goes DEF Steps
      <4>2. Telling'
        BY <4>1 DEF Telling
      <4> QED
        BY <4>1, <4>2 DEF Followed, Editing
    <3> QED
      BY <3>1, <3>2, <3>3
  <2>9. CASE SelectRestored(s)
    <3>1. request[s].step = "select" /\ request[s].kind \in Edits /\ UNCHANGED catalog
      BY <2>1, <2>9 DEF SelectRestored, At, Editing
    <3>2. CASE OnPort(request[s].port, FALSE) # {}
      <4>1. /\ request'[s].step = "notify" /\ request'[s].kind \in Edits
            /\ \A t \in Slots \ {s} : request'[t] = request[t]
        BY <2>9, <3>1, <3>2, Goes DEF SelectRestored, Steps
      <4>2. Telling'
        BY <4>1 DEF Telling
      <4> QED
        BY <4>1, <4>2 DEF Followed, Editing
    <3>3. CASE OnPort(request[s].port, FALSE) = {}
      BY <2>9, <3>1, <3>3, Answers, FollowedKept DEF SelectRestored, Editing
    <3> QED
      BY <3>2, <3>3
  <2>10. CASE NotifySourceChange(s)
    <3>1. /\ request'[s].step = "free" /\ \A t \in Slots \ {s} : request'[t] = request[t]
      BY <2>10, Answers DEF NotifySourceChange
    <3>2. capture'.step = capture.step /\ (capture.step # "ended" => capture'.unseen)
      BY <2>10 DEF NotifySourceChange, ApiTypes
    <3> QED
      BY <3>1, <3>2 DEF Followed, Editing
  <2> QED
    BY <1>6, <2>2, <2>3, <2>4, <2>5, <2>6, <2>7, <2>8, <2>9, <2>10 DEF Handle
<1> QED
  BY <1>1, <1>2, <1>3, <1>4, <1>5, <1>6 DEF Next

-----------------------------------------------------------------------------
(* What the invariant is kept for. *)

ApiInv == ApiTypes /\ Ids /\ Permits

LEMMA InitApiInv == Init => ApiInv /\ Followed /\ RefreshInv
<1> SUFFICES ASSUME Init PROVE ApiInv /\ Followed /\ RefreshInv
  OBVIOUS
<1>1. /\ DOMAIN records = {} /\ nextId = 1 /\ revoked = {}
      /\ \A s \in Slots : request[s] = Free
  BY DEF Init
<1>2. Cardinality(DOMAIN records) <= Capacity
  BY <1>1, FS_EmptySet, ApiAssumption
<1>3. /\ scenario \in Scenarios /\ asked \in 0..scenario.asks /\ now \in 0..scenario.time
  BY ApiAssumption DEF Init
<1>4. /\ cookie \in [Clients -> 0..(nextId - 1)]
      /\ request \in [Slots -> {Free} \cup Request] /\ sources \in Seq(Source)
  BY DEF Init
<1>5. capture \in [step : CaptureSteps, active : SUBSET (Nat \X (Ports \cup {0})), unseen : BOOLEAN]
  BY DEF Init, Ended, Begun, CaptureSteps
<1>6. ApiTypes
  BY <1>1, <1>2, <1>3, <1>4, <1>5 DEF ApiTypes
<1>7. Ids
  BY <1>1 DEF Ids, SignedOut
<1>8. Running("verifying") = {} /\ Running("reading") = {}
  BY <1>1 DEF Running, Free
<1>9. Permits
  <2>1. /\ IsFiniteSet(Running("verifying")) /\ Cardinality(Running("verifying")) = 0
        /\ IsFiniteSet(Running("reading")) /\ Cardinality(Running("reading")) = 0
    BY <1>8, FS_EmptySet
  <2>2. /\ verifier = Verifiers /\ reads = ChainReads /\ orphans = [verifying |-> 0, reading |-> 0]
    BY DEF Init
  <2>3. /\ verifier + Cardinality(Running("verifying")) + orphans.verifying = Verifiers
        /\ reads + Cardinality(Running("reading")) + orphans.reading = ChainReads
    BY <2>1, <2>2, ApiAssumption
  <2> QED
    BY <2>1, <2>2, <2>3, ApiAssumption DEF Permits
<1>10. Followed
  BY <1>1 DEF Init, Followed, Editing, Free, Ended, Begun
<1>11. RefreshInv
  BY RefreshStart DEF Init
<1> QED
  BY <1>6, <1>7, <1>9, <1>10, <1>11 DEF ApiInv

LEMMA NextApiInv == ApiInv /\ [Next]_vars => ApiInv'
  BY NextTypes, NextIds, NextPermits DEF ApiInv

LEMMA NextRefreshInv ==
  ASSUME ~Reverts, ApiTypes, RefreshInv, [Next]_vars
  PROVE  RefreshInv'
<1>1. CASE StartUp
  <2>1. \A r \in scenario.regexes : r \in Regexes
    BY ApiAssumption DEF ApiTypes
  <2> QED
    BY <1>1, <2>1, RefreshPageStep, RefreshDoneStep, BootStep DEF StartUp
<1>2. CASE Record
  BY <1>2, StoreStep, ExpireStep DEF Record
<1>3. CASE End
  BY <1>3, HaltStep DEF End
<1>4. CASE UNCHANGED vars \/ Tick \/ OrphanDone \/ RunCapture
  <2>1. UNCHANGED refresh
    BY <1>4 DEF vars, Tick, OrphanDone, Rest, RunCapture, LoadSources, OpenCapture, SourcesChanged,
                CaptureFails, CaptureRest
  <2> QED
    BY <2>1, RefreshUnchanged
<1>5. ASSUME NEW s \in Slots, Handle(s)
      PROVE  RefreshInv'
  <2>1. UNCHANGED refresh
    BY <1>5
    DEF Handle, Ask, RequireSession, Leave, StartVerification, Verified, RenewId, CreateSession,
        SaveSession, FlushSession, StartRead, ReadDone, RestoreSource, SelectRestored,
        InsertSource, UpdateSource, DeleteSource, NotifySourceChange, Rest
  <2> QED
    BY <2>1, RefreshUnchanged
<1> QED
  BY <1>1, <1>2, <1>3, <1>4, <1>5 DEF Next

LEMMA Always == Spec => []ApiInv
<1>1. Init => ApiInv
  BY InitApiInv
<1> QED
  BY <1>1, NextApiInv, PTL DEF Spec

(* The types of the API, and its limits: never more login sessions than    *)
(* BoundedStore may hold, no id above the last one given out, and free     *)
(* permits between none and all (auth.rs, api.rs).                         *)
THEOREM TypesHold == Spec => []TypeOK
<1> DEFINE Known == process \in {"down", "refreshing", "serving"}
<1>1. Init => Known
  BY DEF Init, RefreshInit
<1>2. ASSUME Known, [Next]_vars
      PROVE  Known'
  <2>1. CASE StartUp \/ Record \/ End
    BY <1>2, <2>1 DEF StartUp, Record, End, Boot, RefreshPage, RefreshDone, Store, Expire, Halt
  <2>2. CASE UNCHANGED vars \/ Tick \/ OrphanDone \/ RunCapture \/ \E s \in Slots : Handle(s)
    <3>1. UNCHANGED refresh
      BY <2>2 DEF vars, Tick, OrphanDone, Rest, RunCapture, LoadSources, OpenCapture, SourcesChanged,
                  CaptureFails, CaptureRest, Handle, Ask, RequireSession, Leave, StartVerification,
                  Verified, RenewId, CreateSession, SaveSession, FlushSession, StartRead, ReadDone,
                  RestoreSource, SelectRestored, InsertSource, UpdateSource, DeleteSource,
                  NotifySourceChange
    <3> QED
      BY <1>2, <3>1 DEF refresh
  <2> QED
    BY <1>2, <2>1, <2>2 DEF Next
<1>3. ApiInv /\ Known => TypeOK
  <2> SUFFICES ASSUME ApiInv, Known PROVE TypeOK
    OBVIOUS
  <2>1. verifier \in 0..Verifiers /\ reads \in 0..ChainReads
    <3>1. /\ Cardinality(Running("verifying")) \in Nat /\ Cardinality(Running("reading")) \in Nat
          /\ orphans.verifying \in Nat /\ orphans.reading \in Nat
          /\ verifier \in Nat /\ reads \in Nat
      BY FS_CardinalityType DEF ApiInv, Permits
    <3> QED
      BY <3>1, ApiAssumption DEF ApiInv, Permits
  <2>2. \A s \in Slots : request[s].step \in Steps \cup {"free"}
    BY DEF ApiInv, ApiTypes, Request, Free
  <2>3. capture.step \in {"load", "open", "paused", "capturing", "ended"}
    BY DEF ApiInv, ApiTypes, CaptureSteps
  <2> QED
    BY <2>1, <2>2, <2>3 DEF ApiInv, ApiTypes, TypeOK
<1>4. ApiInv /\ Known /\ [Next]_vars => Known'
  BY <1>2
<1> HIDE DEF Known
<1> QED
  BY <1>1, <1>3, <1>4, Always, PTL DEF Spec

(* The login sessions: whatever a user has signed out of, or has replaced  *)
(* by signing in again, is never live again, for any number of requests,   *)
(* browsers and restarts, with the handlers dropped at any await: no save  *)
(* of a session layer brings back a record that is gone (auth.rs).         *)
THEOREM SignOutHolds == Spec => []SignedOut
<1>1. ApiInv => SignedOut
  BY DEF ApiInv, Ids
<1> QED
  BY <1>1, Always, PTL

(* The permits: closures that run for a handler that was dropped count, so *)
(* neither Argon2 nor the chains are ever run by more threads than there   *)
(* are permits, for every number of permits and of requests.               *)
THEOREM PermitsBound == Spec => []WorkBounded
<1>1. ApiInv => WorkBounded
  <2> SUFFICES ASSUME ApiInv PROVE WorkBounded
    OBVIOUS
  <2>1. /\ Cardinality(Running("verifying")) \in Nat /\ Cardinality(Running("reading")) \in Nat
        /\ orphans.verifying \in Nat /\ orphans.reading \in Nat
    BY FS_CardinalityType DEF ApiInv, Permits
  <2> QED
    BY <2>1, ApiAssumption DEF ApiInv, Permits, WorkBounded
<1> QED
  BY <1>1, Always, PTL

(* The local capture: as long as no handler of an edit is dropped between  *)
(* its statements, the capture that has taken notice of the last revision  *)
(* captures exactly what the table of Sources holds once every edit has    *)
(* been answered, for any number of concurrent edits (catalog.rs,          *)
(* capture.rs).                                                            *)
THEOREM CaptureInStep == Leaving \cap Edits = {} => (Spec => []CaptureFollows)
<1> SUFFICES ASSUME Leaving \cap Edits = {} PROVE Spec => []CaptureFollows
  OBVIOUS
<1>1. Init => Followed
  BY InitApiInv
<1>2. ApiInv /\ Followed /\ [Next]_vars => Followed'
  BY NextFollowed DEF ApiInv
<1>3. Followed => CaptureFollows
  BY DEF Followed, CaptureFollows, Telling, Running
<1> QED
  BY <1>1, <1>2, <1>3, Always, PTL DEF Spec

(* The flag columns: as long as FLAG_REGEX does not go back to an earlier  *)
(* value, an analyzer that serves answers with flags of its own regex for  *)
(* every session, whatever refreshes were cut short, at any page, in any   *)
(* number of earlier starts (catalog.rs, refresh_flag_metadata).           *)
THEOREM FlagsInStep == ~Reverts => (Spec => []FlagsCurrent)
<1> SUFFICES ASSUME ~Reverts PROVE Spec => []FlagsCurrent
  OBVIOUS
<1>1. Init => RefreshInv
  BY InitApiInv
<1>2. ApiInv /\ RefreshInv /\ [Next]_vars => RefreshInv'
  BY NextRefreshInv DEF ApiInv
<1>3. RefreshInv => FlagsCurrent
  BY DEF RefreshInv, RefreshTypes, Between, FlagsCurrent
<1> QED
  BY <1>1, <1>2, <1>3, Always, PTL DEF Spec
=============================================================================
