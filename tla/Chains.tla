-------------------------------- MODULE Chains --------------------------------
(***************************************************************************)
(* Browsing stored sessions: chains and their pages, payload search, the   *)
(* members of one chain, standalone pages, the buckets of attack rules and *)
(* their explanations (storage/chains.rs, the readers of api.rs and        *)
(* catalog.rs, attack_rules/highlights.rs).                                *)
(*                                                                         *)
(* A chain is no stored object: every request derives the chains from the  *)
(* sessions it sees in its SQLite snapshot, while the writer persists late *)
(* sessions that bridge chains and retention removes sessions that hold    *)
(* them together.  A client follows the cursors of one listing.            *)
(*                                                                         *)
(* script is the sequence of sessions in the order they are persisted, so  *)
(* a session is its position there, which is also its id.  A session has   *)
(* the key of its chain (None: a legacy row without a collector), its      *)
(* capture time start, and what the queries ask of it: whether it is shown *)
(* (not an empty record), meets the metadata filter, holds the searched    *)
(* text (hits), and its HTTP transactions (events; <<>> when opaque).      *)
(***************************************************************************)
EXTENDS RuleMatch, FiniteSets, FiniteSetsExt

CONSTANTS Scripts,       \* [sessions, early, asks, rules, oldestFirst, maxExpired,
                         \*   maxEdits] to choose from; the last two are bounds
          None,
          Window,        \* WINDOW_MICROS
          Limit,         \* the page size the client asks for
          MaxCandidates, \* MAX_PAYLOAD_CANDIDATES, MAX_CANDIDATES
          Chunk          \* 200 in the code

ASSUME SizesAssumption ==
  /\ Window \in Nat /\ Limit \in Nat \ {0} /\ MaxCandidates \in Nat \ {0} /\ Chunk \in Nat \ {0}

ASSUME NoneAssumption ==
  /\ None \notin [start : Int, id : Int]
  /\ None \notin [at : {"below"}, id : Int] /\ None \notin [at : {"done"}]
  /\ None \notin [chain : Int, after : [start : Int, id : Int] \cup {None}]
  /\ \A s \in Scripts :
       None \notin [id : Int, key : {s.sessions[i].key : i \in DOMAIN s.sessions},
                   members : SUBSET Int, snapshot : Int, start : Int, last : Int]

ASSUME ScriptsAssumption ==
  \A s \in Scripts :
    /\ Len(s.sessions) \in Nat /\ DOMAIN s.sessions = 1..Len(s.sessions)
    /\ s.early \in 0..Len(s.sessions)
    /\ \A i \in DOMAIN s.sessions :
         /\ s.sessions[i].start \in Int
         /\ {s.sessions[i].shown, s.sessions[i].meets, s.sessions[i].hits} \subseteq BOOLEAN
         /\ Len(s.sessions[i].events) \in Nat
         /\ DOMAIN s.sessions[i].events = 1..Len(s.sessions[i].events)
    /\ \A r \in s.rules \ {None} :
         Len(r.steps) \in Nat \ {0} /\ DOMAIN r.steps = 1..Len(r.steps) /\ r.gap \in Nat
    /\ s.asks.of \in {"chains", "members", "sessions"}
    /\ {s.asks.search, s.asks.pinned, s.oldestFirst} \subseteq BOOLEAN

VARIABLES
  script,      \* the sessions, how many come early, what the client asks, rules
  persisted,   \* sessions 1..persisted have been committed
  expired,     \* those that retention has removed since
  rule, edits, \* the one rule of this user: its definition, or None
  cursor,      \* what the client sends next: First, a cursor, or Done
  req,         \* the request in progress
  view,        \* history: the sessions the first page was made from
  listed,      \* history: what the pages of this listing have contained
  page,        \* history: the last page
  explained    \* history: the last explanation

store == <<script, persisted, expired>>
rules == <<rule, edits>>
history == <<view, listed, page, explained>>
vars == <<script, persisted, expired, rule, edits, cursor, req, view, listed,
          page, explained>>

Sessions == script.sessions
Retained == 1..persisted \ expired
Asks(what) == script.asks.of = what
Bucket == script.asks.bucket
Searching == script.asks.search

First == [at |-> "first"]
Done == [at |-> "done"]
Idle == [at |-> "idle"]
NoPage == [at |-> "none"]

-----------------------------------------------------------------------------
(* Membership: membership_cte and aggregate.  M is the set of sessions of a *)
(* snapshot up to an id.                                                    *)

Earlier(i, j) ==
  \/ Sessions[i].start < Sessions[j].start
  \/ Sessions[i].start = Sessions[j].start /\ i < j

\* SetToSortSeq by counting, which a checker evaluates faster.
Sorted(S, Before(_, _)) ==
  [n \in 1..Cardinality(S) |-> CHOOSE x \in S : Cardinality({y \in S : Before(y, x)}) = n - 1]

InOrder(M) == Sorted(M, Earlier)

SameKey(i, j) == i = j \/ (Sessions[i].key = Sessions[j].key /\ Sessions[i].key # None)

Visible(V, snapshot) == {i \in V : i <= snapshot /\ Sessions[i].shown}

\* Slip: a gap of exactly the window also splits.
OpensAtWindow(M, i) ==
  \A j \in M : SameKey(j, i) /\ Earlier(j, i) => Sessions[i].start - Sessions[j].start >= Window

\* boundary: no session of the key shortly before.
Opens(M, i) ==
  \A j \in M : SameKey(j, i) /\ Earlier(j, i) => Sessions[i].start - Sessions[j].start > Window

\* chain_start: the latest boundary up to this session.
ChainStart(M, i) ==
  Max({Sessions[j].start : j \in {k \in M : SameKey(k, i) /\ Opens(M, k) /\ ~Earlier(i, k)}})

ChainOf(M, i) == {j \in M : SameKey(j, i) /\ ChainStart(M, j) = ChainStart(M, i)}

Summary(C, snapshot) ==
  LET starts == {Sessions[i].start : i \in C}
  IN  [id |-> Min(C), key |-> Sessions[Min(C)].key, members |-> C, snapshot |-> snapshot,
       start |-> Min(starts), last |-> Max(starts)]

Precedes(s, t) == s.start < t.start \/ (s.start = t.start /\ s.id < t.id)

Position(s) == [start |-> s.start, id |-> s.id]

\* summaries: the chains with a member that meets the filter, below a
\* position, newest first.
Summaries(V, snapshot, before) ==
  LET M == Visible(V, snapshot)
      chains == {Summary(ChainOf(M, i), snapshot) : i \in {j \in M : Sessions[j].meets}}
  IN  Sorted({s \in chains : before = None \/ Precedes(s, before)},
                   LAMBDA s, t : Precedes(t, s))

\* summary: the chain of any of its members.
SummaryOf(V, id, snapshot) ==
  LET M == Visible(V, snapshot)
  IN  IF id \in M THEN Summary(ChainOf(M, id), snapshot) ELSE None

PositionOf(i) == [start |-> Sessions[i].start, id |-> i]

\* members: those of a chain after a position.
MembersAfter(V, id, snapshot, after) ==
  LET M == Visible(V, snapshot)
  IN  {i \in M : /\ id \in M /\ i \in ChainOf(M, id)
                 /\ after = None \/ Precedes(after, PositionOf(i))}

Snapshot(V) == IF V = {} THEN 0 ELSE Max(V)

\* The elements of s at some of its places, in their order.
Picked(s, places) ==
  LET order == Sorted(places, LAMBDA m, n : m < n)
  IN  [n \in DOMAIN order |-> s[order[n]]]

Prefix(s, n) == SubSeq(s, 1, IF n < Len(s) THEN n ELSE Len(s))

-----------------------------------------------------------------------------
(* Buckets: classify and its use by the two listings. *)

EventsOf(i) ==
  IF Sessions[i].events = <<>> THEN <<Barrier>>
  ELSE [n \in DOMAIN Sessions[i].events |->
          [class |-> Sessions[i].events[n], session |-> i, transaction |-> n - 1]]

EventsIn(M) ==
  LET members == InOrder(M)
  IN  FlattenSeq([n \in DOMAIN members |-> EventsOf(members[n])])

\* ChainSummary::contains_session.
ContainsSession(chain, i) ==
  /\ i <= chain.snapshot
  /\ IF chain.key = None THEN i = chain.id
     ELSE Sessions[i].key = chain.key /\ Sessions[i].start \in chain.start..chain.last

\* The rules that apply to the Source of this key.
Applies(r, key) == r # None /\ key \in r.scope

\* Slip: the range of the chain ends before its last start.
ScopeShort(V, chain) ==
  {i \in Visible(V, chain.snapshot) :
     IF chain.key = None THEN i = chain.id
     ELSE Sessions[i].key = chain.key
          /\ Sessions[i].start >= chain.start /\ Sessions[i].start < chain.last}

\* The rows that classify streams: by key and range, not by membership.
Scope(V, chain) ==
  {i \in Visible(V, chain.snapshot) :
     IF chain.key = None THEN i = chain.id
     ELSE Sessions[i].key = chain.key
          /\ Sessions[i].start >= chain.start /\ Sessions[i].start <= chain.last}

Classify(V, r, chain) ==
  IF Applies(r, chain.key) THEN Find(r, EventsIn(Scope(V, chain))) ELSE <<>>

Accepts(known) == Bucket = "any" \/ (Bucket = "known") = (known # <<>>)

-----------------------------------------------------------------------------
(* The store: run_writer commits, expire_old_segments removes a segment.   *)

Persist ==
  /\ persisted < Len(Sessions)
  /\ persisted' = persisted + 1
  /\ UNCHANGED <<script, expired, rules, cursor, req, history>>

\* Any segment but the active one, with one session each here.  Mostly the
\* lowest ids go first.  Not when a run began with a late session, whose
\* segment is older than those before it, and not when several segments go in
\* one rotation, since each is a transaction and the newest is the first.
Expire(i) ==
  /\ Cardinality(expired) < script.maxExpired /\ i # persisted
  /\ script.oldestFirst => 1..(i - 1) \subseteq expired
  /\ expired' = expired \cup {i}
  /\ UNCHANGED <<script, persisted, rules, cursor, req, history>>

\* save_rule with an id, and delete_rule, seen from the readers.
EditRule(r) ==
  /\ edits < script.maxEdits /\ r # rule
  /\ rule' = r /\ edits' = edits + 1
  /\ UNCHANGED <<store, cursor, req, history>>

-----------------------------------------------------------------------------
(* GET /api/chains.  A request reads in one transaction, so what it sees   *)
(* stays what it was at its first query; the segment files do not.  A file *)
(* that is gone fails the request.                                         *)

\* The items of a page with the match of each; the client gets the accepted.
Answer(V, r, sent, chains, next) ==
  LET known(s) == IF Bucket = "any" THEN <<>> ELSE Classify(V, r, s)
      items == [n \in DOMAIN chains |-> [chain |-> chains[n], known |-> known(chains[n])]]
      accepted == Picked(items, {n \in DOMAIN items : Accepts(items[n].known)})
  IN  /\ page' = [at |-> "chains", seen |-> V, rule |-> r, from |-> sent, next |-> next,
                  items |-> items]
      /\ listed' = listed \o [n \in DOMAIN accepted |-> accepted[n].chain.members]
      /\ view' = IF cursor = First THEN V ELSE view
      /\ cursor' = next
      /\ req' = Idle
      /\ UNCHANGED <<store, rules, explained>>

\* Slip: every page is made up to the newest session.
SentCursorUnpinned == [at |-> "list", snapshot |-> Snapshot(Retained),
                       before |-> IF cursor = First THEN None ELSE cursor.before,
                       search |-> IF cursor = First THEN None ELSE cursor.search]

\* The first page pins the newest id for all that follow.
SentCursor ==
  IF cursor = First
  THEN [at |-> "list", snapshot |-> Snapshot(Retained), before |-> None, search |-> None]
  ELSE cursor

\* Known, and no rule could match: the answer is the end of the listing.
NothingKnown ==
  /\ req = Idle /\ Asks("chains") /\ cursor # Done
  /\ Bucket = "known" /\ rule = None
  /\ Answer(Retained, rule, SentCursor, <<>>, Done)

ListChains ==
  /\ req = Idle /\ Asks("chains") /\ ~Searching /\ cursor # Done
  /\ ~(Bucket = "known" /\ rule = None)
  /\ LET sent == SentCursor
         found == Summaries(Retained, sent.snapshot, sent.before)
         chains == Prefix(found, Limit)
     IN  Answer(Retained, rule, sent, chains,
                IF Len(found) > Limit
                THEN [sent EXCEPT !.before = Position(Last(chains)), !.search = None]
                ELSE Done)

BeginSearch ==
  /\ req = Idle /\ Asks("chains") /\ Searching /\ cursor # Done
  /\ ~(Bucket = "known" /\ rule = None)
  /\ req' = [at |-> "lookup", seen |-> Retained, rule |-> rule, sent |-> SentCursor,
             cursor |-> SentCursor, found |-> <<>>, scanned |-> 0, chain |-> None, rest |-> <<>>, last |-> None, more |-> FALSE]
  /\ UNCHANGED <<store, rules, cursor, history>>

Budget == IF MaxCandidates - req.scanned < Chunk THEN MaxCandidates - req.scanned ELSE Chunk

\* The deadline or the VM budget, once something was scanned.
SearchInterrupted ==
  /\ req.at = "lookup" /\ req.scanned > 0
  /\ Answer(req.seen, req.rule, req.sent, req.found, req.cursor)

\* An error (a file that is gone, the budget before anything was scanned or
\* while classifying): the client keeps the cursor it has.
SearchFails ==
  /\ req # Idle
  /\ req' = Idle
  /\ UNCHANGED <<store, rules, cursor, history>>

Lookup ==
  LET pending == req.cursor.search
      found == Summaries(req.seen, req.cursor.snapshot, req.cursor.before)
      chain == IF pending # None THEN SummaryOf(req.seen, pending.chain, req.cursor.snapshot)
               ELSE IF found = <<>> THEN None ELSE Head(found)
      after == IF pending # None THEN pending.after ELSE None
      candidates == InOrder({i \in MembersAfter(req.seen, chain.id, req.cursor.snapshot, after) :
                               Sessions[i].meets})
  IN  /\ req.at = "lookup"
      /\ chain # None
      /\ req' = [req EXCEPT !.at = "scan", !.chain = chain, !.last = after,
                            !.rest = Prefix(candidates, Budget),
                            !.more = Len(candidates) > Budget]
      /\ UNCHANGED <<store, rules, cursor, history>>

\* A pending chain that retention removed: go on below the position of the
\* chain before it.  Without one, the listing is complete.
NothingFound ==
  LET pending == req.cursor.search
  IN  /\ req.at = "lookup"
      /\ IF pending # None
         THEN /\ SummaryOf(req.seen, pending.chain, req.cursor.snapshot) = None
              /\ req' = [req EXCEPT !.cursor.search = None]
              /\ UNCHANGED <<store, rules, cursor, history>>
         ELSE /\ Summaries(req.seen, req.cursor.snapshot, req.cursor.before) = <<>>
              /\ Answer(req.seen, req.rule, req.sent, req.found, Done)

Pending == [chain |-> req.chain.id, after |-> req.last]

ScanInterrupted ==
  /\ req.at = "scan" /\ req.rest # <<>> /\ req.scanned > 0
  /\ Answer(req.seen, req.rule, req.sent, req.found,
            [req.cursor EXCEPT !.search = Pending])

\* Chain complete: it was found, or no candidate is left.
ChainSettled(hit, last, scanned) ==
  LET settled == [req.cursor EXCEPT !.before = Position(req.chain), !.search = None]
      partial == [req.cursor EXCEPT !.search = [chain |-> req.chain.id, after |-> last]]
      next == IF hit \/ ~req.more THEN settled ELSE partial
      found == IF hit THEN Append(req.found, req.chain) ELSE req.found
  IN  IF Len(found) = Limit \/ scanned = MaxCandidates
      THEN Answer(req.seen, req.rule, req.sent, found, next)
      ELSE /\ req' = [req EXCEPT !.at = "lookup", !.cursor = next, !.found = found,
                                 !.scanned = scanned, !.chain = None, !.rest = <<>>,
                                 !.last = None, !.more = FALSE]
           /\ UNCHANGED <<store, rules, cursor, history>>

\* Slip: what was passed over in this chain is not noted.
ScanForgetful ==
  LET i == Head(req.rest)
  IN  /\ req.at = "scan" /\ req.rest # <<>>
      /\ IF Sessions[i].hits \/ Len(req.rest) = 1
         THEN ChainSettled(Sessions[i].hits, req.last, req.scanned + 1)
         ELSE /\ req' = [req EXCEPT !.rest = Tail(@), !.scanned = @ + 1]
              /\ UNCHANGED <<store, rules, cursor, history>>

\* One candidate: read its payload and compare.
Scan ==
  LET i == Head(req.rest)
  IN  /\ req.at = "scan" /\ req.rest # <<>>
      /\ IF Sessions[i].hits \/ Len(req.rest) = 1
         THEN ChainSettled(Sessions[i].hits, PositionOf(i), req.scanned + 1)
         ELSE /\ req' = [req EXCEPT !.rest = Tail(@), !.scanned = @ + 1,
                                    !.last = PositionOf(i)]
              /\ UNCHANGED <<store, rules, cursor, history>>

\* Nothing of the pending chain lies behind the saved position any more.
ScanNothing ==
  /\ req.at = "scan" /\ req.rest = <<>>
  /\ ChainSettled(FALSE, req.last, req.scanned)

-----------------------------------------------------------------------------
(* GET /api/chains/{id}/sessions.  The first request names the snapshot of *)
(* the listing the chain was opened from, or takes the newest id.          *)

\* Slip: the snapshot is taken anew for every page.
SentMembersUnpinned ==
  [at |-> "members", snapshot |-> Snapshot(Retained),
   after |-> IF cursor = First THEN None ELSE cursor.after]

SentMembers ==
  IF cursor # First THEN cursor
  ELSE [at |-> "members", after |-> None,
        snapshot |-> IF script.asks.pinned THEN script.early ELSE Snapshot(Retained)]

\* member_page; 404 when the session the chain was opened by is gone.
MemberPage ==
  LET sent == SentMembers
      rest == InOrder(MembersAfter(Retained, script.asks.anchor, sent.snapshot, sent.after))
      gone == SummaryOf(Retained, script.asks.anchor, sent.snapshot) = None
      next == IF gone \/ Len(rest) <= Limit THEN Done
              ELSE [sent EXCEPT !.after = PositionOf(rest[Limit])]
  IN  /\ Asks("members") /\ cursor # Done
      /\ page' = [at |-> IF gone THEN "gone" ELSE "members", from |-> sent, next |-> next]
      /\ listed' = listed \o Prefix(rest, Limit)
      /\ view' = IF cursor = First THEN Visible(Retained, sent.snapshot) ELSE view
      /\ cursor' = next
      /\ UNCHANGED <<store, rules, req, explained>>

-----------------------------------------------------------------------------
(* GET /api/sessions.  Every query has a connection of its own, so each    *)
(* sees the store as it is by then; the buckets come from a chain reader   *)
(* that is opened when the page is complete.                               *)

Rows(below) ==
  Sorted({i \in Visible(Retained, persisted) :
                  Sessions[i].meets /\ (below = None \/ i < below.id)},
               LAMBDA i, j : i > j)

Below(i) == [at |-> "below", id |-> i]

SentBelow == IF cursor = First THEN None ELSE cursor

\* The page before it is bucketed.
Collected(found, next) ==
  req' = [at |-> "bucket", found |-> found, next |-> next, sent |-> SentBelow]

ListSessions ==
  LET items == Prefix(Rows(SentBelow), Limit)
  IN  /\ req = Idle /\ Asks("sessions") /\ ~Searching /\ cursor # Done
      /\ view' = IF cursor = First THEN Retained ELSE view
      /\ Collected(items, IF Len(items) = Limit THEN Below(Last(items)) ELSE Done)
      /\ UNCHANGED <<store, rules, cursor, listed, page, explained>>

BeginSessionSearch ==
  /\ req = Idle /\ Asks("sessions") /\ Searching /\ cursor # Done
  /\ view' = IF cursor = First THEN Retained ELSE view
  /\ req' = [at |-> "rows", found |-> <<>>, below |-> SentBelow, scanned |-> 0, rest |-> <<>>]
  /\ UNCHANGED <<store, rules, cursor, listed, page, explained>>

\* search_payload: the next rows ...
FetchRows ==
  /\ req.at = "rows" /\ req.rest = <<>>
  /\ LET rows == Prefix(Rows(req.below), Budget)
     IN  IF req.scanned = MaxCandidates THEN Collected(req.found, req.below)
         ELSE IF rows = <<>> THEN Collected(req.found, Done)
         ELSE req' = [req EXCEPT !.rest = rows]
  /\ UNCHANGED <<store, rules, cursor, history>>

\* ... and one of them; it may be gone by now.
ScanRow ==
  LET i == Head(req.rest)
      hit == i \in Retained /\ Sessions[i].hits
      found == IF hit THEN Append(req.found, i) ELSE req.found
  IN  /\ req.at = "rows" /\ req.rest # <<>>
      /\ IF Len(found) = Limit THEN Collected(found, Below(i))
         ELSE req' = [req EXCEPT !.found = found, !.below = Below(i), !.rest = Tail(@),
                                 !.scanned = @ + 1]
      /\ UNCHANGED <<store, rules, cursor, history>>

\* summaries_for_sessions and classify: a session has the match of the chain
\* that contains it.
KnownOf(V, i, anchors) ==
  LET snapshot == Snapshot(V)
      M == Visible(V, snapshot)
      chains == {Summary(ChainOf(M, j), snapshot) : j \in anchors \cap M}
      containing == {c \in chains : ContainsSession(c, i)}
  IN  IF containing = {} THEN <<>>
      ELSE Classify(V, rule, CHOOSE c \in containing : TRUE)

BucketSessions ==
  LET found == req.found
      anchors == {found[n] : n \in {m \in DOMAIN found : Applies(rule, Sessions[found[m]].key)}}
      known(i) == IF Bucket = "any" \/ rule = None THEN <<>>
                  ELSE KnownOf(Retained, i, anchors)
      items == [n \in DOMAIN found |-> [session |-> found[n], known |-> known(found[n])]]
      next == IF Bucket = "known" /\ rule = None THEN Done ELSE req.next
  IN  /\ req.at = "bucket"
      /\ page' = [at |-> "sessions", seen |-> Retained, rule |-> rule, from |-> req.sent,
                  next |-> next, items |-> items]
      /\ listed' = listed \o Picked(found, {n \in DOMAIN found : Accepts(known(found[n]))})
      /\ cursor' = next
      /\ req' = Idle
      /\ UNCHANGED <<store, rules, view, explained>>

-----------------------------------------------------------------------------
(* GET /api/sessions/{id}/rule-matches: the client sends back the steps    *)
(* that the listing's match has in one session, with the version of the    *)
(* rule, which is a hash of its definition.  The session, the rules and    *)
(* the payload are read one after the other; a session or a file that goes *)
(* in between answers an error, which leaves nothing behind.               *)

Selection(known, i) ==
  {k \in DOMAIN known : known[k].session = i}

\* Slip: the rule is looked up by its id alone.
ExplanationUnversioned(r, version, known, i) ==
  LET steps == Selection(known, i)
      event(k) == EventsOf(i)[known[k].transaction + 1]
  IN  IF \/ i \notin Retained \/ r = None \/ ~Applies(r, Sessions[i].key)
         \/ \E k \in steps : k \notin DOMAIN r.steps \/ ~StepMatches(r, k, event(k))
      THEN "stale" ELSE "marked"

\* validate_selection, then window_labels or explain: another definition, an
\* index that is not there, a condition that does not hold.
Explanation(r, version, known, i) ==
  LET steps == Selection(known, i)
      chosen == {known[k].transaction : k \in steps}
      event(k) == EventsOf(i)[known[k].transaction + 1]
  IN  IF Cardinality(chosen) # Cardinality(steps) THEN "refused"
      ELSE IF \/ i \notin Retained \/ r # version \/ ~Applies(r, Sessions[i].key)
              \/ \E k \in steps : k \notin DOMAIN r.steps \/ ~StepMatches(r, k, event(k))
      THEN "stale" ELSE "marked"

GetRuleHighlights(item, i) ==
  /\ page.at = "chains" /\ explained = None
  /\ Selection(item.known, i) # {}
  /\ explained' = [session |-> i, version |-> page.rule, current |-> rule,
                   retained |-> i \in Retained,
                   outcome |-> Explanation(rule, page.rule, item.known, i)]
  /\ UNCHANGED <<store, rules, cursor, req, view, listed, page>>

-----------------------------------------------------------------------------

Init ==
  /\ script \in Scripts
  /\ persisted = script.early /\ expired = {}
  /\ rule \in script.rules /\ edits = 0
  /\ cursor = First /\ req = Idle
  /\ view = {} /\ listed = <<>> /\ page = NoPage /\ explained = None

Next ==
  \/ Persist
  \/ \E i \in Retained : Expire(i)
  \/ \E r \in script.rules \cup {None} : EditRule(r)
  \/ NothingKnown \/ ListChains
  \/ BeginSearch \/ Lookup \/ NothingFound \/ Scan \/ ScanNothing
  \/ SearchInterrupted \/ ScanInterrupted \/ SearchFails
  \/ MemberPage
  \/ ListSessions \/ BeginSessionSearch \/ FetchRows \/ ScanRow \/ BucketSessions
  \/ \E item \in (IF page.at = "chains" THEN ToSet(page.items) ELSE {}) :
       \E i \in item.chain.members : GetRuleHighlights(item, i)

Spec == Init /\ [][Next]_vars

-----------------------------------------------------------------------------
(* Correctness. *)

\* A payload search of chains remembers where it is in the chain it searches by
\* that chain's id.  If retention takes a middle session of it before the older
\* ones, the same id is of a chain that lies elsewhere in the list.
Orderly == Asks("chains") /\ Searching => script.oldestFirst

\* A session is in one chain of a listing at most, and in one row or member
\* page.  This is false of a payload search of chains: the search of a chain that
\* has moved up the list goes on from there, past chains that were listed.
NothingTwice ==
  \A m, n \in DOMAIN listed :
    m < n => IF Asks("chains") THEN listed[m] \cap listed[n] = {} ELSE listed[m] # listed[n]

\* No listing shows a session twice, whatever is persisted late or removed
\* between two pages; of a payload search of chains this holds as long as
\* retention takes the lowest ids first.
ListedOnce == Orderly => NothingTwice

Wants(i) == Sessions[i].meets /\ (Searching => Sessions[i].hits)

\* What a chain is meant to be: the sessions of a key that no gap of more than
\* the window, in which nothing of the key starts, separates.
Correlated(M, i) ==
  {j \in M :
     /\ SameKey(i, j)
     /\ LET times == {Sessions[k].start : k \in {l \in M : SameKey(i, l)}}
            from == Min({Sessions[i].start, Sessions[j].start})
            to == Max({Sessions[i].start, Sessions[j].start})
        IN  \A t \in times : t >= from /\ t < to => \E u \in times : u > t /\ u <= t + Window}

\* The chains, of those the first page was made from, that have lost no
\* member until the end of the listing.
Kept ==
  LET M == Visible(view, Snapshot(view))
  IN  {C \in {Correlated(M, i) : i \in M} : C \subseteq Retained}

\* What has stayed as it was since the first page is listed by the last one
\* if, and for chains only if, the client asked for it: no candidate budget,
\* deadline, late session, failed request or retention elsewhere skips it.
ListingComplete ==
  (cursor = Done /\ edits = 0) =>
    CASE Asks("chains") ->
           \A C \in Kept : C \in ToSet(listed) <=>
             /\ \E i \in C : Wants(i)
             /\ Bucket # "any" =>
                  (Bucket = "known") =
                    (Applies(rule, Sessions[Min(C)].key) /\ Occurs(rule, EventsIn(C)))
      [] Asks("sessions") ->
           Bucket = "any" =>
             \A i \in view \cap Retained :
               (Sessions[i].shown /\ Wants(i)) <=> i \in ToSet(listed)
      [] Asks("members") ->
           LET C == IF script.asks.anchor \in view THEN Correlated(view, script.asks.anchor) ELSE {}
           IN  C \subseteq Retained => listed = InOrder(C)

\* Further down the list, or further into the chain that is being searched,
\* or that chain has vanished.
Beyond(next, from) ==
  CASE page.at = "chains" ->
         LET later == next.search # None /\ next.search.after # None
             same == from.search # None /\ next.search # None
                     /\ next.search.chain = from.search.chain
         IN  \/ from.before = None /\ next.before # None
             \/ from.before # None /\ next.before # None /\ Precedes(next.before, from.before)
             \/ /\ next.before = from.before /\ later
                /\ \/ from.search = None \/ from.search.chain \notin page.seen
                   \/ same /\ (from.search.after = None
                               \/ Precedes(from.search.after, next.search.after))
    [] page.at = "members" -> from.after = None \/ Precedes(from.after, next.after)
    [] OTHER -> from = None \/ next.id < from.id

\* A page with a cursor has made progress, also an empty one (chains.rs:383-384):
\* following the cursors ends.  Like NothingTwice false of a payload search of
\* chains, when the chain it is in has moved up the list.
EveryPageAdvances ==
  (page # NoPage /\ page.next # Done) => Beyond(page.next, page.from)

\* The cursors of a listing end, whatever is persisted late or removed between
\* two pages; under the condition of ListedOnce.
CursorAdvances == Orderly => EveryPageAdvances

\* The listing's match can be explained until the rule is edited or the
\* session removed; then it is refused as stale.
ExplainedIfCurrent ==
  explained # None =>
    (explained.outcome = "marked"
       <=> explained.current = explained.version /\ explained.retained)

\* The bucket of a chain, and of every row, comes from the first complete
\* occurrence in the whole chain it belongs to in the reader's snapshot:
\* neither filters nor pages nor late sessions leave events out or add any.
\* And what was listed is what is explained later, or nothing is.
BucketExact ==
  /\ ExplainedIfCurrent
  /\ (Bucket # "any" /\ page.at \in {"chains", "sessions"}) =>
       \A n \in DOMAIN page.items :
         LET item == page.items[n]
             M == IF page.at = "chains" THEN Visible(page.seen, page.from.snapshot)
                  ELSE Visible(page.seen, Snapshot(page.seen))
             i == IF page.at = "chains" THEN item.chain.id ELSE item.session
         IN  i \in M =>
               IF Applies(page.rule, Sessions[i].key)
               THEN Explains(page.rule, EventsIn(Correlated(M, i)), item.known)
               ELSE item.known = <<>>
=============================================================================
