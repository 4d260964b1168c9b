------------------------------- MODULE MCChains -------------------------------
EXTENDS Chains

CONSTANTS k1, k2

Session(key, start, meets, hits, events) ==
  [key |-> key, start |-> start, shown |-> TRUE, meets |-> meets, hits |-> hits,
   events |-> events]

Hidden == [key |-> k1, start |-> 1, shown |-> FALSE, meets |-> TRUE, hits |-> TRUE,
           events |-> <<>>]

Ask(of, search, bucket, anchor, pinned) ==
  [of |-> of, search |-> search, bucket |-> bucket, anchor |-> anchor, pinned |-> pinned]

Step(classes, windows) == [accepts |-> classes, windows |-> windows]

\* login, then the exploit, then its result; the second step also accepts "a".
Exploit(gap) ==
  [scope |-> {k1}, gap |-> gap,
   steps |-> <<Step({"a"}, {"c2s"}), Step({"a", "b"}, {"c2s", "s2c"}), Step({"c"}, {"s2c"})>>]

\* Any session may be removed; in a search, also the lowest ids only.
Removals ==
  {r \in [search : BOOLEAN, oldestFirst : BOOLEAN] : r.oldestFirst => r.search}

\* Late sessions that extend, bridge and precede chains; the last is late.
Starts == {s \in [1..4 -> 0..3] : s[1] \in {1, 2}}
Listings ==
  {[sessions |-> [i \in 1..4 |-> Session(k1, s[i], i # m.skip, i \in m.hit, <<>>)],
    early |-> 3, asks |-> Ask("chains", r.search, "any", 0, FALSE), rules |-> {None},
    oldestFirst |-> r.oldestFirst, maxExpired |-> 1, maxEdits |-> 0] :
     s \in Starts, r \in Removals,
     m \in {[skip |-> 0, hit |-> {1}], [skip |-> 2, hit |-> {2, 3}]}}

\* Two keys, a legacy row and an empty record between sessions of one chain.
Mixed ==
  {[sessions |-> <<Session(k1, 0, TRUE, TRUE, <<"a">>), Session(k, 1, TRUE, TRUE, <<"b">>),
                   Hidden, Session(k1, 2, TRUE, FALSE, <<"b", "c">>),
                   Session(k1, 1, TRUE, FALSE, <<>>)>>,
    early |-> early, asks |-> Ask(of, r.search, bucket, 1, FALSE), rules |-> {Exploit(1)},
    oldestFirst |-> r.oldestFirst, maxExpired |-> 1, maxEdits |-> 1] :
     k \in {k1, k2, None}, early \in {2, 4}, of \in {"chains", "sessions"},
     r \in Removals, bucket \in {"any", "known", "unknown"}}

Members ==
  {[sessions |-> [i \in 1..4 |-> Session(k1, s[i], TRUE, FALSE, <<>>)],
    early |-> 3, asks |-> Ask("members", FALSE, "any", 1, pinned), rules |-> {None},
    oldestFirst |-> FALSE, maxExpired |-> 1, maxEdits |-> 0] :
     s \in Starts, pinned \in BOOLEAN}

\* Every sequence of events in one chain, two of them in one session.
Classes == {<<"a">>, <<"b">>, <<"c">>, <<"a", "b">>, <<"b", "c">>, <<>>}
Known ==
  {[sessions |-> [i \in 1..4 |-> Session(k1, 0, TRUE, FALSE, e[i])],
    early |-> 4, asks |-> Ask("chains", FALSE, "known", 0, FALSE),
    rules |-> {Exploit(gap)}, oldestFirst |-> FALSE, maxExpired |-> 0, maxEdits |-> 0] :
     e \in {f \in [1..4 -> Classes] : f[1] \in {<<"a">>, <<"a", "b">>}}, gap \in 0..2}

Explained ==
  {[sessions |-> <<Session(k1, 0, TRUE, FALSE, e), Session(k1, 0, TRUE, FALSE, <<"b", "c">>),
                   Session(k1, 1, TRUE, FALSE, <<"c">>)>>,
    early |-> 3, asks |-> Ask("chains", FALSE, "known", 0, FALSE),
    rules |-> {Exploit(1), Exploit(2)}, oldestFirst |-> FALSE, maxExpired |-> 1, maxEdits |-> 2] :
     e \in {<<"a">>, <<"a", "b">>, <<"c">>}}

\* Chains of two keys side by side, searched with retention in between.
Crossed(oldestFirst) ==
  {[sessions |-> <<Session(k1, 2, TRUE, FALSE, <<>>), Session(k2, 1, TRUE, hit, <<>>),
                   Session(k1, 1, TRUE, FALSE, <<>>), Session(k2, t, TRUE, TRUE, <<>>)>>,
    early |-> early, asks |-> Ask("chains", TRUE, "any", 0, FALSE), rules |-> {None},
    oldestFirst |-> oldestFirst, maxExpired |-> 2, maxEdits |-> 0] :
     hit \in BOOLEAN, t \in 0..3, early \in {3, 4}}

\* Retention takes a session of a chain before an older one.
Disordered == Crossed(FALSE)

MCScripts ==
  Listings \cup Mixed \cup Members \cup Known \cup Explained \cup Crossed(TRUE) \cup Disordered
=============================================================================
