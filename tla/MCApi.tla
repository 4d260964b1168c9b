-------------------------------- MODULE MCApi --------------------------------
(* What the clients of the API do, in five scenarios. *)
EXTENDS Api, TLC

Quiet == [kinds |-> {}, regexes |-> {1}, stores |-> FALSE, local |-> FALSE, fails |-> FALSE,
          asks |-> 0, together |-> 3, starts |-> 1, time |-> 0]
\* Browsers sign in and out while sessions expire and the analyzer is restarted.
SignIns == [Quiet EXCEPT !.kinds = {"login", "logout"}, !.asks = 5, !.starts = 2, !.time = 2]
Browses == [Quiet EXCEPT !.kinds = {"login", "browse"}, !.asks = 4, !.time = 1]
SourceEdits == [Quiet EXCEPT !.kinds = {"login"} \cup Edits, !.local = TRUE,
                             !.asks = 5, !.together = 2]
\* The capture ends while Sources are edited, and begins with the next start.
Failures == [SourceEdits EXCEPT !.asks = 3, !.starts = 2, !.fails = TRUE]
\* FLAG_REGEX changes, and refreshes are cut short.
Refreshes == [Quiet EXCEPT !.regexes = {1, 2}, !.stores = TRUE, !.starts = 4]

Interchangeable == Permutations(Slots) \cup Permutations(Clients)

All == {SignIns, Browses, SourceEdits, Failures, Refreshes}
=============================================================================
