----------------------------- MODULE SourceFeed -----------------------------
(***************************************************************************)
(* What the analyzer promises a collector about its Sources, with neither  *)
(* connections nor messages: the collector holds a snapshot of some past   *)
(* or present version of the catalog, only ever replaces it by a newer     *)
(* one, and follows the catalog in the end.  CollectorLink implements it.  *)
(***************************************************************************)
EXTENDS Integers

CONSTANT Last       \* the last version the catalog reaches

VARIABLES catalog,  \* the number of committed changes to the Sources
          sources   \* the version the collector works with, 0 when it has none
vars == <<catalog, sources>>

Init == catalog = 0 /\ sources = 0

(* A user changes a Source. *)
Commit == catalog < Last /\ catalog' = catalog + 1 /\ UNCHANGED sources

(* The collector comes to know of some newer version. *)
Deliver == \E v \in (sources + 1) .. catalog : sources' = v /\ UNCHANGED catalog

(* The collector keeps nothing on disk. *)
Forget == sources' = 0 /\ UNCHANGED catalog

Next == Commit \/ Deliver \/ Forget

Spec == Init /\ [][Next]_vars /\ WF_vars(Deliver)
=============================================================================
