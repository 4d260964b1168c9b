----------------------------- MODULE FlagRefresh -----------------------------
(***************************************************************************)
(* The flag columns of stored sessions and the FLAG_REGEX they were made   *)
(* with.  Catalog::refresh_flag_metadata runs in main before anything is   *)
(* served: when the setting flag_text_revision is not the revision of this *)
(* process, it makes the columns anew, a page of sessions in a transaction *)
(* of its own, and writes the setting last.  The process may end anywhere  *)
(* and be started again, with the same FLAG_REGEX or with another one.     *)
(*                                                                         *)
(* A regex stands for the revision: the readable-text version and it.      *)
(***************************************************************************)
EXTENDS Integers, FiniteSets, FiniteSetsExt

CONSTANTS Regexes,    \* what FLAG_REGEX may be set to, a set of numbers
          PageSize,   \* LIMIT 200
          MaxId,      \* bound: session ids
          MaxStarts,  \* bound: starts of the analyzer
          Reverts     \* the user may go back to an earlier FLAG_REGEX

ASSUME RefreshAssumption ==
  /\ Regexes \subseteq Nat \ {0} /\ PageSize \in Nat \ {0}
  /\ MaxId \in Nat /\ MaxStarts \in Nat /\ Reverts \in BOOLEAN

VARIABLES
  process,     \* "down", "refreshing" or "serving"
  regex,       \* FLAG_REGEX of this process, or of the last one
  setting,     \* catalog_settings.flag_text_revision; 0 before the first refresh
  flags,       \* per session id, the regex its flag columns were made with
  after,       \* the last id the refresh has done
  starts       \* how often the analyzer has been started

refresh == <<process, regex, setting, flags, after, starts>>

Retained == DOMAIN flags
Serving == process = "serving"

RefreshInit ==
  /\ process = "down" /\ regex = 0 /\ setting = 0
  /\ flags = [id \in {} |-> 0] /\ after = 0 /\ starts = 0

\* Slip: a catalog with any completed refresh counts as refreshed.
UpToDateOnce(r) == setting # 0

UpToDate(r) == setting = r

Boot(r) ==
  /\ process = "down" /\ starts < MaxStarts
  /\ Reverts \/ r >= regex
  /\ regex' = r /\ starts' = starts + 1 /\ after' = 0
  /\ process' = IF UpToDate(r) THEN "serving" ELSE "refreshing"
  /\ UNCHANGED <<setting, flags>>

Page ==
  LET rest == {id \in Retained : id > after}
  IN  {id \in rest : Cardinality({k \in rest : k <= id}) <= PageSize}

RefreshPage ==
  /\ process = "refreshing" /\ Page # {}
  /\ flags' = [id \in Retained |-> IF id \in Page THEN regex ELSE flags[id]]
  /\ after' = Max(Page)
  /\ UNCHANGED <<process, regex, setting, starts>>

RefreshDone ==
  /\ process = "refreshing" /\ Page = {}
  /\ setting' = regex /\ process' = "serving"
  /\ UNCHANGED <<regex, flags, after, starts>>

\* The workers count the flags of what they capture with the same regex.
Store ==
  /\ Serving
  /\ LET id == IF Retained = {} THEN 1 ELSE Max(Retained) + 1
     IN  id <= MaxId /\ flags' = [k \in Retained \cup {id} |-> IF k = id THEN regex ELSE flags[k]]
  /\ UNCHANGED <<process, regex, setting, after, starts>>

\* Retention drops the oldest.
Expire ==
  /\ Serving /\ Cardinality(Retained) > 1
  /\ flags' = [id \in Retained \ {Min(Retained)} |-> flags[id]]
  /\ UNCHANGED <<process, regex, setting, after, starts>>

\* The process ends: stopped, killed, or a payload cannot be read.
Halt ==
  /\ process # "down"
  /\ process' = "down"
  /\ UNCHANGED <<regex, setting, flags, after, starts>>

RefreshNext ==
  \/ \E r \in Regexes : Boot(r)
  \/ RefreshPage \/ RefreshDone \/ Store \/ Expire \/ Halt

RefreshSpec == RefreshInit /\ [][RefreshNext]_refresh

-----------------------------------------------------------------------------
(* Whatever pages a refresh that was cut short has left behind: while the  *)
(* analyzer serves, every session's flags are those of its FLAG_REGEX      *)
(* (docs/session-filtering-v2.md:60-68).  This is false with Reverts: back *)
(* at the FLAG_REGEX of the last refresh that was completed, the pages of  *)
(* the one that was not remain.                                            *)
FlagsCurrent == Serving => \A id \in Retained : flags[id] = regex
=============================================================================
