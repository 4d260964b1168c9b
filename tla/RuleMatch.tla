------------------------------- MODULE RuleMatch ------------------------------
(***************************************************************************)
(* The matcher of attack rules (attack_rules.rs, MatchState).              *)
(*                                                                         *)
(* A rule is a sequence of steps; a step is the set of event classes all   *)
(* its conditions accept, with the payload windows ("c2s", "s2c") its      *)
(* conditions speak about.  An event is one HTTP transaction: its class,   *)
(* its session and its ordinal in the session.  Whatever is not HTTP, or   *)
(* cannot be read as HTTP, is a Barrier: it takes a place in the sequence  *)
(* and satisfies no step.  Between two matched steps at most gap events    *)
(* may lie; adjacent rules have gap 0.                                     *)
(***************************************************************************)
EXTENDS Integers, Sequences, SequencesExt

Barrier == [class |-> "opaque", session |-> 0, transaction |-> 0]

\* An empty path: no viable prefix ends with this step.
NoPrefix == [at |-> 0, path |-> <<>>]

NewMatch(rule) ==
  [active |-> [k \in DOMAIN rule.steps |-> NoPrefix], index |-> 0, matched |-> <<>>]

StepMatches(rule, k, event) == event.class \in rule.steps[k].accepts

\* The prefixes that an event at this index may still continue.
Viable(rule, active, index) ==
  [k \in DOMAIN active |-> IF index - active[k].at > rule.gap + 1 THEN NoPrefix ELSE active[k]]

\* Slip: a prefix found first is kept while it is viable.
ContinuationsGreedy(rule, active, index, event) ==
  LET viable == Viable(rule, active, index)
  IN  [k \in DOMAIN active |->
         IF viable[k] # NoPrefix THEN viable[k]
         ELSE IF StepMatches(rule, k, event) /\ (k = 1 \/ viable[k - 1] # NoPrefix)
         THEN [at |-> index,
               path |-> Append(IF k = 1 THEN <<>> ELSE viable[k - 1].path, event)]
         ELSE NoPrefix]

\* The steps are tried from the last to the first, so each continues the
\* prefix its predecessor had before this event; a later prefix replaces an
\* older one.
Continuations(rule, active, index, event) ==
  LET viable == Viable(rule, active, index)
  IN  [k \in DOMAIN active |->
         IF StepMatches(rule, k, event) /\ (k = 1 \/ viable[k - 1] # NoPrefix)
         THEN [at |-> index,
               path |-> Append(IF k = 1 THEN <<>> ELSE viable[k - 1].path, event)]
         ELSE viable[k]]

\* MatchState::feed.
Feed(rule, state, event) ==
  LET index == state.index + 1
      last == Len(rule.steps)
      active == Continuations(rule, state.active, index, event)
  IN  IF state.matched # <<>> THEN state
      ELSE [active |-> active, index |-> index,
            matched |-> IF active[last] # NoPrefix THEN active[last].path ELSE <<>>]

\* CompiledRule::find.
Find(rule, events) ==
  LET state[n \in 0..Len(events)] ==
        IF n = 0 THEN NewMatch(rule) ELSE Feed(rule, state[n - 1], events[n])
  IN  state[Len(events)].matched

-----------------------------------------------------------------------------
(* What the matcher is meant to find: positions in order, one per step,    *)
(* with at most gap events between neighbours.                             *)

Occurrences(rule, events) ==
  {f \in [DOMAIN rule.steps -> DOMAIN events] :
     \A k \in DOMAIN f :
       /\ StepMatches(rule, k, events[f[k]])
       /\ k > 1 => f[k] - f[k - 1] \in 1..(rule.gap + 1)}

Occurs(rule, events) == Occurrences(rule, events) # {}

\* The first complete occurrence, and no other, is a match.
Explains(rule, events, matched) ==
  LET found == Occurrences(rule, events)
      last == Len(rule.steps)
  IN  IF found = {} THEN matched = <<>>
      ELSE \E f \in found :
             /\ \A g \in found : f[last] <= g[last]
             /\ matched = [k \in 1..last |-> events[f[k]]]
=============================================================================
