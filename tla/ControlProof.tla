---------------------------- MODULE ControlProof ----------------------------
(***************************************************************************)
(* What newhatchctl promises about its worker, its dialogs and its plans   *)
(* holds for any size of the queue and any scenario: theorems about the    *)
(* specification of module Control.                                        *)
(***************************************************************************)
EXTENDS Control, DataLemmas

Actions == Single \cup Bulk
PlanStep == [service : Services, do : {"start", "restart", "stop"}]
Snapshots == (SUBSET Services) \cup {None}
Finals ==
  [type : {"refreshed"}, snapshot : Snapshots] \cup [type : {"completed"}, snapshot : Snapshots]
    \cup [type : {"confirm"}, snapshot : SUBSET Services, action : Single]
Event == {Line} \cup Finals
Places ==
  {"read", "reread", "failed", "send", "next", "check", "command", "recreating", "done", "hung"}
Workers ==
  [at : Places, action : Actions \cup {None}, confirmed : BOOLEAN, steps : Seq(PlanStep),
   disturbed : BOOLEAN, event : Event]

Types ==
  /\ running \in SUBSET Services
  /\ worker \in Workers \cup {Gone}
  /\ events \in Seq(Event)
  /\ operating \in BOOLEAN /\ task \in BOOLEAN /\ cancelled \in BOOLEAN /\ moved \in BOOLEAN
  /\ queued \in Actions \cup {None}
  /\ confirmation \in [action : Single, yes : BOOLEAN] \cup {None}
  /\ life \in {"up", "leaving", "over"}

Alive == ~Working("gone")

\* The worker and the final event take turns: as long as the thread lives the
\* queue holds lines only, and what it leaves there last is its final event,
\* of a refresh or of the operation that App believes to be under way.
Turns ==
  /\ ~task => ~Alive /\ events = <<>>
  /\ Alive => \A i \in DOMAIN events : events[i] = Line
  /\ Alive => (operating <=> worker.action # None)
  /\ task /\ ~Alive /\ life = "up" =>
       events # <<>> /\ Final \in Finals /\ (operating <=> Final.type # "refreshed")
  /\ Working("send") =>
       worker.event \in Finals /\ (worker.event.type = "refreshed" <=> worker.action = None)
  /\ (life = "up") <=> ~cancelled

\* What excludes what on the screen.
Screen ==
  /\ operating => task /\ view = "output" /\ confirmation = None /\ queued = None
  /\ confirmation # None => ~task /\ view = "dashboard" /\ queued = None
  /\ queued # None => task /\ ~operating

\* A worker that need not ask was started by a dialog that had been moved.
Choice ==
  /\ confirmation # None /\ confirmation.yes => moved
  /\ Alive /\ worker.confirmed => agreed = worker.action /\ operating

StopF == Step("frontend", "stop")
StopA == Step("analyzer", "stop")

\* What the steps of a plan have in common: all of them stop a service or none
\* does; the analyzer is stopped after the frontend, if that runs; they are about
\* one service.
OneKind(steps) == \A i, j \in DOMAIN steps : steps[i].do = "stop" => steps[j].do = "stop"
FrontendFirst(steps, seen) ==
  \A i \in DOMAIN steps :
    steps[i] = StopA => "frontend" \notin seen \/ \E j \in 1 .. (i - 1) : steps[j] = StopF
Only(steps, service) == \A i \in DOMAIN steps : steps[i].service = service

\* What a plan that nobody was asked about consists of.
Plan ==
  /\ worker.at \notin {"read", "send"} => worker.action # None
  /\ worker.action # None /\ ~worker.confirmed /\ worker.action.on # None =>
       Only(worker.steps, worker.action.on)
  /\ worker.at \in {"command", "check", "recreating", "done"} => worker.steps # <<>>

\* What the rest of a plan still guarantees in each place of its execution.
Kept ==
  /\ OneKind(worker.steps)
  /\ Working("check") => Head(worker.steps).do # "stop"
  /\ ~worker.disturbed =>
      /\ FrontendFirst(worker.steps, running)
      /\ Working("done") /\ Head(worker.steps) = StopF => "frontend" \notin running
      /\ Working("command") /\ Head(worker.steps).service = "frontend"
           /\ Head(worker.steps).do # "stop" => "analyzer" \in running

ControlInv == Types /\ Turns /\ Screen /\ Choice /\ (Alive => Plan /\ Kept)

-----------------------------------------------------------------------------
(* The plans. *)

LEMMA NoneIsNothing == None \notin Actions /\ None \notin Services
BY ControlAssumption DEF Actions

LEMMA Singleton ==
  ASSUME NEW S, NEW e \in S
  PROVE  <<e>> \in Seq(S) /\ Len(<<e>>) = 1 /\ <<e>>[1] = e /\ <<e>> # <<>> /\ DOMAIN <<e>> = 1 .. 1
OBVIOUS

StartsWith(steps, step) == Len(steps) >= 1 /\ steps[1] = step

\* The steps of a bulk action: all of one kind, and the first service's step
\* comes first if that service runs.
LEMMA OrderedIs ==
  ASSUME NEW a \in Services, NEW b \in Services, NEW c \in Services,
         NEW seen \in SUBSET Services, NEW do
  PROVE  /\ Ordered(<<a, b, c>>, seen, do) \in Seq([service : Services, do : {do}])
         /\ a \in seen => StartsWith(Ordered(<<a, b, c>>, seen, do), Step(a, do))
<1> DEFINE S == [service : Services, do : {do}]
           x == IfSeen(a, seen, do)
           y == IfSeen(b, seen, do)
           z == IfSeen(c, seen, do)
<1>1. \A s \in Services : Step(s, do) \in S
  BY DEF Step
<1>2. x \in Seq(S) /\ y \in Seq(S) /\ z \in Seq(S)
  <2> HIDE DEF S
  <2>1. <<>> \in Seq(S)
    BY EmptySeq
  <2> QED
    BY <1>1, <2>1, Singleton DEF IfSeen
<1>3. Ordered(<<a, b, c>>, seen, do) = x \o y \o z
  BY DEF Ordered
<1>4. a \in seen => Len(x) = 1 /\ x[1] = Step(a, do)
  BY DEF IfSeen
<1> HIDE DEF S, x, y, z
<1>5. x \o y \in Seq(S) /\ Len(x \o y) = Len(x) + Len(y) /\ Len(y) \in Nat /\ Len(x) \in Nat
      /\ \A i \in 1 .. Len(x) : (x \o y)[i] = x[i]
  BY <1>2, ConcatProperties, LenProperties
<1>6. x \o y \o z \in Seq(S) /\ Len(x \o y \o z) = Len(x \o y) + Len(z) /\ Len(z) \in Nat
      /\ \A i \in 1 .. Len(x \o y) : (x \o y \o z)[i] = (x \o y)[i]
  BY <1>2, <1>5, ConcatProperties, LenProperties
<1>7. ASSUME a \in seen
      PROVE  StartsWith(x \o y \o z, Step(a, do))
  <2>1. Len(x \o y) >= 1 /\ (x \o y)[1] = Step(a, do)
    BY <1>4, <1>5, <1>7
  <2>2. Len(x \o y) \in Nat
    BY <1>5
  <2> QED
    BY <1>6, <2>1, <2>2 DEF StartsWith
<1> QED
  BY <1>3, <1>6, <1>7 DEF S

\* The steps of an action on one service.
LEMMA SingleStepsAre ==
  ASSUME NEW action \in Single, NEW seen \in SUBSET Services
  PROVE  /\ Steps(action, seen) \in Seq(PlanStep)
         /\ OneKind(Steps(action, seen)) /\ FrontendFirst(Steps(action, seen), seen)
         /\ ~Asks(action, seen) => Only(Steps(action, seen), action.on)
<1> DEFINE before == Dependency(action, seen)
           step == Step(action.on, action.do)
           steps == Steps(action, seen)
<1>1. action.on \in Services /\ action.on # None /\ action.do \in {"start", "restart", "stop"}
  BY ControlAssumption DEF Single
<1>2. \/ before = <<>>
      \/ before = <<StopF>> /\ action.do = "stop" /\ action.on = "analyzer"
      \/ before = <<Step("analyzer", "start")>> /\ action.do # "stop"
  BY DEF Dependency, StopF
<1>3. before = <<>> /\ action.do = "stop" /\ action.on = "analyzer" => "frontend" \notin seen
  <2>1. before = <<Step("frontend", "stop")>> => before # <<>>
    OBVIOUS
  <2> QED
    BY <2>1 DEF Dependency
<1>4. CASE steps = <<>>
  <2>1. steps \in Seq(PlanStep) /\ DOMAIN steps = {}
    BY <1>4
  <2> QED
    BY <2>1 DEF OneKind, FrontendFirst, Only
<1>5. CASE steps # <<>>
  <2>1. steps = Append(before, step)
    BY <1>1, <1>5 DEF Steps
  <2>2. step \in PlanStep /\ StopF \in PlanStep /\ Step("analyzer", "start") \in PlanStep
    BY <1>1 DEF PlanStep, Step, StopF, Services
  <2>3. before \in Seq(PlanStep) /\ Len(before) \in {0, 1} /\ (Len(before) = 0 <=> before = <<>>)
    <3>1. <<>> \in Seq(PlanStep) /\ Len(<<>>) = 0
      BY EmptySeq
    <3> HIDE DEF before
    <3>2. CASE before = <<>>
      BY <3>1, <3>2
    <3>3. CASE before = <<StopF>> \/ before = <<Step("analyzer", "start")>>
      <4>1. \A e \in PlanStep : <<e>> \in Seq(PlanStep) /\ Len(<<e>>) = 1 /\ <<e>> # <<>>
        BY Singleton
      <4>2. PICK e \in PlanStep : before = <<e>>
        BY <2>2, <3>3
      <4>3. before \in Seq(PlanStep) /\ Len(before) = 1 /\ before # <<>>
        BY <4>1, <4>2
      <4> QED
        BY <4>3
    <3> QED
      BY <1>2, <3>2, <3>3
  <2>4. step.do = action.do /\ step.service = action.on /\ StopF.do = "stop"
        /\ Step("analyzer", "start").do = "start"
    BY DEF Step, StopF
  <2>5. /\ steps \in Seq(PlanStep) /\ DOMAIN before = 1 .. Len(before)
        /\ \A i \in DOMAIN steps : \/ i \in DOMAIN before /\ steps[i] = before[i]
                                   \/ i = Len(before) + 1 /\ steps[i] = step
        /\ \A i \in DOMAIN before : steps[i] = before[i]
    <3> HIDE DEF before, step, steps
    <3> QED
      BY <2>1, <2>2, <2>3, AppendedIs
  <2>6. \A i \in DOMAIN before : before[i].do = "stop" <=> action.do = "stop"
    BY <1>2, <2>4
  <2>7. \A i \in DOMAIN steps : (steps[i].do = "stop") = (action.do = "stop")
    <3> HIDE DEF before, step, steps
    <3> QED
      BY <2>4, <2>5, <2>6
  <2>8. ASSUME NEW i \in DOMAIN steps, steps[i] = StopA, "frontend" \in seen
        PROVE  \E j \in 1 .. (i - 1) : steps[j] = StopF
    <3>1. \A k \in DOMAIN before : before[k] # StopA
      BY <1>2 DEF StopA, StopF, Step
    <3>2. i = Len(before) + 1 /\ step = StopA
      <4> HIDE DEF before, step, steps
      <4> QED
        BY <2>5, <2>8, <3>1
    <3>3. action.do = "stop" /\ action.on = "analyzer"
      BY <3>2, <2>4 DEF StopA, Step
    <3>4. before = <<StopF>>
      BY <1>2, <1>3, <2>8, <3>3
    <3>5. Len(before) = 1 /\ before[1] = StopF
      BY <3>4
    <3> HIDE DEF before, step, steps
    <3> QED
      BY <2>5, <3>2, <3>5
  <2>9. ASSUME ~Asks(action, seen)
        PROVE  \A i \in DOMAIN steps : steps[i].service = action.on
    <3>1. Len(before) = 0
      BY <1>1, <1>5, <2>3, <2>9 DEF Asks
    <3> HIDE DEF before, step, steps
    <3> QED
      BY <2>4, <2>5, <3>1
  <2> HIDE DEF before, step, steps
  <2> QED
    BY <2>5, <2>7, <2>8, <2>9 DEF OneKind, FrontendFirst, Only, steps
<1> QED
  BY <1>4, <1>5

\* Any plan: its steps stop services or none does, the analyzer is stopped after
\* the frontend if that runs, and it is about one service if nobody is asked.
LEMMA StepsAre ==
  ASSUME NEW action \in Actions, NEW seen \in SUBSET Services
  PROVE  /\ Steps(action, seen) \in Seq(PlanStep)
         /\ OneKind(Steps(action, seen)) /\ FrontendFirst(Steps(action, seen), seen)
         /\ ~Asks(action, seen) /\ action.on # None => Only(Steps(action, seen), action.on)
<1> DEFINE steps == Steps(action, seen)
<1>1. CASE action \in Single
  BY <1>1, SingleStepsAre
<1>2. CASE action \in Bulk
  <2>1. action.on = None /\ action.do \in {"restart", "stop"}
    BY <1>2 DEF Bulk
  <2> DEFINE S == [service : Services, do : {action.do}]
  <2>3. "analyzer" \in Services /\ "collector" \in Services /\ "frontend" \in Services
    BY DEF Services
  <2>4. /\ Ordered(<<"analyzer", "collector", "frontend">>, seen, action.do) \in Seq(S)
        /\ Ordered(<<"frontend", "analyzer", "collector">>, seen, action.do) \in Seq(S)
    BY <2>3, OrderedIs
  <2>5. "frontend" \in seen =>
          StartsWith(Ordered(<<"frontend", "analyzer", "collector">>, seen, action.do),
                     Step("frontend", action.do))
    BY <2>3, OrderedIs
  <2>6. /\ action.do = "restart" =>
             steps = Ordered(<<"analyzer", "collector", "frontend">>, seen, action.do)
        /\ action.do = "stop" =>
             steps = Ordered(<<"frontend", "analyzer", "collector">>, seen, action.do)
    BY <2>1 DEF Steps, BulkSteps
  <2>7. /\ steps \in Seq(S)
        /\ action.do = "stop" /\ "frontend" \in seen => Len(steps) >= 1 /\ steps[1] = StopF
    <3>1. CASE action.do = "restart"
      BY <2>4, <2>6, <3>1
    <3>2. CASE action.do = "stop"
      BY <2>4, <2>5, <2>6, <3>2 DEF StopF, StartsWith
    <3> QED
      BY <2>1, <3>1, <3>2
  <2>8. steps \in Seq(PlanStep)
    <3>1. S \subseteq PlanStep
      BY <2>1 DEF PlanStep
    <3> HIDE DEF S, steps
    <3> QED
      BY <2>7, <3>1, SeqMonotonic
  <2>9. \A i \in DOMAIN steps : i \in 1 .. Len(steps) /\ steps[i].do = action.do
    <3> HIDE DEF steps
    <3>1. \A i \in DOMAIN steps : i \in 1 .. Len(steps) /\ steps[i] \in S
      BY <2>7, LenProperties, ElementOfSeq
    <3> QED
      BY <3>1
  <2>10. ASSUME NEW i \in DOMAIN steps, steps[i] = StopA, "frontend" \in seen
        PROVE  \E j \in 1 .. (i - 1) : steps[j] = StopF
    <3>1. action.do = "stop"
      BY <2>9, <2>10 DEF StopA, Step
    <3>2. steps[1] = StopF /\ i \in 1 .. Len(steps) /\ Len(steps) \in Nat
      <4> HIDE DEF steps
      <4> QED
        BY <2>7, <2>8, <2>9, <2>10, <3>1, LenProperties
    <3>3. i # 1
      BY <2>10, <3>2 DEF StopA, StopF, Step
    <3>4. 1 \in 1 .. (i - 1)
      BY <3>2, <3>3
    <3> HIDE DEF steps
    <3> QED
      BY <3>2, <3>4
  <2> HIDE DEF steps
  <2> QED
    BY <2>1, <2>8, <2>9, <2>10 DEF OneKind, FrontendFirst, steps
<1> QED
  BY <1>1, <1>2 DEF Actions

-----------------------------------------------------------------------------
(* Every step keeps the types. *)

LEMMA WorkerIs ==
  ASSUME Types
  PROVE  /\ Alive => worker \in Workers
         /\ ~Alive => worker = Gone
         /\ \A at \in Places : Working(at) => Alive
<1>1. Gone.at = "gone"
  BY DEF Gone
<1>2. \A w \in Workers : w.at # "gone"
  BY DEF Workers, Places
<1> QED
  BY <1>1, <1>2 DEF Types, Alive, Working, Places

LEMMA FinalIs ==
  ASSUME Types, events # <<>>
  PROVE  Len(events) \in DOMAIN events /\ Final = events[Len(events)] /\ Final \in Event
<1>1. events \in Seq(Event) /\ Len(events) \in Nat \ {0} /\ DOMAIN events = 1 .. Len(events)
  BY EmptySeq, LenProperties DEF Types
<1> QED
  BY <1>1, ElementOfSeq DEF Final

\* The kinds of an event are told apart by its type.
LEMMA EventKinds ==
  /\ Line \in Event /\ Line.type = "line" /\ Line \notin Finals
  /\ \A seen \in Snapshots : /\ [type |-> "refreshed", snapshot |-> seen] \in Finals
                             /\ Completed(seen) \in Finals /\ Completed(seen).type = "completed"
  /\ \A seen \in SUBSET Services, action \in Single :
        [type |-> "confirm", snapshot |-> seen, action |-> action] \in Finals
  /\ \A e \in Finals : /\ e.type \in {"refreshed", "completed", "confirm"}
                       /\ e.type = "confirm" => e.action \in Single
BY DEF Event, Finals, Snapshots, Line, Completed

LEMMA SpawnTypes ==
  ASSUME NEW action \in Actions \cup {None}, NEW confirmed \in BOOLEAN, Spawn(action, confirmed)
  PROVE  worker' \in Workers /\ task' = TRUE /\ cancelled' = FALSE
<1>1. <<>> \in Seq(PlanStep) /\ Line \in Event /\ "read" \in Places
  BY EmptySeq DEF Event, Places
<1> QED
  BY <1>1 DEF Spawn, Workers

LEMMA RequestTypes ==
  ASSUME Types, NEW action \in Actions, NEW confirmed \in BOOLEAN, Request(action, confirmed)
  PROVE  /\ worker' \in Workers \cup {Gone} /\ task' \in BOOLEAN /\ cancelled' \in BOOLEAN
         /\ operating' \in BOOLEAN /\ queued' \in Actions \cup {None}
<1>1. CASE operating
  BY <1>1 DEF Request, Types
<1>2. CASE ~operating /\ task
  BY <1>2 DEF Request, Types
<1>3. CASE ~operating /\ ~task
  BY <1>3, SpawnTypes DEF Request, Types
<1> QED
  BY <1>1, <1>2, <1>3 DEF Types

\* What a step of the worker makes of it.
LEMMA WorkerMoves ==
  ASSUME Types, NEW at \in Places, Alive
  PROVE  /\ [worker EXCEPT !.at = at] \in Workers
         /\ [worker EXCEPT !.at = at, !.disturbed = FALSE] \in Workers
         /\ \A event \in Event : [worker EXCEPT !.at = at, !.event = event] \in Workers
         /\ \A steps \in Seq(PlanStep) :
               /\ [worker EXCEPT !.at = at, !.disturbed = FALSE, !.steps = steps] \in Workers
               /\ [worker EXCEPT !.at = at, !.steps = steps] \in Workers
BY WorkerIs DEF Workers

LEMMA WorkTypes ==
  ASSUME Types, Alive /\ Plan, Work \/ OutputLine \/ CommandHangs
  PROVE  Types'
<1>0. worker \in Workers /\ Line \in Event
  BY WorkerIs, EventKinds
<1>1. CASE ReadSnapshot
  <2>1. running \in Snapshots /\ running \in SUBSET Services
    BY DEF Types, Snapshots
  <2>2. ASSUME NEW event \in Event, Send(event)
        PROVE  worker' \in Workers
    BY <2>2, WorkerMoves DEF Send, Places
  <2>3. worker' \in Workers
    <3>1. CASE worker.action = None
      <4>1. Send([type |-> "refreshed", snapshot |-> running])
        BY <1>1, <3>1 DEF ReadSnapshot
      <4> QED
        BY <4>1, <2>1, <2>2, EventKinds DEF Event
    <3>2. CASE worker.action # None /\ Refused(worker.action, running)
      <4>1. worker' = [worker EXCEPT !.at = "failed"]
        BY <1>1, <3>2 DEF ReadSnapshot
      <4> QED
        BY <4>1, WorkerMoves DEF Places
    <3>3. CASE worker.action # None /\ ~Refused(worker.action, running)
      <4>1. worker.action \in Actions
        BY <1>0, <3>3 DEF Workers
      <4>2. CASE Asks(worker.action, running) /\ ~worker.confirmed
        <5>1. Send([type |-> "confirm", snapshot |-> running, action |-> worker.action])
          BY <1>1, <3>3, <4>2 DEF ReadSnapshot, Asks
        <5>2. worker.action \in Single
          BY <4>1, <4>2 DEF Asks, Actions, Bulk
        <5> QED
          BY <5>1, <5>2, <2>1, <2>2, EventKinds DEF Event
      <4>3. CASE ~(Asks(worker.action, running) /\ ~worker.confirmed)
                 /\ Steps(worker.action, running) = <<>>
        <5>1. Send(Completed(running))
          BY <1>1, <3>3, <4>3 DEF ReadSnapshot
        <5> QED
          BY <5>1, <2>1, <2>2, EventKinds DEF Event
      <4>4. CASE ~(Asks(worker.action, running) /\ ~worker.confirmed)
                 /\ Steps(worker.action, running) # <<>>
        <5>1. worker' = [worker EXCEPT !.at = "next", !.disturbed = FALSE,
                                       !.steps = Steps(worker.action, running)]
          BY <1>1, <3>3, <4>4 DEF ReadSnapshot
        <5>2. Steps(worker.action, running) \in Seq(PlanStep)
          BY <4>1, <2>1, StepsAre
        <5> QED
          BY <5>1, <5>2, WorkerMoves DEF Places
      <4> QED
        BY <4>2, <4>3, <4>4
    <3> QED
      BY <3>1, <3>2, <3>3
  <2> QED
    BY <1>1, <2>3 DEF ReadSnapshot, WorkerOnly, app, history, Types
<1>2. CASE ReadFails
  <2>1. \/ Send([type |-> "refreshed", snapshot |-> None]) \/ Send(Completed(None))
        \/ worker' = [worker EXCEPT !.at = "failed"]
    BY <1>2 DEF ReadFails
  <2>2. worker' \in Workers
    <3>1. [type |-> "refreshed", snapshot |-> None] \in Event /\ Completed(None) \in Event
          /\ "send" \in Places /\ "failed" \in Places
      BY EventKinds DEF Event, Snapshots, Places
    <3> QED
      BY <2>1, <3>1, WorkerMoves DEF Send
  <2> QED
    BY <1>2, <2>2 DEF ReadFails, WorkerOnly, app, history, Types
<1>3. CASE Reread
  <2>1. worker' \in Workers
    BY <1>3, WorkerMoves, EventKinds DEF Reread, Send, Places, Event, Snapshots, Types
  <2> QED
    BY <1>3, <2>1 DEF Reread, WorkerOnly, app, history, Types
<1>4. CASE NextStep
  <2>1. \E at \in Places : worker' = [worker EXCEPT !.at = at]
    BY <1>4 DEF NextStep, Places
  <2>2. worker' \in Workers
    BY <2>1, WorkerMoves
  <2> QED
    BY <1>4, <2>2 DEF NextStep, WorkerOnly, app, history, bounds, Types
<1>5. CASE CheckAnalyzer
  <2>1. \E at \in Places : worker' = [worker EXCEPT !.at = at, !.disturbed = FALSE]
    BY <1>5 DEF CheckAnalyzer, Places
  <2>2. worker' \in Workers
    BY <2>1, WorkerMoves
  <2> QED
    BY <1>5, <2>2 DEF CheckAnalyzer, WorkerOnly, app, history, bounds, Types
<1>6. CASE CommandActs
  <2>1. \E at \in Places : worker' = [worker EXCEPT !.at = at]
    BY <1>6 DEF CommandActs, Places
  <2>2. worker' \in Workers
    BY <2>1, WorkerMoves
  <2>3. worker.steps \in Seq(PlanStep) /\ worker.steps # <<>>
    BY <1>0, <1>6 DEF Workers, CommandActs, Plan
  <2>4. Head(worker.steps).service \in Services
    <3>1. Head(worker.steps) \in PlanStep
      BY <2>3, TailOf
    <3> QED
      BY <3>1 DEF PlanStep
  <2>5. running' \in SUBSET Services
    BY <1>6, <2>4 DEF CommandActs, Types
  <2> QED
    BY <1>6, <2>2, <2>5 DEF CommandActs, WorkerOnly, app, history, bounds, Types
<1>7. CASE CommandFails \/ CommandHangs \/ KillHung
  <2>1. \E at \in Places : worker' = [worker EXCEPT !.at = at]
    BY <1>7 DEF CommandFails, CommandHangs, KillHung, Places
  <2>2. worker' \in Workers
    BY <2>1, WorkerMoves
  <2> QED
    BY <1>7, <2>2
    DEF CommandFails, CommandHangs, KillHung, WorkerOnly, app, history, bounds, Types
<1>8. CASE CommandEnds
  <2>1. worker.steps \in Seq(PlanStep) /\ worker.steps # <<>>
    BY <1>0, <1>8 DEF Workers, CommandEnds, Plan, Working
  <2>2. Tail(worker.steps) \in Seq(PlanStep)
    BY <2>1, TailOf
  <2>3. worker' = [worker EXCEPT !.at = "next", !.steps = Tail(worker.steps)]
    BY <1>8 DEF CommandEnds
  <2>4. worker' \in Workers
    BY <2>2, <2>3, WorkerMoves DEF Places
  <2> QED
    BY <1>8, <2>4 DEF CommandEnds, WorkerOnly, app, history, bounds, Types
<1>9. CASE SendFinal
  <2>1. worker.event \in Event /\ events \in Seq(Event)
    BY <1>0 DEF Workers, Types
  <2>2. Append(events, worker.event) \in Seq(Event)
    BY <2>1, AppendedIs
  <2>3. worker' = Gone /\ (events' = events \/ events' = Append(events, worker.event))
    BY <1>9 DEF SendFinal
  <2>4. events' \in Seq(Event)
    BY <2>1, <2>2, <2>3
  <2> QED
    BY <1>9, <2>3, <2>4 DEF SendFinal, WorkerOnly, app, history, bounds, Types
<1>10. CASE OutputLine
  <2>1. events' \in Seq(Event)
    BY <1>0, <1>10, AppendedIs DEF OutputLine, Types
  <2> QED
    BY <1>10, <2>1 DEF OutputLine, WorkerOnly, app, history, bounds, Types
<1> QED
  BY <1>1, <1>2, <1>3, <1>4, <1>5, <1>6, <1>7, <1>8, <1>9, <1>10 DEF Work, Command

LEMMA AppTypes ==
  ASSUME Types, Screen, Tick \/ Refresh \/ Key \/ Exit \/ \E service \in Services : Change(service)
  PROVE  Types'
<1>0. <<>> \in Seq(Event)
  BY EmptySeq
<1>1. CASE TickLines \/ TickCompleted
  BY <1>0, <1>1 DEF TickLines, TickCompleted, app, history, bounds, Types
<1>2. CASE TickRefreshed
  <2>1. CASE queued = None \/ Final.snapshot = None
    <3>1. task' = FALSE /\ UNCHANGED <<operating, worker, cancelled>>
      BY <1>2, <2>1 DEF TickRefreshed
    <3> QED
      BY <1>0, <1>2, <3>1 DEF TickRefreshed, history, Types
  <2>2. CASE ~(queued = None \/ Final.snapshot = None)
    <3>1. operating' = TRUE /\ Spawn(queued, FALSE)
      BY <1>2, <2>2 DEF TickRefreshed
    <3>2. worker' \in Workers /\ task' = TRUE /\ cancelled' = FALSE
      BY <3>1, SpawnTypes DEF Types
    <3> QED
      BY <1>0, <1>2, <3>1, <3>2 DEF TickRefreshed, history, Types
  <2> QED
    BY <2>1, <2>2
<1>3. CASE TickConfirm
  <2>1. Final \in Finals /\ Final.action \in Single
    BY <1>3, FinalIs, EventKinds DEF TickConfirm, Event
  <2> QED
    BY <1>0, <1>3, <2>1 DEF TickConfirm, Types
<1>4. CASE Refresh
  <2>1. Spawn(None, FALSE)
    BY <1>4 DEF Refresh
  <2>2. worker' \in Workers /\ task' = TRUE /\ cancelled' = FALSE
    BY <2>1, SpawnTypes
  <2> QED
    BY <1>4, <2>2 DEF Refresh, history, Types
<1>5. ASSUME NEW action \in Single \cup Bulk, Press(action)
      PROVE  Types'
  <2>1. Request(action, FALSE) /\ action \in Actions
    BY <1>5 DEF Press, Actions
  <2>2. /\ worker' \in Workers \cup {Gone} /\ task' \in BOOLEAN /\ cancelled' \in BOOLEAN
        /\ operating' \in BOOLEAN /\ queued' \in Actions \cup {None}
    BY <2>1, RequestTypes
  <2> QED
    BY <1>5, <2>2 DEF Press, Types
<1>6. CASE Accept
  <2>1. Request(confirmation.action, TRUE) /\ confirmation.action \in Actions
    BY <1>6 DEF Accept, Types, Actions
  <2>2. /\ worker' \in Workers \cup {Gone} /\ task' \in BOOLEAN /\ cancelled' \in BOOLEAN
        /\ operating' \in BOOLEAN /\ queued' \in Actions \cup {None}
    BY <2>1, RequestTypes
  <2> QED
    BY <1>6, <2>2 DEF Accept, Types
<1>7. CASE Toggle
  <2>1. confirmation' \in [action : Single, yes : BOOLEAN]
    BY <1>7 DEF Toggle, Types
  <2> QED
    BY <1>7, <2>1 DEF Toggle, Types
<1>8. CASE OpenLogs \/ Escape \/ Decline \/ Quit \/ Exit
  BY <1>8 DEF OpenLogs, Escape, Decline, Quit, Exit, history, bounds, Types
<1>9. ASSUME NEW service \in Services, Change(service)
      PROVE  Types'
  <2>1. running' \in SUBSET Services
    BY <1>9 DEF Change, Types
  <2>2. worker' \in Workers \cup {Gone}
    <3>1. CASE Working("gone")
      BY <1>9, <3>1 DEF Change, Types
    <3>2. CASE ~Working("gone")
      <4>1. worker \in Workers
        BY <3>2, WorkerIs DEF Alive
      <4>2. worker' = [worker EXCEPT !.disturbed = TRUE]
        BY <1>9, <3>2 DEF Change
      <4> QED
        BY <4>1, <4>2 DEF Workers
    <3> QED
      BY <3>1, <3>2
  <2> QED
    BY <1>9, <2>1, <2>2 DEF Change, app, history, Types
<1> QED
  BY <1>1, <1>2, <1>3, <1>4, <1>5, <1>6, <1>7, <1>8, <1>9 DEF Tick, Key

-----------------------------------------------------------------------------
(* Turns, Screen and Choice: the worker's steps. *)

LEMMA WorkAlive ==
  ASSUME Types, Work \/ OutputLine \/ CommandHangs
  PROVE  Alive
BY DEF Work, OutputLine, CommandHangs, Command, ReadSnapshot, ReadFails, Reread, NextStep,
       CheckAnalyzer, CommandActs, CommandFails, CommandEnds, KillHung, SendFinal, Alive, Working

\* Before it sends its final event the worker changes neither its action nor
\* what App and the queue hold.
LEMMA WorkKeeps ==
  ASSUME Types, Alive /\ Plan, (Work /\ ~SendFinal) \/ CommandHangs
  PROVE  /\ worker' \in Workers /\ worker'.at \in Places
         /\ worker'.action = worker.action /\ worker'.confirmed = worker.confirmed
         /\ UNCHANGED <<app, cancelled, history, events>>
         /\ worker'.at = "send" =>
              worker'.event \in Finals /\ (worker'.event.type = "refreshed" <=> worker.action = None)
<1>0. worker \in Workers /\ ~SendFinal
  <2>1. SendFinal => Working("send")
    BY DEF SendFinal
  <2>2. CommandHangs => ~Working("send")
    BY DEF CommandHangs, Working
  <2> QED
    BY <2>1, <2>2, WorkerIs
<1> DEFINE Moved == /\ worker'.at \in Places
                    /\ worker'.action = worker.action /\ worker'.confirmed = worker.confirmed
                    /\ worker'.at = "send" =>
                         worker'.event \in Finals
                           /\ (worker'.event.type = "refreshed" <=> worker.action = None)
<1>1. \A at : worker' = [worker EXCEPT !.at = at] /\ at \in Places \ {"send"} => Moved
  BY <1>0 DEF Workers
<1>2. \A at : worker' = [worker EXCEPT !.at = at, !.disturbed = FALSE] /\ at \in Places \ {"send"} => Moved
  BY <1>0 DEF Workers
<1>3. \A event \in Finals :
        Send(event) /\ (event.type = "refreshed" <=> worker.action = None) => Moved
  BY <1>0 DEF Workers, Send, Places
<1> HIDE DEF Moved
<1>4. ASSUME ReadSnapshot
      PROVE  Moved
  <2>1. running \in Snapshots /\ running \in SUBSET Services
    BY DEF Types, Snapshots
  <2>2. CASE worker.action = None
    <3>1. Send([type |-> "refreshed", snapshot |-> running])
      BY <1>4, <2>2 DEF ReadSnapshot
    <3>2. [type |-> "refreshed", snapshot |-> running] \in Finals
      BY <2>1, EventKinds
    <3> QED
      BY <1>3, <2>2, <3>1, <3>2
  <2>3. CASE worker.action # None /\ Refused(worker.action, running)
    <3>1. worker' = [worker EXCEPT !.at = "failed"]
      BY <1>4, <2>3 DEF ReadSnapshot
    <3> QED
      BY <1>1, <3>1 DEF Places
  <2>4. CASE worker.action # None /\ ~Refused(worker.action, running)
    <3>1. worker.action \in Actions
      BY <1>0, <2>4 DEF Workers
    <3>2. CASE Asks(worker.action, running) /\ ~worker.confirmed
      <4> DEFINE event == [type |-> "confirm", snapshot |-> running, action |-> worker.action]
      <4>1. Send(event)
        BY <1>4, <2>4, <3>2 DEF ReadSnapshot, Asks
      <4>2. event \in Finals /\ event.type = "confirm"
        BY <2>1, <3>1, <3>2, EventKinds DEF Asks, Actions, Bulk
      <4> HIDE DEF event
      <4> QED
        BY <1>3, <2>4, <4>1, <4>2
    <3>3. CASE ~(Asks(worker.action, running) /\ ~worker.confirmed)
               /\ Steps(worker.action, running) = <<>>
      <4>1. Send(Completed(running))
        BY <1>4, <2>4, <3>3 DEF ReadSnapshot
      <4>2. Completed(running) \in Finals /\ Completed(running).type = "completed"
        BY <2>1, EventKinds
      <4> QED
        BY <1>3, <2>4, <4>1, <4>2
    <3>4. CASE ~(Asks(worker.action, running) /\ ~worker.confirmed)
               /\ Steps(worker.action, running) # <<>>
      <4>1. worker' = [worker EXCEPT !.at = "next", !.disturbed = FALSE,
                                     !.steps = Steps(worker.action, running)]
        BY <1>4, <2>4, <3>4 DEF ReadSnapshot
      <4> QED
        BY <1>0, <4>1 DEF Workers, Places, Moved
    <3> QED
      BY <3>2, <3>3, <3>4
  <2> QED
    BY <2>2, <2>3, <2>4
<1>5. ASSUME ReadFails
      PROVE  Moved
  <2>1. [type |-> "refreshed", snapshot |-> None] \in Finals /\ Completed(None) \in Finals
        /\ Completed(None).type = "completed"
    BY EventKinds DEF Snapshots
  <2>2. CASE Working("read") /\ worker.action = None
    <3>1. Send([type |-> "refreshed", snapshot |-> None])
      BY <1>5, <2>2 DEF ReadFails, Working
    <3> QED
      BY <1>3, <2>1, <2>2, <3>1
  <2>3. CASE Working("failed")
    <3>1. Send(Completed(None))
      BY <1>5, <2>3 DEF ReadFails, Working
    <3>2. worker.action # None
      BY <2>3 DEF Plan, Working
    <3> QED
      BY <1>3, <2>1, <3>1, <3>2
  <2>4. CASE ~(Working("read") /\ worker.action = None) /\ ~Working("failed")
    <3>1. worker' = [worker EXCEPT !.at = "failed"]
      BY <1>5, <2>4 DEF ReadFails
    <3> QED
      BY <1>1, <3>1 DEF Places
  <2> QED
    BY <2>2, <2>3, <2>4
<1>6. ASSUME Reread
      PROVE  Moved
  <2>1. Completed(running) \in Finals /\ Completed(running).type = "completed"
    BY EventKinds DEF Snapshots, Types
  <2>2. Send(Completed(running)) /\ worker.action # None
    BY <1>6 DEF Reread, Plan
  <2> QED
    BY <1>3, <2>1, <2>2
<1>7. ASSUME NextStep
      PROVE  Moved
  <2>1. worker' = [worker EXCEPT !.at = "reread"] \/ worker' = [worker EXCEPT !.at = "check"]
        \/ worker' = [worker EXCEPT !.at = "command"]
    BY <1>7 DEF NextStep
  <2> QED
    BY <1>1, <2>1 DEF Places
<1>8. ASSUME CheckAnalyzer
      PROVE  Moved
  <2>1. \/ worker' = [worker EXCEPT !.at = "command", !.disturbed = FALSE]
        \/ worker' = [worker EXCEPT !.at = "failed", !.disturbed = FALSE]
    BY <1>8 DEF CheckAnalyzer
  <2> QED
    BY <1>2, <2>1 DEF Places
<1>9. ASSUME CommandActs \/ CommandFails \/ KillHung \/ CommandHangs
      PROVE  Moved
  <2>1. \E at \in Places \ {"send"} : worker' = [worker EXCEPT !.at = at]
    BY <1>9 DEF CommandActs, CommandFails, KillHung, CommandHangs, Places
  <2> QED
    BY <1>1, <2>1
<1>10. ASSUME CommandEnds
      PROVE  Moved
  <2>1. worker' = [worker EXCEPT !.at = "next", !.steps = Tail(worker.steps)]
    BY <1>10 DEF CommandEnds
  <2> QED
    BY <1>0, <2>1 DEF Workers, Places, Moved
<1>11. Moved
  BY <1>0, <1>4, <1>5, <1>6, <1>7, <1>8, <1>9, <1>10 DEF Work, Command
<1>12. UNCHANGED <<app, cancelled, history, events>>
  BY <1>0 DEF Work, Command, ReadSnapshot, ReadFails, Reread, NextStep, CheckAnalyzer, CommandActs,
              CommandFails, CommandEnds, KillHung, CommandHangs, WorkerOnly
<1>13. worker' \in Workers
  <2>1. Types'
    BY WorkTypes
  <2>2. worker' # Gone
    BY <1>11 DEF Moved, Gone, Places
  <2> QED
    BY <2>1, <2>2 DEF Types
<1> QED
  BY <1>11, <1>12, <1>13 DEF Moved

LEMMA WorkTurns ==
  ASSUME Types, Turns, Screen, Choice, Alive /\ Plan, Work \/ OutputLine \/ CommandHangs
  PROVE  Turns' /\ Screen' /\ Choice'
<1>0. worker \in Workers /\ Types'
  BY WorkerIs, WorkTypes
<1>1. CASE (Work /\ ~SendFinal) \/ CommandHangs
  <2>1. /\ worker' \in Workers /\ worker'.at \in Places
        /\ worker'.action = worker.action /\ worker'.confirmed = worker.confirmed
        /\ UNCHANGED <<app, cancelled, history, events>>
        /\ worker'.at = "send" =>
             worker'.event \in Finals /\ (worker'.event.type = "refreshed" <=> worker.action = None)
    BY <1>1, WorkKeeps
  <2>2. Alive'
    BY <2>1 DEF Alive, Working, Places
  <2>3. Turns'
    BY <2>1, <2>2 DEF Turns, app, Working, Final
  <2>4. Screen'
    BY <2>1 DEF Screen, app
  <2>5. Choice'
    BY <2>1 DEF Choice, app, history
  <2> QED
    BY <2>3, <2>4, <2>5
<1>2. CASE OutputLine
  <2>1. events' = Append(events, Line) /\ worker' = worker /\ UNCHANGED <<app, cancelled, history>>
    BY <1>2 DEF OutputLine, WorkerOnly
  <2>2. \A i \in DOMAIN events' : events'[i] = Line
    <3>1. events \in Seq(Event) /\ Line \in Event
      BY EventKinds DEF Types
    <3>2. \A i \in DOMAIN Append(events, Line) :
             \/ i \in DOMAIN events /\ Append(events, Line)[i] = events[i]
             \/ Append(events, Line)[i] = Line
      BY <3>1, AppendedIs
    <3> QED
      BY <2>1, <3>2 DEF Turns
  <2>3. task
    BY DEF Turns
  <2>4. Turns' /\ Screen' /\ Choice'
    BY <2>1, <2>2, <2>3 DEF Turns, Screen, Choice, app, history, Alive, Working
  <2> QED
    BY <2>4
<1>3. CASE SendFinal
  <2>1. worker' = Gone /\ UNCHANGED <<app, cancelled, history>>
        /\ (~cancelled => events' = Append(events, worker.event))
    BY <1>3 DEF SendFinal, WorkerOnly
  <2>2. ~Alive' /\ ~Working("send")'
    BY <2>1 DEF Alive, Working, Gone
  <2>3. task /\ (operating <=> worker.action # None)
    BY DEF Turns
  <2>4. worker.event \in Finals /\ (worker.event.type = "refreshed" <=> worker.action = None)
    BY <1>3 DEF SendFinal, Turns
  <2>5. life = "up" => events' # <<>> /\ Final' = worker.event
    <3> SUFFICES ASSUME life = "up"
                 PROVE  events' # <<>> /\ events'[Len(events')] = worker.event
      BY DEF Final
    <3>1. events' = Append(events, worker.event) /\ events \in Seq(Event) /\ worker.event \in Event
      BY <2>1, <2>4 DEF Turns, Types, Event
    <3>2. Len(events) \in Nat /\ Len(events') = Len(events) + 1
          /\ events'[Len(events) + 1] = worker.event
      BY <3>1, AppendProperties, LenProperties
    <3>3. events' # <<>>
      BY <3>2, EmptySeq
    <3> QED
      BY <3>2, <3>3
  <2>6. Turns'
    BY <2>1, <2>2, <2>3, <2>4, <2>5 DEF Turns, app
  <2>7. Screen' /\ Choice'
    BY <2>1, <2>2 DEF Screen, Choice, app, history
  <2> QED
    BY <2>6, <2>7
<1> QED
  BY <1>1, <1>2, <1>3 DEF Work

-----------------------------------------------------------------------------
(* Turns, Screen and Choice: App's steps. *)

\* A final event in the queue is of a worker that is gone.
LEMMA FinalOfTheGone ==
  ASSUME Types, Turns, life = "up", events # <<>>, Final # Line
  PROVE  task /\ ~Alive /\ Final \in Finals /\ (operating <=> Final.type # "refreshed")
<1>1. Len(events) \in DOMAIN events /\ Final = events[Len(events)]
  BY FinalIs
<1> QED
  BY <1>1 DEF Turns

LEMMA Spawned ==
  ASSUME NEW action \in Actions \cup {None}, NEW confirmed \in BOOLEAN, Spawn(action, confirmed)
  PROVE  /\ Alive' /\ Working("read")' /\ task' = TRUE /\ cancelled' = FALSE
         /\ worker'.action = action /\ worker'.confirmed = confirmed
BY DEF Spawn, Alive, Working

LEMMA TickTurns ==
  ASSUME Types, Turns, Screen, Choice, Tick
  PROVE  Turns' /\ Screen' /\ Choice'
<1>0. DOMAIN <<>> = {}
  OBVIOUS
<1>1. CASE TickLines
  <2>1. Alive \/ ~task
    BY <1>1, EventKinds DEF TickLines, Turns
  <2>2. events' = <<>> /\ UNCHANGED <<app, worker, cancelled, history>> /\ life = "up"
    BY <1>1 DEF TickLines
  <2> QED
    BY <1>0, <2>1, <2>2 DEF Turns, Screen, Choice, app, history, Alive, Working
<1>2. CASE TickRefreshed
  <2>1. Final # Line /\ life = "up"
    BY <1>2, EventKinds DEF TickRefreshed
  <2>2. task /\ ~Alive /\ ~operating
    BY <1>2, <2>1, FinalOfTheGone DEF TickRefreshed
  <2>3. events' = <<>> /\ queued' = None /\ UNCHANGED <<confirmation, life, history>>
    BY <1>2 DEF TickRefreshed
  <2>4. ~cancelled /\ confirmation = None
    BY <2>1, <2>2 DEF Turns, Screen
  <2>5. CASE queued = None \/ Final.snapshot = None
    <3>1. task' = FALSE /\ UNCHANGED <<operating, view, worker, cancelled>>
      BY <1>2, <2>5 DEF TickRefreshed
    <3> QED
      BY <1>0, <2>1, <2>2, <2>3, <2>4, <3>1
      DEF Turns, Screen, Choice, history, Alive, Working
  <2>6. CASE ~(queued = None \/ Final.snapshot = None)
    <3>1. operating' = TRUE /\ view' = "output" /\ Spawn(queued, FALSE)
      BY <1>2, <2>6 DEF TickRefreshed
    <3>2. /\ Alive' /\ Working("read")' /\ task' = TRUE /\ cancelled' = FALSE
          /\ worker'.action = queued /\ worker'.confirmed = FALSE
      BY <3>1, Spawned DEF Types
    <3> QED
      BY <1>0, <2>1, <2>3, <2>4, <2>6, <3>1, <3>2 DEF Turns, Screen, Choice, history, Working
  <2> QED
    BY <2>5, <2>6
<1>3. CASE TickConfirm \/ TickCompleted
  <2>1. Final # Line /\ life = "up" /\ Final.type # "refreshed"
    BY <1>3, EventKinds DEF TickConfirm, TickCompleted
  <2>2. task /\ ~Alive /\ operating
    BY <1>3, <2>1, FinalOfTheGone DEF TickConfirm, TickCompleted
  <2>3. events' = <<>> /\ task' = FALSE /\ operating' = FALSE
        /\ UNCHANGED <<worker, cancelled, life, queued>>
        /\ \/ confirmation' = [action |-> Final.action, yes |-> FALSE] /\ view' = "dashboard"
           \/ confirmation' = confirmation
    BY <1>3 DEF TickConfirm, TickCompleted
  <2>4. queued = None /\ confirmation = None
    BY <2>2 DEF Screen
  <2> QED
    BY <1>0, <2>1, <2>2, <2>3, <2>4 DEF Turns, Screen, Choice, Alive, Working
<1> QED
  BY <1>1, <1>2, <1>3 DEF Tick

LEMMA KeyTurns ==
  ASSUME Types, Turns, Screen, Choice,
         Refresh \/ Key \/ Exit \/ \E service \in Services : Change(service)
  PROVE  Turns' /\ Screen' /\ Choice'
<1>1. CASE Refresh
  <2>1. Spawn(None, FALSE) /\ ~task /\ life = "up" /\ confirmation = None
        /\ UNCHANGED <<view, confirmation, operating, queued, life, events, history>>
    BY <1>1 DEF Refresh, Dashboard
  <2>2. /\ Alive' /\ Working("read")' /\ task' = TRUE /\ cancelled' = FALSE
        /\ worker'.action = None /\ worker'.confirmed = FALSE
    BY <2>1, Spawned
  <2>3. ~operating /\ events = <<>> /\ queued = None
    BY <2>1 DEF Turns, Screen
  <2> QED
    BY <2>1, <2>2, <2>3 DEF Turns, Screen, Choice, history, Working
<1>2. ASSUME NEW action \in Single \cup Bulk, Press(action)
      PROVE  Turns' /\ Screen' /\ Choice'
  <2>1. Request(action, FALSE) /\ action \in Actions /\ view = "dashboard" /\ life = "up"
        /\ confirmation = None /\ UNCHANGED <<confirmation, life, events, moved>>
    BY <1>2 DEF Press, Dashboard, Actions
  <2>2. ~operating
    BY <2>1 DEF Screen
  <2>3. action # None
    BY <2>1, NoneIsNothing
  <2>4. CASE task
    <3>1. queued' = action /\ UNCHANGED <<operating, view, worker, task, cancelled>>
      BY <2>1, <2>2, <2>4 DEF Request
    <3> QED
      BY <2>1, <2>2, <2>3, <2>4, <3>1 DEF Turns, Screen, Choice, Alive, Working, Final
  <2>5. CASE ~task
    <3>1. operating' = TRUE /\ view' = "output" /\ Spawn(action, FALSE) /\ UNCHANGED queued
      BY <2>1, <2>2, <2>5 DEF Request
    <3>2. /\ Alive' /\ Working("read")' /\ task' = TRUE /\ cancelled' = FALSE
          /\ worker'.action = action /\ worker'.confirmed = FALSE
      BY <2>1, <3>1, Spawned
    <3>3. events = <<>> /\ queued = None
      BY <2>5 DEF Turns, Screen
    <3> QED
      BY <2>1, <2>3, <3>1, <3>2, <3>3 DEF Turns, Screen, Choice, Working
  <2> QED
    BY <2>4, <2>5
<1>3. CASE Accept
  <2>1. Request(confirmation.action, TRUE) /\ life = "up" /\ confirmation # None
        /\ confirmation.yes /\ confirmation' = None
        /\ agreed' = (IF moved THEN confirmation.action ELSE None)
        /\ UNCHANGED <<life, events, moved>>
    BY <1>3 DEF Accept
  <2>2. confirmation.action \in Actions /\ confirmation.action # None
    BY <2>1, NoneIsNothing DEF Types, Actions
  <2>3. ~task /\ ~operating /\ queued = None /\ moved /\ events = <<>>
    BY <2>1 DEF Turns, Screen, Choice
  <2>4. /\ operating' = TRUE /\ view' = "output" /\ Spawn(confirmation.action, TRUE)
        /\ UNCHANGED queued
    BY <2>1, <2>3 DEF Request
  <2>5. /\ Alive' /\ Working("read")' /\ task' = TRUE /\ cancelled' = FALSE
        /\ worker'.action = confirmation.action /\ worker'.confirmed = TRUE
    BY <2>2, <2>4, Spawned
  <2> QED
    BY <2>1, <2>2, <2>3, <2>4, <2>5 DEF Turns, Screen, Choice, Working
<1>4. CASE Toggle
  <2>1. moved' = TRUE /\ confirmation # None
        /\ UNCHANGED <<view, operating, queued, task, life, events, worker, cancelled, agreed>>
    BY <1>4 DEF Toggle
  <2> QED
    BY <2>1 DEF Turns, Screen, Choice, Alive, Working, Final
<1>5. CASE OpenLogs \/ Escape \/ Decline
  <2>1. UNCHANGED <<operating, queued, task, life, events, worker, cancelled, history>>
        /\ (operating => view' = view)
        /\ confirmation' = None
    BY <1>5 DEF OpenLogs, Escape, Decline, Dashboard, Screen
  <2> QED
    BY <2>1 DEF Turns, Screen, Choice, Alive, Working, Final, history
<1>6. CASE Quit
  <2>1. life' = "leaving" /\ cancelled' = TRUE
        /\ UNCHANGED <<view, confirmation, operating, queued, task, events, worker, history>>
    BY <1>6 DEF Quit
  <2> QED
    BY <2>1 DEF Turns, Screen, Choice, Alive, Working, history
<1>7. CASE Exit
  <2>1. life' = "over" /\ life = "leaving"
        /\ UNCHANGED <<view, confirmation, operating, queued, task, events, worker, cancelled, history>>
    BY <1>7 DEF Exit
  <2> QED
    BY <2>1 DEF Turns, Screen, Choice, Alive, Working, history
<1>8. ASSUME NEW service \in Services, Change(service)
      PROVE  Turns' /\ Screen' /\ Choice'
  <2>1. UNCHANGED <<app, events, cancelled, history>>
        /\ worker' = IF Working("gone") THEN worker ELSE [worker EXCEPT !.disturbed = TRUE]
    BY <1>8 DEF Change
  <2>2. worker'.at = worker.at /\ (Alive => worker'.action = worker.action
          /\ worker'.confirmed = worker.confirmed /\ worker'.event = worker.event)
    BY <2>1, WorkerIs DEF Workers, Alive
  <2>3. Alive' = Alive /\ Working("send")' = Working("send") /\ (Working("send") => Alive)
    BY <2>2 DEF Alive, Working
  <2>4. Screen'
    BY <2>1 DEF Screen, app
  <2>5. Turns'
    BY <2>1, <2>2, <2>3 DEF Turns, app, Final
  <2>6. Choice'
    BY <2>1, <2>2, <2>3 DEF Choice, app, history
  <2> QED
    BY <2>4, <2>5, <2>6
<1> QED
  BY <1>1, <1>2, <1>3, <1>4, <1>5, <1>6, <1>7, <1>8 DEF Key

-----------------------------------------------------------------------------
(* The plan and what it guarantees. *)

LEMMA HeadIs ==
  ASSUME Types, Alive, worker.steps # <<>>
  PROVE  /\ worker.steps \in Seq(PlanStep) /\ 1 \in DOMAIN worker.steps
         /\ Head(worker.steps) = worker.steps[1]
         /\ Head(worker.steps) \in PlanStep
         /\ Tail(worker.steps) \in Seq(PlanStep)
         /\ \A i \in DOMAIN Tail(worker.steps) :
               i \in Nat \ {0} /\ i + 1 \in DOMAIN worker.steps
                 /\ Tail(worker.steps)[i] = worker.steps[i + 1]
<1>1. worker.steps \in Seq(PlanStep)
  BY WorkerIs DEF Workers
<1>2. DOMAIN worker.steps = 1 .. Len(worker.steps) /\ Len(worker.steps) \in Nat \ {0}
  BY <1>1, LenProperties, EmptySeq
<1>3. DOMAIN Tail(worker.steps) = 1 .. Len(Tail(worker.steps))
      /\ Len(Tail(worker.steps)) \in Nat
  BY <1>1, TailOf, LenProperties
<1> QED
  BY <1>1, <1>2, <1>3, TailOf

\* A plan that does not stop its first service stops none.
LEMMA StopsNone ==
  ASSUME Types, Alive, OneKind(worker.steps), worker.steps # <<>>,
         Head(worker.steps).do # "stop", NEW seen
  PROVE  FrontendFirst(worker.steps, seen) /\ Head(worker.steps) # StopF
<1>1. \A i \in DOMAIN worker.steps : worker.steps[i].do # "stop"
  BY HeadIs DEF OneKind
<1> QED
  BY <1>1 DEF FrontendFirst, StopA, StopF, Step

LEMMA ReadPlan ==
  ASSUME Types, Alive /\ Plan, Kept, ReadSnapshot
  PROVE  Plan' /\ Kept'
<1>0. worker \in Workers /\ Working("read")
  BY WorkerIs DEF ReadSnapshot
<1> DEFINE action == worker.action
<1>1. ASSUME NEW event, Send(event)
      PROVE  Plan' /\ Kept'
  <2>1. /\ worker'.at = "send" /\ worker'.steps = worker.steps /\ worker'.action = worker.action
        /\ worker'.confirmed = worker.confirmed /\ worker'.disturbed = worker.disturbed
    BY <1>0, <1>1 DEF Workers, Send
  <2>2. running' = running
    BY DEF ReadSnapshot
  <2> QED
    BY <1>0, <2>1, <2>2 DEF Plan, Kept, Working
<1>2. CASE action = None
  BY <1>1, <1>2 DEF ReadSnapshot
<1>3. CASE action # None /\ Refused(action, running)
  <2>1. worker' = [worker EXCEPT !.at = "failed"] /\ running' = running
    BY <1>3 DEF ReadSnapshot
  <2>2. /\ worker'.at = "failed" /\ worker'.steps = worker.steps /\ worker'.action = worker.action
        /\ worker'.confirmed = worker.confirmed /\ worker'.disturbed = worker.disturbed
    BY <1>0, <2>1 DEF Workers
  <2> QED
    BY <1>0, <1>3, <2>1, <2>2 DEF Plan, Kept, Working
<1>4. CASE action # None /\ ~Refused(action, running)
  <2>1. action \in Actions /\ running \in SUBSET Services
    BY <1>0, <1>4 DEF Workers, Types
  <2>2. CASE Asks(action, running) /\ ~worker.confirmed
    <3>1. Send([type |-> "confirm", snapshot |-> running, action |-> action])
      BY <1>4, <2>2 DEF ReadSnapshot, Asks
    <3> QED
      BY <1>1, <3>1
  <2>3. CASE ~(Asks(action, running) /\ ~worker.confirmed) /\ Steps(action, running) = <<>>
    <3>1. Send(Completed(running))
      BY <1>4, <2>3 DEF ReadSnapshot
    <3> QED
      BY <1>1, <3>1
  <2>4. CASE ~(Asks(action, running) /\ ~worker.confirmed) /\ Steps(action, running) # <<>>
    <3>1. worker' = [worker EXCEPT !.at = "next", !.disturbed = FALSE,
                                   !.steps = Steps(action, running)]
          /\ running' = running
      BY <1>4, <2>4 DEF ReadSnapshot
    <3>2. /\ worker'.at = "next" /\ worker'.steps = Steps(action, running)
          /\ worker'.action = worker.action /\ worker'.confirmed = worker.confirmed
      BY <1>0, <3>1 DEF Workers
    <3>3. /\ OneKind(Steps(action, running)) /\ FrontendFirst(Steps(action, running), running)
          /\ ~Asks(action, running) /\ action.on # None => Only(Steps(action, running), action.on)
      BY <2>1, StepsAre
    <3> QED
      BY <1>4, <2>4, <3>1, <3>2, <3>3 DEF Plan, Kept, Working
  <2> QED
    BY <2>2, <2>3, <2>4
<1> QED
  BY <1>2, <1>3, <1>4

LEMMA WorkPlan ==
  ASSUME Types, Alive /\ Plan, Kept, Work \/ OutputLine \/ CommandHangs
  PROVE  Alive' => Plan' /\ Kept'
<1>0. worker \in Workers
  BY WorkerIs
<1>1. CASE ReadSnapshot
  BY <1>1, ReadPlan
<1>2. CASE ReadFails \/ Reread
  <2>1. /\ worker'.at \in {"send", "failed"} /\ worker'.steps = worker.steps
        /\ worker'.action = worker.action
        /\ worker'.confirmed = worker.confirmed /\ worker'.disturbed = worker.disturbed
        /\ worker'.at = "failed" => worker.action # None
    <3>1. CASE Reread
      BY <1>0, <3>1 DEF Reread, Send, Workers
    <3>2. CASE ReadFails
      <4>1. \/ \E event : Send(event)
            \/ /\ worker' = [worker EXCEPT !.at = "failed"]
               /\ ~(Working("read") /\ worker.action = None)
        BY <3>2 DEF ReadFails
      <4>2. worker.at # "send"
        BY <3>2 DEF ReadFails
      <4> QED
        BY <1>0, <4>1, <4>2 DEF Send, Workers, Plan, Working
    <3> QED
      BY <1>2, <3>1, <3>2
  <2>2. running' = running
    BY <1>2 DEF ReadFails, Reread
  <2> QED
    BY <2>1, <2>2 DEF Plan, Kept, Working
<1>3. CASE NextStep
  <2>1. /\ running' = running /\ worker.at = "next" /\ worker.action # None
    BY <1>3 DEF NextStep, Plan, Working
  <2>2. CASE worker.steps = <<>>
    <3>1. worker' = [worker EXCEPT !.at = "reread"]
      BY <1>3, <2>2 DEF NextStep
    <3>2. /\ worker'.at = "reread" /\ worker'.steps = worker.steps /\ worker'.action = worker.action
          /\ worker'.confirmed = worker.confirmed /\ worker'.disturbed = worker.disturbed
      BY <1>0, <3>1 DEF Workers
    <3> QED
      BY <2>1, <3>2 DEF Plan, Kept, Working
  <2>3. CASE worker.steps # <<>> /\ Head(worker.steps).service = "frontend"
               /\ Head(worker.steps).do # "stop"
    <3>1. worker' = [worker EXCEPT !.at = "check"]
      BY <1>3, <2>3 DEF NextStep
    <3>2. /\ worker'.at = "check" /\ worker'.steps = worker.steps /\ worker'.action = worker.action
          /\ worker'.confirmed = worker.confirmed /\ worker'.disturbed = worker.disturbed
      BY <1>0, <3>1 DEF Workers
    <3> QED
      BY <2>1, <2>3, <3>2 DEF Plan, Kept, Working
  <2>4. CASE worker.steps # <<>> /\ ~(Head(worker.steps).service = "frontend"
               /\ Head(worker.steps).do # "stop")
    <3>1. worker' = [worker EXCEPT !.at = "command"]
      BY <1>3, <2>4 DEF NextStep
    <3>2. /\ worker'.at = "command" /\ worker'.steps = worker.steps /\ worker'.action = worker.action
          /\ worker'.confirmed = worker.confirmed /\ worker'.disturbed = worker.disturbed
      BY <1>0, <3>1 DEF Workers
    <3> QED
      BY <2>1, <2>4, <3>2 DEF Plan, Kept, Working
  <2> QED
    BY <2>2, <2>3, <2>4
<1>4. CASE CheckAnalyzer
  <2>1. /\ running' = running /\ worker.at = "check" /\ worker.action # None
        /\ worker.steps # <<>> /\ Head(worker.steps).do # "stop"
    BY <1>4 DEF CheckAnalyzer, Plan, Kept, Working
  <2>2. /\ worker'.at \in {"command", "failed"} /\ worker'.steps = worker.steps
        /\ worker'.action = worker.action /\ worker'.confirmed = worker.confirmed
        /\ worker'.at = "command" => "analyzer" \in running
    BY <1>0, <1>4 DEF CheckAnalyzer, Workers
  <2>3. FrontendFirst(worker.steps, running)
    BY <2>1, StopsNone DEF Kept
  <2> QED
    BY <2>1, <2>2, <2>3 DEF Plan, Kept, Working
<1>5. CASE CommandFails \/ CommandHangs \/ KillHung
  <2>1. /\ running' = running /\ worker.action # None
    BY <1>5 DEF CommandFails, CommandHangs, KillHung, Plan, Working
  <2>2. /\ worker'.at \in {"failed", "hung"} /\ worker'.steps = worker.steps
        /\ worker'.action = worker.action
        /\ worker'.confirmed = worker.confirmed /\ worker'.disturbed = worker.disturbed
    BY <1>0, <1>5 DEF CommandFails, CommandHangs, KillHung, Workers
  <2> QED
    BY <2>1, <2>2 DEF Plan, Kept, Working
<1>6. CASE OutputLine
  BY <1>6 DEF OutputLine, Plan, Kept, Working
<1>7. CASE SendFinal
  BY <1>7 DEF SendFinal, Alive, Working, Gone
<1>8. CASE CommandActs
  <2>1. /\ worker.at \in {"command", "recreating"} /\ worker.action # None /\ worker.steps # <<>>
    BY <1>8 DEF CommandActs, Plan
  <2>2. /\ worker'.at \in {"recreating", "done"} /\ worker'.steps = worker.steps
        /\ worker'.action = worker.action
        /\ worker'.confirmed = worker.confirmed /\ worker'.disturbed = worker.disturbed
    BY <1>0, <1>8 DEF CommandActs, Workers
  <2>3. CASE Head(worker.steps).do = "stop"
    <3>1. running' = running \ {Head(worker.steps).service}
      BY <1>8, <2>3 DEF CommandActs
    <3>2. FrontendFirst(worker.steps, running) => FrontendFirst(worker.steps, running')
      BY <3>1 DEF FrontendFirst
    <3>3. Head(worker.steps) = StopF => "frontend" \notin running'
      BY <3>1 DEF StopF, Step
    <3> QED
      BY <2>1, <2>2, <3>2, <3>3 DEF Plan, Kept, Working
  <2>4. CASE Head(worker.steps).do # "stop"
    <3>1. FrontendFirst(worker.steps, running') /\ Head(worker.steps) # StopF
      BY <2>1, <2>4, StopsNone DEF Kept
    <3> QED
      BY <2>1, <2>2, <3>1 DEF Plan, Kept, Working
  <2> QED
    BY <2>3, <2>4
<1>9. CASE CommandEnds
  <2>1. /\ running' = running /\ worker.at = "done" /\ worker.action # None /\ worker.steps # <<>>
    BY <1>9 DEF CommandEnds, Plan, Working
  <2>2. /\ worker'.at = "next" /\ worker'.steps = Tail(worker.steps)
        /\ worker'.action = worker.action
        /\ worker'.confirmed = worker.confirmed /\ worker'.disturbed = worker.disturbed
    BY <1>0, <1>9 DEF CommandEnds, Workers
  <2> DEFINE rest == Tail(worker.steps)
  <2>3. \A i \in DOMAIN rest :
           i \in Nat \ {0} /\ i + 1 \in DOMAIN worker.steps /\ rest[i] = worker.steps[i + 1]
    BY <2>1, HeadIs
  <2> HIDE DEF rest
  <2>4. OneKind(rest) /\ (\A service : Only(worker.steps, service) => Only(rest, service))
    BY <2>3 DEF OneKind, Only, Kept
  <2>5. ASSUME FrontendFirst(worker.steps, running),
               Head(worker.steps) = StopF => "frontend" \notin running
        PROVE  FrontendFirst(rest, running)
    <3> SUFFICES ASSUME NEW i \in DOMAIN rest, rest[i] = StopA, "frontend" \in running
                 PROVE  \E j \in 1 .. (i - 1) : rest[j] = StopF
      BY DEF FrontendFirst
    <3>1. i \in Nat \ {0} /\ i + 1 \in DOMAIN worker.steps /\ worker.steps[i + 1] = StopA
      BY <2>3
    <3>2. PICK k \in 1 .. ((i + 1) - 1) : worker.steps[k] = StopF
      BY <2>5, <3>1 DEF FrontendFirst
    <3>3. k # 1
      <4>1. Head(worker.steps) = worker.steps[1]
        BY <2>1, HeadIs
      <4> QED
        BY <2>5, <3>2, <4>1
    <3>4. k - 1 \in 1 .. (i - 1)
      BY <3>1, <3>2, <3>3
    <3>5. k - 1 \in DOMAIN rest /\ rest[k - 1] = worker.steps[k]
      <4>1. /\ worker.steps \in Seq(PlanStep)
        BY <2>1, HeadIs
      <4>2. /\ rest \in Seq(PlanStep)
        BY <2>1, HeadIs DEF rest
      <4>3. DOMAIN rest = 1 .. Len(rest) /\ Len(rest) \in Nat
        BY <4>2, LenProperties
      <4>4. k - 1 \in DOMAIN rest
        BY <3>1, <3>4, <4>3
      <4>5. (k - 1) + 1 = k
        BY <3>1, <3>2
      <4> QED
        BY <2>3, <4>4, <4>5
    <3> QED
      BY <3>2, <3>4, <3>5
  <2>6. worker'.steps = rest
    BY <2>2 DEF rest
  <2> QED
    BY <2>1, <2>2, <2>4, <2>5, <2>6 DEF Plan, Kept, Working
<1> QED
  BY <1>1, <1>2, <1>3, <1>4, <1>5, <1>6, <1>7, <1>8, <1>9 DEF Work, Command

LEMMA AppPlan ==
  ASSUME Types, Screen, Alive => Plan /\ Kept,
         Tick \/ Refresh \/ Key \/ Exit \/ \E service \in Services : Change(service)
  PROVE  Alive' => Plan' /\ Kept'
<1>1. ASSUME NEW action \in Actions \cup {None}, NEW confirmed \in BOOLEAN, Spawn(action, confirmed)
      PROVE  Plan' /\ Kept'
  <2>1. worker'.at = "read" /\ worker'.steps = <<>> /\ DOMAIN <<>> = {}
    BY <1>1 DEF Spawn
  <2> QED
    BY <2>1 DEF Plan, Kept, Working, OneKind, FrontendFirst, Only
<1>2. ASSUME UNCHANGED <<running, worker>>
      PROVE  Alive' => Plan' /\ Kept'
  BY <1>2 DEF Plan, Kept, Alive, Working
<1>3. ASSUME NEW action \in Actions, NEW confirmed \in BOOLEAN, Request(action, confirmed),
             running' = running
      PROVE  Alive' => Plan' /\ Kept'
  <2>1. Spawn(action, confirmed) \/ worker' = worker
    BY <1>3 DEF Request
  <2> QED
    BY <1>1, <1>2, <1>3, <2>1
<1>4. CASE TickRefreshed
  <2>1. Spawn(queued, FALSE) \/ UNCHANGED <<running, worker>>
    BY <1>4 DEF TickRefreshed
  <2> QED
    BY <1>1, <1>2, <2>1 DEF Types
<1>5. CASE Refresh
  BY <1>1, <1>5 DEF Refresh
<1>6. ASSUME NEW action \in Single \cup Bulk, Press(action)
      PROVE  Alive' => Plan' /\ Kept'
  BY <1>3, <1>6 DEF Press, Actions
<1>7. CASE Accept
  <2>1. confirmation.action \in Actions /\ Request(confirmation.action, TRUE) /\ running' = running
    BY <1>7 DEF Accept, Types, Actions
  <2> QED
    BY <1>3, <2>1
<1>8. ASSUME NEW service \in Services, Change(service)
      PROVE  Alive' => Plan' /\ Kept'
  <2>1. CASE Working("gone")
    BY <1>8, <2>1 DEF Change, Alive, Working
  <2>2. CASE ~Working("gone")
    <3>1. /\ worker'.at = worker.at /\ worker'.steps = worker.steps /\ worker'.action = worker.action
          /\ worker'.confirmed = worker.confirmed /\ worker'.disturbed = TRUE
      BY <1>8, <2>2, WorkerIs DEF Change, Workers, Alive
    <3> QED
      BY <2>2, <3>1 DEF Plan, Kept, Working, Alive
  <2> QED
    BY <2>1, <2>2
<1> QED
  BY <1>2, <1>4, <1>5, <1>6, <1>7, <1>8
  DEF Tick, TickLines, TickConfirm, TickCompleted, Key, OpenLogs, Escape, Toggle, Decline, Quit, Exit

-----------------------------------------------------------------------------
(* The invariant, and what it gives. *)

LEMMA InitInv == Init => ControlInv
<1> SUFFICES ASSUME Init
             PROVE  ControlInv
  OBVIOUS
<1>0. <<>> \in Seq(Event) /\ <<>> \in Seq(PlanStep) /\ DOMAIN <<>> = {}
  BY EmptySeq
<1>1. worker \in Workers /\ Alive /\ worker.action = None /\ worker.at = "read"
      /\ worker.steps = <<>> /\ ~worker.confirmed
  BY <1>0, EventKinds DEF Init, Workers, Places, Alive, Working
<1>2. Types
  BY <1>0, <1>1 DEF Init, Types
<1>3. Turns /\ Screen /\ Choice
  BY <1>0, <1>1 DEF Init, Turns, Screen, Choice, Working
<1>4. Plan /\ Kept
  BY <1>0, <1>1 DEF Plan, Kept, Working, OneKind, FrontendFirst, Only
<1> QED
  BY <1>2, <1>3, <1>4 DEF ControlInv

LEMMA NextInv == ControlInv /\ [Next]_vars => ControlInv'
<1> SUFFICES ASSUME ControlInv, [Next]_vars
             PROVE  ControlInv'
  OBVIOUS
<1>0. Types /\ Turns /\ Screen /\ Choice /\ (Alive => Plan /\ Kept)
  BY DEF ControlInv
<1>1. CASE Work \/ OutputLine \/ CommandHangs
  <2>1. Alive /\ Plan /\ Kept
    BY <1>0, <1>1, WorkAlive
  <2>2. Types'
    BY <1>0, <1>1, <2>1, WorkTypes
  <2>3. Turns' /\ Screen' /\ Choice'
    BY <1>0, <1>1, <2>1, WorkTurns
  <2>4. Alive' => Plan' /\ Kept'
    BY <1>0, <1>1, <2>1, WorkPlan
  <2> QED
    BY <2>2, <2>3, <2>4 DEF ControlInv
<1>2. CASE Tick \/ Refresh \/ Key \/ Exit \/ \E service \in Services : Change(service)
  <2>1. Types'
    BY <1>0, <1>2, AppTypes
  <2>2. Turns' /\ Screen' /\ Choice'
    BY <1>0, <1>2, TickTurns, KeyTurns
  <2>3. Alive' => Plan' /\ Kept'
    BY <1>0, <1>2, AppPlan
  <2> QED
    BY <2>1, <2>2, <2>3 DEF ControlInv
<1>3. CASE UNCHANGED vars
  BY <1>0, <1>3 DEF vars, app, history, ControlInv, Types, Turns, Screen, Choice, Plan, Kept, Alive,
                    Working, Final
<1> QED
  BY <1>1, <1>2, <1>3 DEF Next

LEMMA Always == Spec => []ControlInv
BY InitInv, NextInv, PTL DEF Spec

\* No command for a service other than the chosen one runs unless the user moved
\* that very dialog to Yes and accepted it (Dialog and request of app.rs): a worker
\* that was not confirmed has a plan about the chosen service only.
THEOREM ConsentGiven == Spec => []Consented
<1>1. ControlInv => Consented
  <2> SUFFICES ASSUME ControlInv, Acting, worker.action.on # None,
                      Head(worker.steps).service # worker.action.on
               PROVE  agreed = worker.action
    BY DEF Consented
  <2>1. Alive
    BY DEF Acting, Alive, Working
  <2>2. Types /\ Choice /\ Plan
    BY <2>1 DEF ControlInv
  <2>3. worker.action # None
    BY <2>2 DEF Acting, Plan
  <2>4. 1 \in DOMAIN worker.steps /\ Head(worker.steps) = worker.steps[1]
    BY <2>1, <2>2, HeadIs DEF Acting
  <2>5. ~Only(worker.steps, worker.action.on)
    BY <2>4 DEF Only
  <2> QED
    BY <2>1, <2>2, <2>3, <2>5 DEF Plan, Choice
<1> QED
  BY <1>1, Always, PTL

\* As long as nobody interferes, the plan as a whole keeps the analyzer running
\* under the frontend (Snapshot::plan and the check of execute): by what is left of
\* the plan in every place of its execution.
THEOREM DependencyHolds == Spec => []DependencyKept
<1>1. ControlInv => DependencyKept
  <2> SUFFICES ASSUME ControlInv, Working("command"), ~worker.disturbed
               PROVE  LET step == Head(worker.steps)
                      IN  /\ step = Step("analyzer", "stop") => "frontend" \notin running
                          /\ step.service = "frontend" /\ step.do # "stop" => "analyzer" \in running
    BY DEF DependencyKept
  <2>1. Alive
    BY DEF Alive, Working
  <2>2. Types /\ Plan /\ Kept
    BY <2>1 DEF ControlInv
  <2>3. worker.steps # <<>>
    BY <2>2 DEF Plan, Working
  <2>4. 1 \in DOMAIN worker.steps /\ Head(worker.steps) = worker.steps[1]
    BY <2>1, <2>2, <2>3, HeadIs
  <2>5. Head(worker.steps) = StopA => "frontend" \notin running
    <3>1. 1 .. (1 - 1) = {}
      OBVIOUS
    <3>2. FrontendFirst(worker.steps, running)
      BY <2>2 DEF Kept
    <3> QED
      BY <2>4, <3>1, <3>2 DEF FrontendFirst
  <2> QED
    BY <2>2, <2>5 DEF Kept, StopA
<1> QED
  BY <1>1, Always, PTL

\* Operations, refreshes, dialogs and queued actions exclude each other on the
\* screen, and a worker that is gone has left its final event (request and tick of
\* app.rs; send_final of docker.rs).
THEOREM OneOperation == Spec => []OneAtATime
<1>1. ControlInv => OneAtATime
  BY EventKinds DEF ControlInv, Turns, Screen, OneAtATime, Alive
<1> QED
  BY <1>1, Always, PTL
=============================================================================
