------------------------------- MODULE Control -------------------------------
(***************************************************************************)
(* newhatchctl: a terminal program around docker compose (app.rs, model.rs,*)
(* docker.rs, process.rs of newhatchctl-src).                              *)
(*                                                                         *)
(* The user interface is one thread, App: it handles a key or, in tick,    *)
(* the events its worker has sent.  There is at most one worker, a thread  *)
(* that runs docker: a refresh, or a request for an action, for which it   *)
(* reads the state of the containers, plans, asks or executes the plan     *)
(* step by step, and ends with one final event.  The queue between them is *)
(* bounded: the lines of a command are dropped when it is full, the final  *)
(* event is offered again until it fits or the task is cancelled.          *)
(*                                                                         *)
(* A container counts as running or not.  Others start, stop and crash     *)
(* containers as well; commands fail, time out, or do not end.             *)
(***************************************************************************)
EXTENDS Integers, Sequences, FiniteSets

CONSTANTS
  QueueSize,   \* 256 events
  Scenarios,   \* what may happen: whether commands may hang; bounds: keys that
               \* act, changes by others, failures
  None

Services == {"collector", "analyzer", "frontend"}

\* Action of model.rs; on is None for the two bulk actions.
Single == [do : {"start", "restart", "stop"}, on : Services]
Bulk == [do : {"restart", "stop"}, on : {None}]

ASSUME ControlAssumption ==
  /\ QueueSize \in Nat \ {0} /\ None \notin Services \cup Single \cup Bulk
  /\ Scenarios \subseteq [hangs : BOOLEAN, keys : Nat, changes : Nat, failures : Nat]

VARIABLES
  running,      \* the services whose container runs
  \* App
  snapshot,     \* what the dashboard shows of it: a set of services or None
  view,         \* "dashboard", "logs" or "output"
  logs,         \* the log-reading CLI is there
  confirmation, \* the dialog: [action, yes], or None
  operating, queued,
  task,         \* a worker has been started and its final event not handled
  life,         \* "up", "leaving" (App is dropped, its task joined) or "over"
  events,
  worker,       \* the thread: where it stands, what it works on
  cancelled,    \* its AtomicBool
  agreed,       \* history: the action the user has moved to Yes for, and accepted
  moved,        \* history: the user has moved the choice of this dialog
  scenario, keys, changes, failures

app == <<snapshot, view, logs, confirmation, operating, queued, task, life>>
history == <<agreed, moved>>
bounds == <<scenario, keys, changes, failures>>
vars == <<running, app, events, worker, cancelled, history, bounds>>

Gone == [at |-> "gone"]
Line == [type |-> "line"]

Init ==
  /\ running \in SUBSET Services
  /\ snapshot = None /\ view = "dashboard" /\ logs = FALSE /\ confirmation = None
  /\ operating = FALSE /\ queued = None
  /\ task = TRUE /\ life = "up" /\ events = <<>>
  /\ worker = [at |-> "read", action |-> None, confirmed |-> FALSE,
               steps |-> <<>>, disturbed |-> FALSE, event |-> Line]
  /\ cancelled = FALSE /\ agreed = None /\ moved = FALSE
  /\ scenario \in Scenarios /\ keys = 0 /\ changes = 0 /\ failures = 0

-----------------------------------------------------------------------------
(* Snapshot::plan *)

Step(service, do) == [service |-> service, do |-> do]

\* A step for each of three services that runs, in their order.
IfSeen(service, seen, do) == IF service \in seen THEN <<Step(service, do)>> ELSE <<>>
Ordered(services, seen, do) ==
  IfSeen(services[1], seen, do) \o IfSeen(services[2], seen, do) \o IfSeen(services[3], seen, do)

\* The service that has to be started or stopped before, if any.
Dependency(action, seen) ==
  CASE action.do \in {"start", "restart"} /\ action.on = "frontend" /\ "analyzer" \notin seen ->
         <<Step("analyzer", "start")>>
    [] action.do = "stop" /\ action.on = "analyzer" /\ "frontend" \in seen ->
         <<Step("frontend", "stop")>>
    [] OTHER -> <<>>

\* Slip: a bulk stop goes through the services in the order of a restart.
BulkStepsOneOrder(action, seen) ==
  Ordered(<<"analyzer", "collector", "frontend">>, seen, action.do)

BulkSteps(action, seen) ==
  Ordered(IF action.do = "restart" THEN <<"analyzer", "collector", "frontend">>
          ELSE <<"frontend", "analyzer", "collector">>, seen, action.do)

\* <<>>: nothing to do.
Steps(action, seen) ==
  IF action.on = None THEN BulkSteps(action, seen)
  ELSE IF (action.do = "start") = (action.on \in seen) THEN <<>>
  ELSE Append(Dependency(action, seen), Step(action.on, action.do))

Asks(action, seen) ==
  action.on # None /\ Steps(action, seen) # <<>> /\ Dependency(action, seen) # <<>>

Refused(action, seen) ==
  action.on = None /\ action.do = "restart" /\ "frontend" \in seen /\ "analyzer" \notin seen

-----------------------------------------------------------------------------
(* The worker. *)

Working(at) == worker.at = at
WorkerOnly == UNCHANGED <<app, cancelled, history>>
Send(event) == worker' = [worker EXCEPT !.at = "send", !.event = event]
Completed(seen) == [type |-> "completed", snapshot |-> seen]

\* Docker::snapshot, of a refresh, of a request, after its execution or its failure.
Fails == failures < scenario.failures /\ failures' = failures + 1
Reads == ~cancelled /\ UNCHANGED failures

ReadFails ==
  /\ worker.at \in {"read", "reread", "failed"}
  /\ (cancelled /\ UNCHANGED failures) \/ Fails
  /\ CASE Working("read") /\ worker.action = None -> Send([type |-> "refreshed", snapshot |-> None])
       [] Working("failed") -> Send(Completed(None))
       [] OTHER -> worker' = [worker EXCEPT !.at = "failed"]
  /\ WorkerOnly /\ UNCHANGED <<running, events, scenario, keys, changes>>

ReadSnapshot ==
  /\ Working("read") /\ Reads
  /\ LET action == worker.action
     IN  CASE action = None -> Send([type |-> "refreshed", snapshot |-> running])
           [] action # None /\ Refused(action, running) -> worker' = [worker EXCEPT !.at = "failed"]
           [] action # None /\ ~Refused(action, running) ->
                CASE Asks(action, running) /\ ~worker.confirmed ->
                       Send([type |-> "confirm", snapshot |-> running, action |-> action])
                  [] Steps(action, running) = <<>> -> Send(Completed(running))
                  [] OTHER -> worker' = [worker EXCEPT !.at = "next", !.disturbed = FALSE,
                                                       !.steps = Steps(action, running)]
  /\ WorkerOnly /\ UNCHANGED <<running, events, scenario, keys, changes>>

Reread ==
  /\ worker.at \in {"reread", "failed"} /\ Reads
  /\ Send(Completed(running))
  /\ WorkerOnly /\ UNCHANGED <<running, events, scenario, keys, changes>>

NextStep ==
  /\ Working("next")
  /\ worker' = [worker EXCEPT !.at =
       CASE worker.steps = <<>> -> "reread"
         [] worker.steps # <<>> /\ Head(worker.steps).service = "frontend"
              /\ Head(worker.steps).do # "stop" -> "check"
         [] OTHER -> "command"]
  /\ WorkerOnly /\ UNCHANGED <<running, events, bounds>>

\* compose ps analyzer, before the frontend is started.  If it fails or times
\* out the operation fails as it does when there is no analyzer.
CheckAnalyzer ==
  /\ Working("check")
  /\ worker' = [worker EXCEPT !.at = IF ~cancelled /\ "analyzer" \in running THEN "command"
                                     ELSE "failed", !.disturbed = FALSE]
  /\ WorkerOnly /\ UNCHANGED <<running, events, bounds>>

\* A line of output, in the queue or dropped.
OutputLine ==
  /\ worker.at \in {"command", "recreating", "done"} /\ ~cancelled
  /\ Len(events) < QueueSize
  /\ events' = Append(events, Line)
  /\ WorkerOnly /\ UNCHANGED <<running, worker, bounds>>

\* What the daemon does for the command; a recreation stops the container first.
CommandActs ==
  LET step == Head(worker.steps)
  IN  /\ worker.at \in {"command", "recreating"} /\ ~cancelled
      /\ IF step.do = "stop" \/ (step.do = "restart" /\ Working("command"))
         THEN running' = running \ {step.service} ELSE running' = running \cup {step.service}
      /\ worker' = [worker EXCEPT !.at = IF step.do = "restart" /\ Working("command")
                                         THEN "recreating" ELSE "done"]
      /\ WorkerOnly /\ UNCHANGED <<events, bounds>>

\* Slip: the exit status is not looked at.
CommandFailsUnseen ==
  /\ worker.at \in {"command", "recreating", "done"}
  /\ \/ cancelled /\ UNCHANGED failures /\ worker' = [worker EXCEPT !.at = "failed"]
     \/ Fails /\ worker' = [worker EXCEPT !.at = "next", !.steps = Tail(@)]
  /\ WorkerOnly /\ UNCHANGED <<running, events, scenario, keys, changes>>

\* Stream::execute: cancelled, or a status that is not success.
CommandFails ==
  /\ worker.at \in {"command", "recreating", "done"}
  /\ (cancelled /\ UNCHANGED failures) \/ Fails
  /\ worker' = [worker EXCEPT !.at = "failed"]
  /\ WorkerOnly /\ UNCHANGED <<running, events, scenario, keys, changes>>

CommandEnds ==
  /\ Working("done")
  /\ worker' = [worker EXCEPT !.at = "next", !.steps = Tail(@)]
  /\ WorkerOnly /\ UNCHANGED <<running, events, bounds>>

CommandHangs ==
  /\ scenario.hangs /\ worker.at \in {"command", "recreating", "done"}
  /\ worker' = [worker EXCEPT !.at = "hung"]
  /\ WorkerOnly /\ UNCHANGED <<running, events, bounds>>

\* The client is killed when the task is cancelled.
KillHung ==
  /\ Working("hung") /\ cancelled
  /\ worker' = [worker EXCEPT !.at = "failed"]
  /\ WorkerOnly /\ UNCHANGED <<running, events, bounds>>

\* Slip: a full queue drops the final event as it drops lines.
SendFinalOnce ==
  /\ Working("send")
  /\ worker' = Gone
  /\ events' = IF ~cancelled /\ Len(events) < QueueSize THEN Append(events, worker.event) ELSE events
  /\ WorkerOnly /\ UNCHANGED <<running, bounds>>

\* Slip: the final event is offered until it fits.
SendFinalBlocking ==
  /\ Working("send")
  /\ Len(events) < QueueSize /\ worker' = Gone /\ events' = Append(events, worker.event)
  /\ WorkerOnly /\ UNCHANGED <<running, bounds>>

SendFinal ==
  /\ Working("send")
  /\ \/ cancelled /\ worker' = Gone /\ UNCHANGED events
     \/ ~cancelled /\ Len(events) < QueueSize
        /\ worker' = Gone /\ events' = Append(events, worker.event)
  /\ WorkerOnly /\ UNCHANGED <<running, bounds>>

-----------------------------------------------------------------------------
(* App. *)

Spawn(action, confirmed) ==
  /\ worker' = [at |-> "read", action |-> action, confirmed |-> confirmed,
                steps |-> <<>>, disturbed |-> FALSE, event |-> Line]
  /\ task' = TRUE /\ cancelled' = FALSE

\* request: queued behind a refresh, refused during an operation.
Request(action, confirmed) ==
  IF operating THEN UNCHANGED <<operating, view, queued, worker, task, cancelled>>
  ELSE IF task THEN queued' = action /\ UNCHANGED <<operating, view, worker, task, cancelled>>
  ELSE /\ operating' = TRUE /\ view' = "output" /\ Spawn(action, confirmed)
       /\ UNCHANGED queued

Final == events[Len(events)]

\* A worker's final event is its last, and there is no other worker before it
\* is handled, so a batch of events has at most one, at its end.
TickLines ==
  /\ life = "up" /\ events # <<>> /\ Final = Line
  /\ events' = <<>>
  /\ UNCHANGED <<running, app, worker, cancelled, history, bounds>>

\* Slip: what waited for the refresh is not asked about any more.
TickRefreshedConfirmed ==
  /\ life = "up" /\ events # <<>> /\ Final.type = "refreshed"
  /\ events' = <<>> /\ snapshot' = Final.snapshot
  /\ queued' = None
  /\ IF queued = None \/ Final.snapshot = None
     THEN task' = FALSE /\ UNCHANGED <<operating, view, worker, cancelled>>
     ELSE operating' = TRUE /\ view' = "output" /\ Spawn(queued, TRUE)
  /\ UNCHANGED <<running, logs, confirmation, life, history, bounds>>

TickRefreshed ==
  /\ life = "up" /\ events # <<>> /\ Final.type = "refreshed"
  /\ events' = <<>> /\ snapshot' = Final.snapshot
  /\ queued' = None
  /\ IF queued = None \/ Final.snapshot = None
     THEN task' = FALSE /\ UNCHANGED <<operating, view, worker, cancelled>>
     ELSE operating' = TRUE /\ view' = "output" /\ Spawn(queued, FALSE)
  /\ UNCHANGED <<running, logs, confirmation, life, history, bounds>>

\* Slip: the dialog comes up with Yes.
TickConfirmYes ==
  /\ life = "up" /\ events # <<>> /\ Final.type = "confirm"
  /\ events' = <<>> /\ snapshot' = Final.snapshot
  /\ task' = FALSE /\ operating' = FALSE /\ view' = "dashboard"
  /\ confirmation' = [action |-> Final.action, yes |-> TRUE]
  /\ moved' = FALSE
  /\ UNCHANGED <<running, logs, queued, life, worker, cancelled, agreed, bounds>>

TickConfirm ==
  /\ life = "up" /\ events # <<>> /\ Final.type = "confirm"
  /\ events' = <<>> /\ snapshot' = Final.snapshot
  /\ task' = FALSE /\ operating' = FALSE /\ view' = "dashboard"
  /\ confirmation' = [action |-> Final.action, yes |-> FALSE]
  /\ moved' = FALSE
  /\ UNCHANGED <<running, logs, queued, life, worker, cancelled, agreed, bounds>>

TickCompleted ==
  /\ life = "up" /\ events # <<>> /\ Final.type = "completed"
  /\ events' = <<>> /\ snapshot' = Final.snapshot
  /\ task' = FALSE /\ operating' = FALSE
  /\ UNCHANGED <<running, view, logs, confirmation, queued, life, worker, cancelled, history, bounds>>

Dashboard == life = "up" /\ view = "dashboard" /\ confirmation = None

\* Every two seconds, and on F5.
Refresh ==
  /\ Dashboard /\ ~task
  /\ Spawn(None, FALSE)
  /\ UNCHANGED <<running, snapshot, view, logs, confirmation, operating, queued, life,
                 events, history, bounds>>

Offered(action) ==
  \/ action \in Bulk
  \/ action \in Single /\ snapshot # None /\ ~operating
     /\ (action.do = "start") = (action.on \notin snapshot)

Press(action) ==
  /\ Dashboard /\ Offered(action)
  /\ keys < scenario.keys /\ keys' = keys + 1
  /\ Request(action, FALSE)
  /\ agreed' = None
  /\ UNCHANGED <<running, snapshot, logs, confirmation, life, events, moved, scenario,
                 changes, failures>>

OpenLogs ==
  /\ Dashboard /\ snapshot # None /\ ~operating
  /\ view' = "logs" /\ logs' = TRUE
  /\ UNCHANGED <<running, snapshot, confirmation, operating, queued, task, life, events,
                 worker, cancelled, history, bounds>>

Escape ==
  /\ life = "up" /\ confirmation = None /\ view # "dashboard" /\ ~operating
  /\ view' = "dashboard" /\ logs' = FALSE
  /\ UNCHANGED <<running, snapshot, confirmation, operating, queued, task, life, events,
                 worker, cancelled, history, bounds>>

Toggle ==
  /\ life = "up" /\ confirmation # None
  /\ confirmation' = [confirmation EXCEPT !.yes = ~@] /\ moved' = TRUE
  /\ UNCHANGED <<running, snapshot, view, logs, operating, queued, task, life, events,
                 worker, cancelled, agreed, bounds>>

Accept ==
  /\ life = "up" /\ confirmation # None /\ confirmation.yes
  /\ agreed' = IF moved THEN confirmation.action ELSE None
  /\ confirmation' = None
  /\ Request(confirmation.action, TRUE)
  /\ UNCHANGED <<running, snapshot, logs, life, events, moved, bounds>>

\* Escape, n, or Enter on No.
Decline ==
  /\ life = "up" /\ confirmation # None
  /\ confirmation' = None
  /\ UNCHANGED <<running, snapshot, view, logs, operating, queued, task, life, events,
                 worker, cancelled, history, bounds>>

\* q, unless there is a dialog; Ctrl+C.  Dropping the task cancels it.
Quit ==
  /\ life = "up"
  /\ life' = "leaving" /\ cancelled' = TRUE
  /\ UNCHANGED <<running, snapshot, view, logs, confirmation, operating, queued, task,
                 events, worker, history, bounds>>

\* The thread has been joined.
Exit ==
  /\ life = "leaving" /\ Working("gone")
  /\ life' = "over"
  /\ UNCHANGED <<running, snapshot, view, logs, confirmation, operating, queued, task,
                 events, worker, cancelled, history, bounds>>

\* A container crashes, or somebody else starts or stops one.
Change(service) ==
  /\ changes < scenario.changes /\ changes' = changes + 1
  /\ running' = IF service \in running THEN running \ {service} ELSE running \cup {service}
  /\ worker' = IF Working("gone") THEN worker ELSE [worker EXCEPT !.disturbed = TRUE]
  /\ UNCHANGED <<app, events, cancelled, history, scenario, keys, failures>>

-----------------------------------------------------------------------------
Command == CommandActs \/ CommandFails \/ CommandEnds

Work ==
  \/ ReadSnapshot \/ ReadFails \/ Reread \/ NextStep \/ CheckAnalyzer
  \/ Command \/ KillHung \/ SendFinal

Tick == TickLines \/ TickRefreshed \/ TickConfirm \/ TickCompleted

Key ==
  \/ \E action \in Single \cup Bulk : Press(action)
  \/ OpenLogs \/ Escape \/ Toggle \/ Accept \/ Decline \/ Quit

Next ==
  \/ Work \/ OutputLine \/ CommandHangs \/ Tick \/ Refresh \/ Key \/ Exit
  \/ \E service \in Services : Change(service)

(* The worker's thread runs, a command ends unless it hangs, and run calls *)
(* tick at least every 100 ms and on every key.  Nobody has to press one.  *)
Fairness == WF_vars(Work) /\ WF_vars(Tick) /\ WF_vars(Exit)

Spec == Init /\ [][Next]_vars
FairSpec == Spec /\ Fairness

-----------------------------------------------------------------------------
Acting == worker.at \in {"command", "recreating", "done"} /\ worker.steps # <<>>

(* A command for another service than the one the user has chosen runs     *)
(* only when the user has moved that very dialog to Yes and accepted it: a *)
(* repeated Enter, an action that waited for a refresh, or a dialog for    *)
(* an earlier action, does not.                                            *)
Consented ==
  Acting /\ worker.action.on # None /\ Head(worker.steps).service # worker.action.on
    => agreed = worker.action

(* As long as nobody else interferes, the analyzer is not stopped under a  *)
(* running frontend, nor the frontend started without an analyzer.         *)
DependencyKept ==
  Working("command") /\ ~worker.disturbed =>
    LET step == Head(worker.steps)
    IN  /\ step = Step("analyzer", "stop") => "frontend" \notin running
        /\ step.service = "frontend" /\ step.do # "stop" => "analyzer" \in running

(* The dialog belongs to a dashboard at rest, and an operation has the     *)
(* screen until its final event, whichever keys and events met before.     *)
OneAtATime ==
  /\ operating => task /\ view = "output" /\ confirmation = None /\ queued = None
  /\ confirmation # None => ~task /\ view = "dashboard" /\ queued = None
  /\ task /\ Working("gone") /\ life = "up" => events # <<>> /\ Final # Line

(* An operation whose commands end comes to its end on the screen too, or  *)
(* the program does: the final event gets past a queue full of output.     *)
Settles == (operating /\ ~scenario.hangs) ~> (~operating \/ life = "over")

(* Whatever docker does, the program ends when it is asked to.             *)
Leaves == (life = "leaving") ~> (life = "over")
=============================================================================
