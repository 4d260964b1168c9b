---------------------------- MODULE MCFlowWorker ----------------------------
(* Conversations for FlowWorker, and the scenarios they take place in. *)
EXTENDS FlowWorker
CONSTANTS k1, k2
T(kind, of) == [kind |-> kind, of |-> of]
Talk(c2s, s2c, fastOpen) == [c2s |-> c2s, s2c |-> s2c, fastOpen |-> fastOpen, ends |-> TRUE]
StaysOpen(talk) == [talk EXCEPT !.ends = FALSE]

Pipeline == Talk(<<T("request", 1), T("request", 2)>>, <<T("response", 1), T("response", 2)>>, FALSE)
One == Talk(<<T("request", 1)>>, <<T("response", 1)>>, FALSE)
FastOpen == Talk(<<T("request", 1)>>, <<T("response", 1)>>, TRUE)
Split == Talk(<<T("line", 1), T("head", 1)>>, <<T("response", 1)>>, FALSE)
Closing == Talk(<<T("request", 1)>>, <<T("closing", 1), T("bytes", 1)>>, FALSE)
Upgrade == Talk(<<T("upgrade", 1), T("bytes", 1)>>, <<T("switch", 1), T("bytes", 1)>>, FALSE)
Foreign == Talk(<<T("garbage", 1), T("bytes", 1)>>, <<T("bytes", 1)>>, FALSE)
Binary == Talk(<<T("bytes", 1), T("bytes", 1)>>, <<T("bytes", 1)>>, FALSE)

Long == Talk(<<T("bytes", 1), T("bytes", 1), T("bytes", 1)>>, <<T("bytes", 1)>>, FALSE)

Shapes == {Pipeline, FastOpen, Split, Closing, Upgrade, Foreign, Binary, Long}
Reused == {One, Binary}
Awaiting == {Pipeline, Closing, FastOpen, Foreign}
Lasting == {StaysOpen(One), StaysOpen(Talk(<<T("bytes", 1)>>, <<>>, FALSE))}

Quiet == [keys |-> {k1}, scripts |-> Shapes, bases |-> {<<0>>}, copies |-> 0, resets |-> FALSE,
          missable |-> {}, idling |-> FALSE, maxFlows |-> 1]

\* One connection: packets lost, repeated and reordered, SYNs missed, resets.
Single == [Quiet EXCEPT !.copies = 2, !.resets = TRUE, !.missable = Directions]
\* Two in turn on a tuple, numbered upwards or downwards; client SYNs are seen.
InTurn == [Quiet EXCEPT !.scripts = Reused, !.bases = {<<0, 10>>, <<0, -10>>}, !.copies = 1,
                        !.resets = TRUE, !.missable = {"s2c"}]
\* Timeouts in the middle of a connection, with room for another flow.
Pausing == [Quiet EXCEPT !.scripts = Awaiting, !.missable = Directions, !.idling = TRUE,
                         !.maxFlows = 2]
\* Two tuples and a table of one flow; no connection ever closes.
Crowded == [Quiet EXCEPT !.keys = {k1, k2}, !.scripts = Lasting, !.missable = {"c2s"},
                         !.idling = TRUE]
MCScenarios == {Single, InTurn, Pausing, Crowded}

\* Two in turn on a tuple, and the capture may lose client SYNs too.
Unseen == {[InTurn EXCEPT !.missable = Directions, !.resets = FALSE]}
=============================================================================
