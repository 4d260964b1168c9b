--------------------------- MODULE MCCollectorLink ---------------------------
(* Edits of the Sources and what goes wrong meanwhile. *)
EXTENDS CollectorLink
OneEdit == <<{}, {"web"}>>
\* A Source is created, then a second one replaces it.
TwoEdits == <<{}, {"web"}, {"ssh"}>>

Faultless == [edits |-> 1, packets |-> 0, faults |-> 0, torn |-> {}, cancels |-> FALSE]
Edited == [Faultless EXCEPT !.edits = 2, !.packets = 1]

\* Two edits and a packet with one fault at any moment, with the handlers dropped,
\* or with reads torn that then hang; one edit with a fault and torn reads of which
\* the connection ends, and with a packet on its way through torn reads.
All == {[Edited EXCEPT !.faults = 1],
        [Edited EXCEPT !.cancels = TRUE],
        [Edited EXCEPT !.torn = {"starved"}],
        [Faultless EXCEPT !.faults = 1, !.torn = {"lost"}],
        [Faultless EXCEPT !.packets = 1, !.torn = {"lost", "starved"}]}
Tears == {[Faultless EXCEPT !.torn = {"lost"}]}
=============================================================================
