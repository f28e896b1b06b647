--------------------------- MODULE MCSurvivalLoop ---------------------------
(* Settings for SurvivalLoop: a durable Responses request, a Chat request     *)
(* with a longer window, a Chat request under L2 whose prefix outgrows the    *)
(* cache's window, a durable one that accepts half of the prefix, and one     *)
(* whose bridge renders without latching.                                     *)
EXTENDS SurvivalLoop

Responses ==
  [holdback |-> 1, l2 |-> FALSE, threshold |-> 9000, window |-> 8, durable |-> TRUE,
   doneLatched |-> TRUE, renders |-> {"none", "latched"}, units |-> 3]

Chat == [Responses EXCEPT !.holdback = 2, !.durable = FALSE, !.doneLatched = FALSE]

Replayed ==
  [Chat EXCEPT !.holdback = 1, !.l2 = TRUE, !.threshold = 10000, !.window = 2,
               !.renders = {"none"}, !.units = 4]

Unlatched == [Responses EXCEPT !.durable = FALSE, !.renders = {"unlatched"}]

DurableReplay == [Replayed EXCEPT !.threshold = 5000, !.durable = TRUE, !.window = 8]

AllSettings == {Responses, Chat, Replayed, DurableReplay}

UnlatchedOnly == {Unlatched}
=============================================================================
