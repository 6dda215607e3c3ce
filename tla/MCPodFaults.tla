---------------------------- MODULE MCPodFaults ----------------------------
(* Counts for TerminatePods: none, one, more than there are, a negative one, *)
(* and percentages of two pods that are rounded to one and to two.           *)
EXTENDS PodFaults

PodCounts == {<<"int", -1>>, <<"int", 0>>, <<"int", 1>>, <<"int", 3>>,
              <<"percent", 0>>, <<"percent", 10>>, <<"percent", 80>>}
=============================================================================
