--------------------------- MODULE MCStreamFlush ---------------------------
(* StreamFlush for TLC: two edges into one target and one into another. *)
EXTENDS StreamFlush

MCEdges == {<<1, 10>>, <<2, 10>>, <<1, 20>>}
=============================================================================
