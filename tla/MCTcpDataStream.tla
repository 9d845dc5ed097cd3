--------------------------- MODULE MCTcpDataStream ---------------------------
(* A stream of six bytes in segments of one to three bytes, some of which
   overlap or lie inside another; the numbers wrap after the last one. *)
EXTENDS TcpDataStream

Wire == {[position |-> 0, length |-> 1], [position |-> 0, length |-> 3],
         [position |-> 1, length |-> 1], [position |-> 1, length |-> 2],
         [position |-> 2, length |-> 1], [position |-> 3, length |-> 2],
         [position |-> 5, length |-> 1]}
=============================================================================
