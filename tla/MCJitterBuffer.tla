--------------------------- MODULE MCJitterBuffer ---------------------------
(* JitterBuffer on small instances.                                        *)
EXTENDS JitterBuffer

(* Places around a wraparound, more of them than half of the numbers.      *)
MCPlaces == 5 .. 9
=============================================================================
