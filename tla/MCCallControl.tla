--------------------------- MODULE MCCallControl ---------------------------
(* CallControl on small instances.                                         *)
EXTENDS CallControl, TLC

(* A call has a session ID for each of its legs.                           *)
CallLegs == Calls \X Legs
=============================================================================
