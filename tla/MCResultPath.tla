---------------------------- MODULE MCResultPath ----------------------------
(* ResultPath on small instances.                                          *)
EXTENDS ResultPath, TLC

CONSTANTS w1, w2, dc

(* Two workers, drops and no dead-letter sink, as deployed but for the     *)
(* number of workers; one worker that more results wait for, with a        *)
(* dead-letter sink; and both kinds of sinks without drops.                *)
MCConfigs ==
  {[workers |-> {w1, w2}, dropPartial |-> TRUE, deadLetter |-> FALSE,
    sinks |-> <<"http">>, results |-> 2],
   [workers |-> {w1}, dropPartial |-> TRUE, deadLetter |-> TRUE,
    sinks |-> <<"http">>, results |-> 3],
   [workers |-> {w1}, dropPartial |-> FALSE, deadLetter |-> FALSE,
    sinks |-> <<dc, "http">>, results |-> 2]}
=============================================================================
