------------------------------ MODULE MCTopic ------------------------------
(* Small instances of Topic for TLC.                                       *)
EXTENDS Topic

CONSTANTS c1, c2  \* two consumers
=============================================================================
