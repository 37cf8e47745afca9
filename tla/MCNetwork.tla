----------------------------- MODULE MCNetwork -----------------------------
(* A small instance of Server and GoClient for TLC: each kind of command is *)
(* sent by one of two users, LISTEN by both.                                *)
EXTENDS GoClient, TLC

CONSTANTS a, b  \* connections

MCSends == a :> {"listen", "quit"} @@ b :> {"listen", "delete", "blank", "long"}
=============================================================================
