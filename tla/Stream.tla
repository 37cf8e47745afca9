------------------------------- MODULE Stream -------------------------------
(***************************************************************************)
(* What a topic promises its producers and consumers, without files: one   *)
(* sequence of messages and a cursor per consumer.  A delivery takes the   *)
(* next messages at the cursor, at most Batch of them, and moves the       *)
(* cursor behind them; a restart puts every cursor back where it was last  *)
(* saved, and loses no message.                                            *)
(***************************************************************************)
EXTENDS Integers, Sequences

CONSTANTS
  Readers,   \* the consumers
  Messages,  \* what may be published
  Batch      \* the most messages one delivery returns

VARIABLES
  stream,  \* the messages, in the order they were stored
  cursor,  \* reader -> number of messages before its next one
  saved,   \* reader -> its cursor after a restart
  got      \* reader -> messages delivered since its last seek or restart

streamVars == <<stream, cursor, saved, got>>

StreamInit ==
  /\ stream = <<>>
  /\ cursor = [c \in Readers |-> 0]
  /\ saved = [c \in Readers |-> 0]
  /\ got = [c \in Readers |-> <<>>]

\* One message more, behind all others.
Publish ==
  /\ \E m \in Messages : stream' = Append(stream, m)
  /\ UNCHANGED <<cursor, saved, got>>

\* As many as there are, at most Batch.
Deliver(c) ==
  \E n \in 1 .. Len(stream) :
    /\ n <= Batch
    /\ cursor[c] + n <= Len(stream)
    /\ n < Batch => cursor[c] + n = Len(stream)
    /\ cursor' = [cursor EXCEPT ![c] = cursor[c] + n]
    /\ got' = [got EXCEPT ![c] = got[c] \o SubSeq(stream, cursor[c] + 1, cursor[c] + n)]
    /\ UNCHANGED <<stream, saved>>

Seek(c) ==
  /\ \E k \in 0 .. Len(stream) : cursor' = [cursor EXCEPT ![c] = k]
  /\ got' = [got EXCEPT ![c] = <<>>]
  /\ UNCHANGED <<stream, saved>>

Save ==
  /\ saved' = cursor
  /\ UNCHANGED <<stream, cursor, got>>

Restart ==
  /\ cursor' = saved
  /\ got' = [c \in Readers |-> <<>>]
  /\ UNCHANGED <<stream, saved>>

StreamNext ==
  \/ Publish
  \/ \E c \in Readers : Deliver(c) \/ Seek(c)
  \/ Save
  \/ Restart

StreamSpec == StreamInit /\ [][StreamNext]_streamVars

-----------------------------------------------------------------------------
(* Each reader has been given, since its last seek or restart, exactly the *)
(* messages that end at its cursor: none lost, repeated or reordered.      *)
GotTheStretch ==
  \A c \in Readers :
    /\ Len(got[c]) <= cursor[c]
    /\ cursor[c] <= Len(stream)
    /\ got[c] = SubSeq(stream, cursor[c] - Len(got[c]) + 1, cursor[c])
=============================================================================
