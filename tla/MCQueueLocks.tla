---------------------------- MODULE MCQueueLocks ----------------------------
(* Small instances of QueueLocks for TLC.                                  *)
EXTENDS QueueLocks, TLC

CONSTANTS p1, p2,  \* clients
          t1       \* a topic name

\* What the clients call in each run.  In the first they share a topic: one
\* calls the operations that name it, the other also those for all topics.
SharedOps == (p1 :> {"enqueue", "dequeue", "inspect", "create", "delete"})
             @@ (p2 :> {"enqueue", "dequeue", "sync", "stats", "reset"})
DeleteOps == [p \in Clients |-> {"delete", "enqueue"}]
=============================================================================
