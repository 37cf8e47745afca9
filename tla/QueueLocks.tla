----------------------------- MODULE QueueLocks -----------------------------
(***************************************************************************)
(* Who waits for whom in pkg/queue/queue.go: the queue's lock, the lock of *)
(* each topic, the cleanup goroutine and Close.  A client is a connection  *)
(* handler of the server (or any caller of the package) and runs one       *)
(* operation at a time; what an operation does to a topic's files is in    *)
(* module Topic, here it is the fact that it holds the topic's lock.       *)
(***************************************************************************)
EXTENDS Integers, FiniteSets, RWMutex

CONSTANTS
  Clients,    \* callers of the queue's operations
  Cleaner,    \* the goroutine of startCleanup
  Closer,     \* the caller of Queue.Close
  Topics,     \* topic names
  Ops,        \* client -> the operations it calls, of AllOps
  Closes      \* whether Queue.Close is ever called

AllOps == {"enqueue", "dequeue", "inspect", "create", "delete", "reset", "sync", "stats"}
None == "none"

ASSUME QueueAssumption ==
  /\ Ops \in [Clients -> SUBSET AllOps]
  /\ Closes \in BOOLEAN
  /\ Cleaner # Closer
  /\ {Cleaner, Closer, Nobody} \cap Clients = {}
  /\ Nobody \notin {Cleaner, Closer}

Procs == Clients \cup {Cleaner, Closer}

VARIABLES
  qmu,      \* q.mu
  tmu,      \* topic -> t.mu of the Topic object of that name
  topics,   \* the keys of q.topics
  opened,   \* topic -> number of Topic objects whose files are open
  qclosed,  \* q.closed
  done,     \* q.ctx is cancelled and the ticker stopped
  tick,     \* a tick is in the ticker's channel
  at,       \* process -> where it is
  op,       \* process -> <<operation, topic>>
  todo      \* process -> topics it still has to visit

queueVars == <<qmu, tmu, topics, opened, qclosed, done, tick, at, op, todo>>

\* Operations that take q.mu, and t.mu, in write mode.
WritesQueue == {"enqueue", "create", "delete", "reset", "close"}
\* Variant: Dequeue takes t.mu in read mode.
WritesTopicLess == {"enqueue", "delete", "reset", "sync", "clean", "close"}

WritesTopic == {"enqueue", "dequeue", "delete", "reset", "sync", "clean", "close"}

Kind(p)  == op[p][1]
Name(p)  == op[p][2]
Goto(p, place) == at' = [at EXCEPT ![p] = place]

QueueInit ==
  /\ qmu = Unlocked
  /\ tmu = [t \in Topics |-> Unlocked]
  /\ topics \in SUBSET Topics       \* loadExistingTopics
  /\ opened = [t \in Topics |-> IF t \in topics THEN 1 ELSE 0]
  /\ qclosed = FALSE
  /\ done = FALSE
  /\ tick = FALSE
  /\ at = [p \in Procs |-> "idle"]
  /\ op = [p \in Procs |-> <<None, None>>]
  /\ todo = [p \in Procs |-> {}]

-----------------------------------------------------------------------------
(* Starting an operation *)

Begin(p, kind, t) ==
  /\ at[p] = "idle"
  /\ op' = [op EXCEPT ![p] = <<kind, t>>]
  /\ Goto(p, "lockQueue")
  /\ UNCHANGED <<qmu, tmu, topics, opened, qclosed, done, tick, todo>>

Call(p) == \E kind \in Ops[p], t \in Topics : Begin(p, kind, t)

\* The ticker fires; its channel holds one tick, also after Stop.
TimerFires ==
  /\ ~done
  /\ ~tick
  /\ tick' = TRUE
  /\ UNCHANGED <<qmu, tmu, topics, opened, qclosed, done, at, op, todo>>

\* The select of startCleanup takes the tick, even if ctx is done as well.
CleanerWakes ==
  /\ at[Cleaner] = "idle"
  /\ tick
  /\ tick' = FALSE
  /\ op' = [op EXCEPT ![Cleaner] = <<"clean", None>>]
  /\ Goto(Cleaner, "lockQueue")
  /\ UNCHANGED <<qmu, tmu, topics, opened, qclosed, done, todo>>

\* Close is called once (a second call returns at once).
CloserCalls ==
  /\ Closes
  /\ ~qclosed
  /\ Begin(Closer, "close", None)

-----------------------------------------------------------------------------
(* q.mu *)

\* Lock announces a writer; RLock enters or waits.
LockQueue(p) ==
  /\ at[p] = "lockQueue"
  /\ IF Kind(p) \in WritesQueue
     THEN CanAnnounce(qmu) /\ qmu' = Announced(qmu, p)
     ELSE qmu' = RLocked(qmu, p)
  /\ Goto(p, "inQueue")
  /\ UNCHANGED <<tmu, topics, opened, qclosed, done, tick, op, todo>>

HoldsQueue(p) ==
  /\ at[p] = "inQueue"
  /\ IF Kind(p) \in WritesQueue THEN HasWrite(qmu, p) ELSE HasRead(qmu, p)

\* Whether an operation on topic t gives up: the queue is closed (not asked
\* by the read-only ones), or the topic is missing, or exists already.
Refused(kind, t) ==
  \/ qclosed /\ kind # "inspect"
  \/ kind = "create" /\ t \in topics
  \/ kind \in {"dequeue", "inspect", "delete"} /\ t \notin topics

\* NewTopic under q.mu: a Topic object with open files and a lock of its own.
OpenTopic(t) ==
  /\ topics' = topics \cup {t}
  /\ opened' = [opened EXCEPT ![t] = @ + 1]

\* The body of an operation that names one topic, up to t.mu: it gives up,
\* opens the topic (which may fail), or finds it.
Names == {"enqueue", "dequeue", "inspect", "create", "delete"}

Opens(p) == Kind(p) \in {"enqueue", "create"} /\ Name(p) \notin topics

\* Variant: the early return does not unlock.
GivesUpLocked(p) ==
  /\ Refused(Kind(p), Name(p)) \/ Opens(p)
  /\ Goto(p, "idle")
  /\ UNCHANGED <<topics, opened>>

GivesUp(p) ==
  /\ Refused(Kind(p), Name(p)) \/ Opens(p)
  /\ Goto(p, "unlockQueue")
  /\ UNCHANGED <<topics, opened>>

\* Variant: an enqueue opens the topic without looking for it.
OpensAgain(p) ==
  /\ ~Refused(Kind(p), Name(p))
  /\ IF Kind(p) \in {"enqueue", "create"} THEN OpenTopic(Name(p))
                                         ELSE UNCHANGED <<topics, opened>>
  /\ Goto(p, IF Kind(p) = "create" THEN "unlockQueue" ELSE "lockTopic")

GoesOn(p) ==
  /\ ~Refused(Kind(p), Name(p))
  /\ IF Opens(p) THEN OpenTopic(Name(p)) ELSE UNCHANGED <<topics, opened>>
  /\ Goto(p, IF Kind(p) = "create" THEN "unlockQueue" ELSE "lockTopic")

InQueue(p) ==
  /\ HoldsQueue(p)
  /\ Kind(p) \in Names
  /\ GivesUp(p) \/ GoesOn(p)
  /\ UNCHANGED <<qmu, tmu, qclosed, done, tick, op, todo>>

ForAll == {"sync", "stats", "reset", "clean", "close"}

\* Variant: Close does not wait for the cleanup.
InQueueNoWait(p) ==
  /\ HoldsQueue(p)
  /\ Kind(p) \in ForAll
  /\ todo' = [todo EXCEPT ![p] = IF qclosed /\ Kind(p) \in {"sync", "reset"} THEN {} ELSE topics]
  /\ qmu' = IF Kind(p) = "clean" THEN RUnlocked(qmu, p) ELSE qmu
  /\ done' = (done \/ Kind(p) = "close")
  /\ Goto(p, "next")
  /\ UNCHANGED <<tmu, topics, opened, qclosed, tick, op>>

\* Operations that visit all topics.  Sync, GetQueueStats and Reset keep q.mu
\* meanwhile (GetQueueStats does not look at q.closed), performCleanup copies the topics and lets go,
\* Close first stops the cleanup.
InQueueForAll(p) ==
  /\ HoldsQueue(p)
  /\ \/ /\ Kind(p) \in {"sync", "stats", "reset"}
        /\ todo' = [todo EXCEPT ![p] = IF qclosed /\ Kind(p) # "stats" THEN {} ELSE topics]
        /\ Goto(p, "next")
        /\ UNCHANGED <<qmu, done>>
     \/ /\ Kind(p) = "clean"
        /\ todo' = [todo EXCEPT ![p] = topics]
        /\ qmu' = RUnlocked(qmu, p)
        /\ Goto(p, "next")
        /\ UNCHANGED done
     \/ /\ Kind(p) = "close"
        /\ done' = TRUE
        /\ Goto(p, "awaitCleaner")
        /\ UNCHANGED <<qmu, todo>>
  /\ UNCHANGED <<tmu, topics, opened, qclosed, tick, op>>

\* <-q.cleanupDone meets q.cleanupDone <- true of a cleaner in its select.
CleanerStops ==
  /\ at[Closer] = "awaitCleaner"
  /\ at[Cleaner] = "idle"
  /\ done
  /\ at' = [at EXCEPT ![Closer] = "next", ![Cleaner] = "exited"]
  /\ todo' = [todo EXCEPT ![Closer] = topics]
  /\ UNCHANGED <<qmu, tmu, topics, opened, qclosed, done, tick, op>>

UnlockQueue(p) ==
  /\ at[p] = "unlockQueue"
  /\ qmu' = IF Kind(p) \in WritesQueue THEN WUnlocked(qmu) ELSE RUnlocked(qmu, p)
  /\ Goto(p, "idle")
  /\ UNCHANGED <<tmu, topics, opened, qclosed, done, tick, op, todo>>

-----------------------------------------------------------------------------
(* t.mu *)

\* Delete, which holds t.mu, calls Close, which locks it again: "lockAgain".
LockTopic(p) ==
  /\ at[p] \in {"lockTopic", "lockAgain"}
  /\ LET l == tmu[Name(p)]
     IN  IF Kind(p) \in WritesTopic
         THEN CanAnnounce(l) /\ tmu' = [tmu EXCEPT ![Name(p)] = Announced(l, p)]
         ELSE tmu' = [tmu EXCEPT ![Name(p)] = RLocked(l, p)]
  /\ Goto(p, IF at[p] = "lockTopic" THEN "inTopic" ELSE "inClose")
  /\ UNCHANGED <<qmu, topics, opened, qclosed, done, tick, op, todo>>

HoldsTopic(p) ==
  /\ at[p] \in {"inTopic", "inClose"}
  /\ IF Kind(p) \in WritesTopic THEN HasWrite(tmu[Name(p)], p)
                                ELSE HasRead(tmu[Name(p)], p)

Deletes(p) == Kind(p) \in {"delete", "reset"}

\* The operation on the topic.  Close closes its files; Delete calls Close
\* first, if the topic is not closed.
InTopic(p) ==
  /\ HoldsTopic(p)
  /\ opened' = IF Kind(p) = "close" \/ at[p] = "inClose"
               THEN [opened EXCEPT ![Name(p)] = 0]
               ELSE opened
  /\ Goto(p, IF Deletes(p) /\ at[p] = "inTopic" /\ opened[Name(p)] > 0
             THEN "lockAgain"
             ELSE "unlockTopic")
  /\ UNCHANGED <<qmu, tmu, topics, qclosed, done, tick, op, todo>>

UnlockTopic(p) ==
  /\ at[p] = "unlockTopic"
  /\ tmu' = [tmu EXCEPT ![Name(p)] =
               IF Kind(p) \in WritesTopic THEN WUnlocked(@) ELSE RUnlocked(@, p)]
  /\ topics' = IF Kind(p) = "delete" THEN topics \ {Name(p)} ELSE topics
  /\ Goto(p, IF Kind(p) \in ForAll THEN "next" ELSE "unlockQueue")
  /\ UNCHANGED <<qmu, opened, qclosed, done, tick, op, todo>>

\* The loop over all topics: the next one, or the end of the operation.
NextTopic(p) ==
  /\ at[p] = "next"
  /\ \/ \E t \in todo[p] :
          /\ todo' = [todo EXCEPT ![p] = @ \ {t}]
          /\ op' = [op EXCEPT ![p] = <<Kind(p), t>>]
          /\ Goto(p, "lockTopic")
          /\ UNCHANGED <<qclosed, topics>>
     \/ /\ todo[p] = {}
        /\ qclosed' = (qclosed \/ Kind(p) = "close")
        /\ topics' = IF Kind(p) = "reset" /\ ~qclosed THEN {} ELSE topics
        /\ Goto(p, IF Kind(p) = "clean" THEN "idle" ELSE "unlockQueue")
        /\ UNCHANGED <<todo, op>>
  /\ UNCHANGED <<qmu, tmu, opened, done, tick>>

-----------------------------------------------------------------------------
Step(p) ==
  \/ LockQueue(p)
  \/ InQueue(p)
  \/ InQueueForAll(p)
  \/ UnlockQueue(p)
  \/ LockTopic(p)
  \/ InTopic(p)
  \/ UnlockTopic(p)
  \/ NextTopic(p)

QueueNext ==
  \/ \E p \in Clients : Call(p)
  \/ \E p \in Procs : Step(p)
  \/ TimerFires
  \/ CleanerWakes
  \/ CloserCalls
  \/ CleanerStops

QueueSpec == QueueInit /\ [][QueueNext]_queueVars

\* The scheduler runs every goroutine that can go on, and a mutex is handed to
\* one that has waited long (sync.Mutex's starvation mode), hence strong
\* fairness for the steps that lock.  Callers need not call, nor ticks come.
FairQueueSpec ==
  /\ QueueSpec
  /\ \A p \in Procs : SF_queueVars(Step(p))
  /\ WF_queueVars(CleanerWakes)
  /\ WF_queueVars(CleanerStops)

-----------------------------------------------------------------------------
(* Properties *)

Places == {"idle", "lockQueue", "inQueue", "unlockQueue", "lockTopic", "inTopic",
           "lockAgain", "inClose", "unlockTopic", "next", "awaitCleaner", "exited"}

\* A lock is held by goroutines of the program; readers wait only for a writer.
LockOK(l) ==
  /\ l.writer \in Procs \cup {Nobody}
  /\ l.readers \subseteq Procs
  /\ l.waiting \subseteq Procs \ l.readers
  /\ l.writer = Nobody => l.waiting = {}

\* A goroutine that is between two operations has unlocked what it locked.
HoldsNothing(p) ==
  \A l \in {qmu} \cup {tmu[t] : t \in Topics} :
    p # l.writer /\ p \notin l.readers /\ p \notin l.waiting

QueueTypeOK ==
  /\ LockOK(qmu)
  /\ \A t \in Topics : LockOK(tmu[t])
  /\ topics \subseteq Topics
  /\ opened \in [Topics -> Nat]
  /\ {qclosed, done, tick} \subseteq BOOLEAN
  /\ at \in [Procs -> Places]
  /\ op \in [Procs -> (AllOps \cup {None, "clean", "close"}) \X (Topics \cup {None})]
  /\ todo \in [Procs -> SUBSET Topics]
  /\ \A p \in Procs : at[p] \in {"idle", "exited"} => HoldsNothing(p)

\* At most one Topic object has the files of a name open, and exactly those
\* in the map do until Close: two would each count the size of the log.
OneTopicPerName ==
  \A t \in Topics : /\ opened[t] <= 1
                    /\ opened[t] = 1 => t \in topics
                    /\ t \in topics /\ ~done => opened[t] = 1

\* Two operations of which one changes a topic are never in it together; a
\* Dequeue reads the offset, reads the log and moves the offset under t.mu
\* alone (q.mu is held in read mode), and cleanup holds no q.mu at all.
WriterAlone ==
  \A p, q \in Procs :
    p # q /\ HoldsTopic(p) /\ HoldsTopic(q) /\ Name(p) = Name(q) =>
      {Kind(p), Kind(q)} \cap {"enqueue", "dequeue", "sync", "clean", "close", "delete", "reset"} = {}

\* No operation that needs a topic's files finds them closed: Close waits for
\* the callers through q.mu and for the cleanup through cleanupDone.
NoUseAfterClose ==
  \A p \in Procs :
    HoldsTopic(p) /\ Kind(p) \in {"enqueue", "dequeue", "sync", "clean", "close"}
      => opened[Name(p)] = 1

\* A Delete that waits for the lock it holds, or a Close that holds the lock
\* which the cleanup needs that it waits for.
Hung ==
  \/ \E p \in Clients : at[p] = "lockAgain"
  \/ at[Closer] = "awaitCleaner" /\ at[Cleaner] \in {"lockQueue", "inQueue"}

\* Every operation returns, and so do Close and every cleanup, whatever the
\* others do meanwhile: the two in Hung are the only ones that can stop it
\* (queue.go:60-127, 237-293, 343-380).
EveryCallReturns ==
  \A p \in Procs : at[p] # "idle" ~> at[p] \in {"idle", "exited"} \/ Hung

\* topic.go:295, "Delete removes the topic and all its data": a DELETE ends.
DeleteReturns ==
  \A p \in Clients : at[p] # "idle" /\ Kind(p) = "delete" ~> at[p] = "idle"
=============================================================================
