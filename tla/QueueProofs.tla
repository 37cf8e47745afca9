----------------------------- MODULE QueueProofs -----------------------------
(***************************************************************************)
(* Proofs about the queue's locks, for any callers, topics and operations, *)
(* with or without Close.                                                  *)
(*                                                                         *)
(* QueueInv is inductive.  PlaceInv says who can be where; MutexInv ties   *)
(* each lock to the places of those that hold it or wait for it, from      *)
(* which follows that a writer is alone; CloseInv orders Close, the        *)
(* cleanup and the flags; FileInv says whose files are open, and UseInv    *)
(* what an operation on its way to a topic may rely on.                    *)
(***************************************************************************)
EXTENDS QueueLocks, TLAPS

-----------------------------------------------------------------------------
(* One lock: who asked for it to write or to read, and who is inside *)

Locks == [writer : Procs \cup {Nobody}, readers : SUBSET Procs, waiting : SUBSET Procs]

LockedBy(l, writers, readers, inside) ==
  /\ l \in Locks
  /\ \A p \in Procs : p \in writers <=> l.writer = p
  /\ l.readers \cup l.waiting = readers
  /\ l.readers \cap l.waiting = {}
  /\ l.writer = Nobody => l.waiting = {}
  /\ \A p \in writers \cap inside : l.readers = {}
  /\ readers \cap inside \subseteq l.readers

LEMMA LockUsed ==
  ASSUME NEW l, NEW W, NEW R, NEW I, NEW J, LockedBy(l, W, R, I), W \cup R \subseteq Procs,
         \A p \in Procs : p \in (W \cup R) \cap J => p \in I
  PROVE  LockedBy(l, W, R, J)
  BY DEF LockedBy, Locks

\* A writer announces itself.
LEMMA LockAnnounced ==
  ASSUME NEW l, NEW W, NEW R, NEW I, NEW p \in Procs, LockedBy(l, W, R, I),
         CanAnnounce(l), p \notin I
  PROVE  LockedBy(Announced(l, p), W \cup {p}, R, I)
  <1>1. /\ l \in Locks
        /\ l.writer = Nobody
        /\ Nobody \notin Procs
    BY QueueAssumption DEF LockedBy, CanAnnounce, Procs
  <1>2. /\ Announced(l, p) \in Locks
        /\ Announced(l, p).writer = p
        /\ Announced(l, p).readers = l.readers
        /\ Announced(l, p).waiting = l.waiting
    BY <1>1 DEF Announced, Locks
  <1>3. \A q \in Procs : q \notin W
    BY <1>1 DEF LockedBy
  <1>4. QED
    BY <1>1, <1>2, <1>3 DEF LockedBy

\* A reader enters or waits.
LEMMA LockRead ==
  ASSUME NEW l, NEW W, NEW R, NEW I, NEW p \in Procs, LockedBy(l, W, R, I),
         p \notin R, p \notin I, W \subseteq Procs, R \subseteq Procs
  PROVE  LockedBy(RLocked(l, p), W, R \cup {p}, I)
  <1>1. l \in Locks /\ Nobody \notin Procs /\ p \notin l.readers /\ p \notin l.waiting
    BY QueueAssumption DEF LockedBy, Procs
  <1>2. CASE l.writer = Nobody
    <2>1. /\ RLocked(l, p) \in Locks
          /\ RLocked(l, p).writer = l.writer
          /\ RLocked(l, p).readers = l.readers \cup {p}
          /\ RLocked(l, p).waiting = l.waiting
      BY <1>1, <1>2 DEF RLocked, Locks
    <2>2. W = {}
      BY <1>1, <1>2 DEF LockedBy
    <2>3. QED
      BY <1>1, <1>2, <2>1, <2>2 DEF LockedBy
  <1>3. CASE l.writer # Nobody
    <2>1. /\ RLocked(l, p) \in Locks
          /\ RLocked(l, p).writer = l.writer
          /\ RLocked(l, p).readers = l.readers
          /\ RLocked(l, p).waiting = l.waiting \cup {p}
      BY <1>1, <1>3 DEF RLocked, Locks
    <2>2. QED
      BY <1>1, <1>3, <2>1 DEF LockedBy
  <1>4. QED
    BY <1>2, <1>3

\* Whoever has the lock is inside.
LEMMA LockEntered ==
  ASSUME NEW l, NEW W, NEW R, NEW I, NEW p \in Procs, LockedBy(l, W, R, I),
         (p \in W /\ HasWrite(l, p)) \/ (p \in R /\ HasRead(l, p)), W \cap R = {}
  PROVE  LockedBy(l, W, R, I \cup {p})
  BY DEF LockedBy, HasWrite, HasRead

LEMMA LockWUnlocked ==
  ASSUME NEW l, NEW W, NEW R, NEW I, NEW p \in Procs, LockedBy(l, W, R, I),
         p \in W, p \in I, W \subseteq Procs, R \subseteq Procs
  PROVE  LockedBy(WUnlocked(l), W \ {p}, R, I)
  <1>1. l \in Locks /\ l.readers = {} /\ l.waiting = R /\ l.writer = p /\ Nobody \notin Procs
    BY QueueAssumption DEF LockedBy, Procs
  <1>2. /\ WUnlocked(l) \in Locks
        /\ WUnlocked(l).writer = Nobody
        /\ WUnlocked(l).readers = l.waiting
        /\ WUnlocked(l).waiting = {}
    BY <1>1 DEF WUnlocked, Unlocked, Locks
  <1>3. W \ {p} = {}
    BY <1>1 DEF LockedBy
  <1>4. QED
    BY <1>1, <1>2, <1>3 DEF LockedBy

LEMMA LockRUnlocked ==
  ASSUME NEW l, NEW W, NEW R, NEW I, NEW p \in Procs, LockedBy(l, W, R, I),
         HasRead(l, p), R \subseteq Procs
  PROVE  LockedBy(RUnlocked(l, p), W, R \ {p}, I)
  <1>1. l \in Locks /\ p \in l.readers /\ p \notin l.waiting
    BY DEF LockedBy, HasRead
  <1>2. /\ RUnlocked(l, p) \in Locks
        /\ RUnlocked(l, p).writer = l.writer
        /\ RUnlocked(l, p).readers = l.readers \ {p}
        /\ RUnlocked(l, p).waiting = l.waiting
    BY <1>1 DEF RUnlocked, Locks
  <1>3. QED
    BY <1>1, <1>2 DEF LockedBy

\* A writer inside is alone inside.
LEMMA LockExclusive ==
  ASSUME NEW l, NEW W, NEW R, NEW I, NEW p \in Procs, NEW q \in Procs, LockedBy(l, W, R, I),
         p \in W, p \in I \/ HasWrite(l, p),
         q \in (W \cup R) \cap I \/ HasWrite(l, q) \/ HasRead(l, q)
  PROVE  q = p
  <1>1. l.writer = p /\ l.readers = {}
    BY DEF LockedBy, HasWrite
  <1>2. QED
    BY <1>1 DEF LockedBy, HasWrite, HasRead

-----------------------------------------------------------------------------
(* The inductive invariant *)

\* An operation but a cleanup holds q.mu, or waits inside it, from the moment
\* it locked it; a cleanup only while it copies the topics.
Visiting == {"next", "lockTopic", "inTopic", "lockAgain", "unlockTopic"}

WantsQueue(p) ==
  \/ at[p] \in {"inQueue", "unlockQueue", "awaitCleaner"}
  \/ at[p] \in Visiting /\ Kind(p) # "clean"

QueueWriters == {p \in Procs : WantsQueue(p) /\ Kind(p) \in WritesQueue}
QueueReaders == {p \in Procs : WantsQueue(p) /\ Kind(p) \notin WritesQueue}
InsideQueue  == {p \in Procs : WantsQueue(p) /\ at[p] # "inQueue"}

WantsTopic(p) == at[p] \in {"inTopic", "lockAgain", "unlockTopic"}

TopicWriters(t) == {p \in Procs : WantsTopic(p) /\ Name(p) = t /\ Kind(p) \in WritesTopic}
TopicReaders(t) == {p \in Procs : WantsTopic(p) /\ Name(p) = t /\ Kind(p) \notin WritesTopic}
InsideTopic     == {p \in Procs : at[p] \in {"lockAgain", "unlockTopic"}}

MutexInv ==
  /\ LockedBy(qmu, QueueWriters, QueueReaders, InsideQueue)
  /\ \A t \in Topics : LockedBy(tmu[t], TopicWriters(t), TopicReaders(t), InsideTopic)

\* Who is where.  A Delete never gets past its second lock.
PlaceInv ==
  /\ at \in [Procs -> Places \ {"inClose"}]
  /\ op \in [Procs -> (AllOps \cup {None, "clean", "close"}) \X (Topics \cup {None})]
  /\ todo \in [Procs -> SUBSET Topics]
  /\ DOMAIN tmu = Topics
  /\ qclosed \in BOOLEAN /\ done \in BOOLEAN /\ tick \in BOOLEAN
  /\ \A p \in Procs :
       /\ Kind(p) \in IF p = Cleaner THEN {None, "clean"}
                      ELSE IF p = Closer THEN {None, "close"}
                      ELSE AllOps \cup {None}
       /\ at[p] \notin {"idle", "exited"} => Kind(p) # None
       /\ at[p] \in {"next", "awaitCleaner"} => Kind(p) \in ForAll
       /\ at[p] = "awaitCleaner" => p = Closer
       /\ at[p] = "exited" => p = Cleaner
       /\ at[p] = "lockAgain" => Deletes(p)
       /\ at[p] = "unlockQueue" => p # Cleaner
       /\ Kind(p) \in Names \/ at[p] \in Visiting \ {"next"} => Name(p) \in Topics

Closing == at[Closer] \in Visiting \cup {"awaitCleaner"}

\* How far Close is.  From awaitCleaner to the end it has closed nothing twice,
\* and the cleanup is gone before it closes anything.
CloseInv ==
  /\ qclosed => done
  /\ done /\ ~qclosed => Closing
  /\ Closing => done /\ ~qclosed
  /\ at[Closer] \in {"lockQueue", "inQueue"} => ~done
  /\ done /\ at[Closer] # "awaitCleaner" => at[Cleaner] = "exited"
  /\ at[Closer] \in {"lockTopic", "inTopic"} => Name(Closer) \notin todo[Closer]

NeedsFiles == {"enqueue", "dequeue", "sync", "clean", "close"}

\* Files are open at most once, for the topics of the map, and for all of them
\* until Close closes them.
FileInv ==
  /\ topics \subseteq Topics
  /\ opened \in [Topics -> {0, 1}]
  /\ \A t \in Topics :
       /\ opened[t] = 1 => t \in topics
       /\ t \in topics /\ (~done \/ at[Closer] = "awaitCleaner") => opened[t] = 1

\* What an operation that is on its way to a topic's files, or past them, may
\* rely on.
UseInv(p) ==
  /\ Kind(p) \in NeedsFiles /\ at[p] \in {"lockTopic", "inTopic"} => opened[Name(p)] = 1
  /\ Kind(p) \in NeedsFiles \cap ForAll /\ at[p] \in Visiting =>
       \A t \in todo[p] : opened[t] = 1
  /\ Kind(p) = "delete" /\ at[p] = "unlockTopic" => opened[Name(p)] = 0
  /\ Kind(p) = "reset" /\ at[p] \in Visiting /\ ~qclosed =>
       \A t \in Topics :
         opened[t] = 1 =>
           t \in todo[p] \/ (t = Name(p) /\ at[p] \in {"lockTopic", "inTopic", "lockAgain"})

QueueInv == PlaceInv /\ MutexInv /\ CloseInv /\ FileInv /\ \A p \in Procs : UseInv(p)

-----------------------------------------------------------------------------
(* What a step of one process does to the locks *)

\* A step of p alone.
OnlyBy(p) == \A q \in Procs \ {p} : at'[q] = at[q] /\ op'[q] = op[q]

LEMMA SetsOfProcs ==
  /\ QueueWriters \subseteq Procs /\ QueueReaders \subseteq Procs
  /\ QueueWriters \cap QueueReaders = {}
  /\ \A t \in Topics : /\ TopicWriters(t) \subseteq Procs /\ TopicReaders(t) \subseteq Procs
                       /\ TopicWriters(t) \cap TopicReaders(t) = {}
  BY DEF QueueWriters, QueueReaders, TopicWriters, TopicReaders

\* The queue's lock is as it was, and p goes on wanting it or not; it may come
\* to know that it is inside.
LEMMA QueueLockKept ==
  ASSUME MutexInv, NEW p \in Procs, OnlyBy(p), qmu' = qmu,
         p \in QueueWriters' <=> p \in QueueWriters,
         p \in QueueReaders' <=> p \in QueueReaders,
         p \in InsideQueue' => p \in InsideQueue \/ HoldsQueue(p)
  PROVE  LockedBy(qmu, QueueWriters, QueueReaders, InsideQueue)'
  <1>1. QueueWriters' = QueueWriters /\ QueueReaders' = QueueReaders
    BY DEF OnlyBy, QueueWriters, QueueReaders, WantsQueue, Kind
  <1>2. \A q \in Procs \ {p} : q \in InsideQueue' => q \in InsideQueue
    BY DEF OnlyBy, InsideQueue, WantsQueue, Kind
  <1>3. LockedBy(qmu, QueueWriters, QueueReaders, InsideQueue)
    BY DEF MutexInv
  <1>4. CASE HoldsQueue(p)
    <2>1. (p \in QueueWriters /\ HasWrite(qmu, p)) \/ (p \in QueueReaders /\ HasRead(qmu, p))
      <3>1. WantsQueue(p)
        BY <1>4 DEF HoldsQueue, WantsQueue
      <3>2. CASE Kind(p) \in WritesQueue
        BY <1>4, <3>1, <3>2 DEF HoldsQueue, QueueWriters
      <3>3. CASE Kind(p) \notin WritesQueue
        BY <1>4, <3>1, <3>3 DEF HoldsQueue, QueueReaders
      <3>4. QED
        BY <3>2, <3>3
    <2>2. LockedBy(qmu, QueueWriters, QueueReaders, InsideQueue \cup {p})
      BY <1>3, <2>1, LockEntered, SetsOfProcs
    <2>3. LockedBy(qmu, QueueWriters, QueueReaders, InsideQueue')
      BY <1>2, <2>2, LockUsed, SetsOfProcs
    <2>4. QED
      BY <1>1, <2>3 DEF LockedBy, Locks
  <1>5. CASE ~HoldsQueue(p)
    <2>1. LockedBy(qmu, QueueWriters, QueueReaders, InsideQueue')
      BY <1>2, <1>3, <1>5, LockUsed, SetsOfProcs
    <2>2. QED
      BY <1>1, <2>1 DEF LockedBy, Locks
  <1>6. QED
    BY <1>4, <1>5

\* The same for the locks of the topics.
LEMMA TopicLocksKept ==
  ASSUME MutexInv, NEW p \in Procs, OnlyBy(p), tmu' = tmu,
         WantsTopic(p)' <=> WantsTopic(p),
         WantsTopic(p) => op'[p] = op[p] /\ at[p] # "inClose",
         p \in InsideTopic' => p \in InsideTopic \/ (at[p] = "inTopic" /\ HoldsTopic(p))
  PROVE  \A t \in Topics : LockedBy(tmu[t], TopicWriters(t), TopicReaders(t), InsideTopic)'
  <1> SUFFICES ASSUME NEW t \in Topics
               PROVE  LockedBy(tmu[t], TopicWriters(t), TopicReaders(t), InsideTopic)'
    OBVIOUS
  <1>1. TopicWriters(t)' = TopicWriters(t) /\ TopicReaders(t)' = TopicReaders(t)
    BY DEF OnlyBy, TopicWriters, TopicReaders, WantsTopic, Kind, Name
  <1>2. \A q \in Procs \ {p} : q \in InsideTopic' => q \in InsideTopic
    BY DEF OnlyBy, InsideTopic
  <1>3. LockedBy(tmu[t], TopicWriters(t), TopicReaders(t), InsideTopic)
    BY DEF MutexInv
  <1>4. CASE at[p] = "inTopic" /\ HoldsTopic(p) /\ Name(p) = t
    <2>1. (p \in TopicWriters(t) /\ HasWrite(tmu[t], p)) \/ (p \in TopicReaders(t) /\ HasRead(tmu[t], p))
      <3>1. WantsTopic(p)
        BY <1>4 DEF WantsTopic
      <3>2. CASE Kind(p) \in WritesTopic
        BY <1>4, <3>1, <3>2 DEF HoldsTopic, TopicWriters
      <3>3. CASE Kind(p) \notin WritesTopic
        BY <1>4, <3>1, <3>3 DEF HoldsTopic, TopicReaders
      <3>4. QED
        BY <3>2, <3>3
    <2>2. LockedBy(tmu[t], TopicWriters(t), TopicReaders(t), InsideTopic \cup {p})
      BY <1>3, <2>1, LockEntered, SetsOfProcs
    <2>3. LockedBy(tmu[t], TopicWriters(t), TopicReaders(t), InsideTopic')
      BY <1>2, <2>2, LockUsed, SetsOfProcs
    <2>4. QED
      BY <1>1, <2>3 DEF LockedBy, Locks
  <1>5. CASE ~(at[p] = "inTopic" /\ HoldsTopic(p) /\ Name(p) = t)
    <2>1. \A q \in Procs : q \in (TopicWriters(t) \cup TopicReaders(t)) \cap InsideTopic'
                             => q \in InsideTopic
      BY <1>2, <1>5 DEF TopicWriters, TopicReaders
    <2>2. LockedBy(tmu[t], TopicWriters(t), TopicReaders(t), InsideTopic')
      BY <1>3, <2>1, LockUsed, SetsOfProcs
    <2>3. QED
      BY <1>1, <2>2 DEF LockedBy, Locks
  <1>6. QED
    BY <1>4, <1>5

\* A writer inside the queue's lock is alone there.
LEMMA QueueExclusive ==
  ASSUME MutexInv, NEW p \in Procs, NEW q \in Procs,
         p \in QueueWriters, p \in InsideQueue \/ HoldsQueue(p),
         q \in InsideQueue \/ HoldsQueue(q)
  PROVE  q = p
  <1>1. LockedBy(qmu, QueueWriters, QueueReaders, InsideQueue)
    BY DEF MutexInv
  <1>2. p \in InsideQueue \/ HasWrite(qmu, p)
    BY DEF HoldsQueue, QueueWriters
  <1>3. q \in (QueueWriters \cup QueueReaders) \cap InsideQueue \/ HasWrite(qmu, q) \/ HasRead(qmu, q)
    BY DEF HoldsQueue, InsideQueue, QueueWriters, QueueReaders
  <1>4. QED
    BY <1>1, <1>2, <1>3, LockExclusive

-----------------------------------------------------------------------------
(* PlaceInv and MutexInv are kept *)

\* The second lock of a Delete is the one it holds, and is never announced.
LEMMA DeleteIsStuck ==
  ASSUME PlaceInv, MutexInv, NEW p \in Procs, LockTopic(p)
  PROVE  at[p] = "lockTopic"
  <1> SUFFICES ASSUME at[p] = "lockAgain" PROVE FALSE
    BY DEF LockTopic
  <1>1. Kind(p) \in WritesTopic /\ Name(p) \in Topics
    BY DEF PlaceInv, Deletes, WritesTopic, Visiting
  <1>2. p \in TopicWriters(Name(p))
    BY <1>1 DEF TopicWriters, WantsTopic
  <1>3. tmu[Name(p)].writer = p
    BY <1>1, <1>2 DEF MutexInv, LockedBy
  <1>4. tmu[Name(p)].writer = Nobody
    BY <1>1 DEF LockTopic, CanAnnounce
  <1>5. QED
    BY <1>3, <1>4, QueueAssumption DEF Procs

LEMMA PlaceStep ==
  ASSUME PlaceInv, MutexInv, topics \subseteq Topics, QueueNext
  PROVE  PlaceInv'
  <1> USE DEF PlaceInv, Goto
  <1>0. Cleaner \in Procs /\ Closer \in Procs /\ Cleaner # Closer
          /\ \A p \in Clients : p \in Procs /\ p # Cleaner /\ p # Closer
    BY QueueAssumption DEF Procs
  <1>1. ASSUME NEW p \in Clients, NEW kind \in Ops[p], NEW t \in Topics, Begin(p, kind, t)
        PROVE  PlaceInv'
    BY <1>0, <1>1, QueueAssumption DEF Begin, Places, AllOps, None, Kind, Name, ForAll, Names,
       Visiting, Deletes
  <1>2. ASSUME NEW p \in Procs, LockQueue(p)
        PROVE  PlaceInv'
    BY <1>2 DEF LockQueue, Places, Kind, Name, ForAll, Names, Visiting, Deletes
  <1>3. ASSUME NEW p \in Procs, InQueue(p)
        PROVE  PlaceInv'
    BY <1>3, <1>0 DEF InQueue, HoldsQueue, GivesUp, GoesOn, Places, Kind, Name, ForAll, Names,
       Visiting, Deletes, None
  <1>4. ASSUME NEW p \in Procs, InQueueForAll(p)
        PROVE  PlaceInv'
    <2>1. at[p] = "inQueue" /\ UNCHANGED <<tmu, topics, opened, qclosed, tick, op>>
      BY <1>4 DEF InQueueForAll, HoldsQueue
    <2>2. todo' \in [Procs -> SUBSET Topics] /\ done' \in BOOLEAN
      BY <1>4 DEF InQueueForAll
    <2>3. CASE Kind(p) \in {"sync", "stats", "reset", "clean"} /\ at' = [at EXCEPT ![p] = "next"]
      BY <2>1, <2>2, <2>3, <1>0 DEF Places, Kind, Name, ForAll, Names, Visiting, Deletes, None
    <2>4. CASE Kind(p) = "close" /\ at' = [at EXCEPT ![p] = "awaitCleaner"]
      BY <2>1, <2>2, <2>4, <1>0
         DEF Places, Kind, Name, ForAll, Names, Visiting, Deletes, AllOps, None
    <2>5. QED
      BY <1>4, <2>3, <2>4 DEF InQueueForAll
  <1>5. ASSUME NEW p \in Procs, UnlockQueue(p)
        PROVE  PlaceInv'
    BY <1>5 DEF UnlockQueue, Places, Kind, Name, ForAll, Names, Visiting, Deletes
  <1>6. ASSUME NEW p \in Procs, LockTopic(p)
        PROVE  PlaceInv'
    BY <1>6, DeleteIsStuck DEF LockTopic, Places, Kind, Name, ForAll, Names, Visiting, Deletes
  <1>7. ASSUME NEW p \in Procs, InTopic(p)
        PROVE  PlaceInv'
    BY <1>7 DEF InTopic, HoldsTopic, Places, Kind, Name, ForAll, Names, Visiting, Deletes
  <1>8. ASSUME NEW p \in Procs, UnlockTopic(p)
        PROVE  PlaceInv'
    BY <1>8, <1>0 DEF UnlockTopic, Places, Kind, Name, ForAll, Names, Visiting, Deletes, None
  <1>9. ASSUME NEW p \in Procs, NextTopic(p)
        PROVE  PlaceInv'
    <2>1. at[p] = "next" /\ Kind(p) \in ForAll /\ UNCHANGED <<tmu, done, tick>>
      BY <1>9 DEF NextTopic
    <2>2. CASE \E t \in todo[p] : /\ todo' = [todo EXCEPT ![p] = todo[p] \ {t}]
                                   /\ op' = [op EXCEPT ![p] = <<Kind(p), t>>]
                                   /\ at' = [at EXCEPT ![p] = "lockTopic"]
                                   /\ UNCHANGED qclosed
      <3>1. PICK t \in todo[p] : /\ todo' = [todo EXCEPT ![p] = todo[p] \ {t}]
                                 /\ op' = [op EXCEPT ![p] = <<Kind(p), t>>]
                                 /\ at' = [at EXCEPT ![p] = "lockTopic"]
                                 /\ UNCHANGED qclosed
        BY <2>2
      <3>2. t \in Topics
        BY <3>1
      <3>3. QED
        BY <2>1, <3>1, <3>2 DEF Places, Kind, Name, ForAll, Names, Visiting, Deletes, None
    <2>3. CASE /\ qclosed' = (qclosed \/ Kind(p) = "close")
               /\ Goto(p, IF Kind(p) = "clean" THEN "idle" ELSE "unlockQueue")
               /\ UNCHANGED <<todo, op>>
      <3>1. qclosed' \in BOOLEAN
        BY <2>3
      <3>2. QED
        BY <2>1, <2>3, <3>1, <1>0 DEF Places, Kind, Name, ForAll, Names, Visiting, Deletes, None
    <2>4. QED
      BY <1>9, <2>2, <2>3 DEF NextTopic
  <1>10. CASE TimerFires
    BY <1>10 DEF TimerFires, Kind, Name, Deletes
  <1>11. CASE CleanerWakes
    BY <1>11, <1>0 DEF CleanerWakes, Places, Kind, Name, ForAll, Names, Visiting, Deletes, None
  <1>12. CASE CloserCalls
    BY <1>12, <1>0 DEF CloserCalls, Begin, Places, Kind, Name, ForAll, Names, Visiting, Deletes,
       None
  <1>13. CASE CleanerStops
    BY <1>13, <1>0 DEF CleanerStops, Places, Kind, Name, ForAll, Names, Visiting, Deletes
  <1>14. QED
    BY <1>1, <1>2, <1>3, <1>4, <1>5, <1>6, <1>7, <1>8, <1>9, <1>10, <1>11, <1>12, <1>13
       DEF QueueNext, Call, Step

\* A process asks for q.mu: it writes or reads from then on.
LEMMA LockQueueStep ==
  ASSUME PlaceInv, MutexInv, NEW p \in Procs, LockQueue(p)
  PROVE  MutexInv'
  <1>1. /\ at[p] = "lockQueue"
        /\ at' = [at EXCEPT ![p] = "inQueue"]
        /\ op' = op /\ tmu' = tmu
        /\ OnlyBy(p)
    BY DEF LockQueue, Goto, OnlyBy, PlaceInv
  <1>2. \A t \in Topics : LockedBy(tmu[t], TopicWriters(t), TopicReaders(t), InsideTopic)'
    <2>1. ~WantsTopic(p)' /\ ~WantsTopic(p) /\ p \notin InsideTopic'
      BY <1>1 DEF WantsTopic, InsideTopic, PlaceInv
    <2>2. QED
      BY <1>1, <2>1, TopicLocksKept
  <1>3. p \notin QueueWriters /\ p \notin QueueReaders /\ p \notin InsideQueue /\ p \notin InsideQueue'
    BY <1>1 DEF QueueWriters, QueueReaders, InsideQueue, WantsQueue, Visiting, PlaceInv
  <1>4. LockedBy(qmu, QueueWriters, QueueReaders, InsideQueue)
    BY DEF MutexInv
  <1>5. \A q \in Procs : q \in InsideQueue' => q \in InsideQueue
    BY <1>1, <1>3 DEF InsideQueue, WantsQueue, Kind, OnlyBy
  <1>6. CASE Kind(p) \in WritesQueue
    <2>1. QueueWriters' = QueueWriters \cup {p} /\ QueueReaders' = QueueReaders
      BY <1>1, <1>3, <1>6 DEF QueueWriters, QueueReaders, WantsQueue, Kind, OnlyBy, PlaceInv
    <2>2. LockedBy(qmu', QueueWriters \cup {p}, QueueReaders, InsideQueue)
      BY <1>3, <1>4, <1>6, LockAnnounced DEF LockQueue
    <2>3. LockedBy(qmu', QueueWriters \cup {p}, QueueReaders, InsideQueue')
      BY <1>5, <2>2, LockUsed, SetsOfProcs
    <2>4. QED
      BY <1>2, <2>1, <2>3 DEF MutexInv, LockedBy, Locks
  <1>7. CASE Kind(p) \notin WritesQueue
    <2>1. QueueReaders' = QueueReaders \cup {p} /\ QueueWriters' = QueueWriters
      BY <1>1, <1>3, <1>7 DEF QueueWriters, QueueReaders, WantsQueue, Kind, OnlyBy, PlaceInv
    <2>2. LockedBy(qmu', QueueWriters, QueueReaders \cup {p}, InsideQueue)
      BY <1>3, <1>4, <1>7, LockRead, SetsOfProcs DEF LockQueue
    <2>3. LockedBy(qmu', QueueWriters, QueueReaders \cup {p}, InsideQueue')
      BY <1>5, <2>2, LockUsed, SetsOfProcs
    <2>4. QED
      BY <1>2, <2>1, <2>3 DEF MutexInv, LockedBy, Locks
  <1>8. QED
    BY <1>6, <1>7

\* Letting the queue's lock go.
LEMMA QueueLockLeft ==
  ASSUME MutexInv, NEW p \in Procs, OnlyBy(p),
         Kind(p)' = Kind(p), WantsQueue(p), ~WantsQueue(p)',
         \/ Kind(p) \in WritesQueue /\ p \in InsideQueue /\ qmu' = WUnlocked(qmu)
         \/ Kind(p) \notin WritesQueue /\ HasRead(qmu, p) /\ qmu' = RUnlocked(qmu, p)
  PROVE  LockedBy(qmu, QueueWriters, QueueReaders, InsideQueue)'
  <1>1. /\ QueueWriters' = QueueWriters \ {p}
        /\ QueueReaders' = QueueReaders \ {p}
    BY DEF OnlyBy, QueueWriters, QueueReaders, WantsQueue, Kind
  <1>2. \A q \in Procs : q \in InsideQueue' => q \in InsideQueue
    BY DEF OnlyBy, InsideQueue, WantsQueue, Kind
  <1>3. LockedBy(qmu, QueueWriters, QueueReaders, InsideQueue)
    BY DEF MutexInv
  <1>4. CASE Kind(p) \in WritesQueue
    <2>1. p \in QueueWriters /\ p \notin QueueReaders /\ p \in InsideQueue /\ qmu' = WUnlocked(qmu)
      BY <1>4 DEF QueueWriters, QueueReaders
    <2>2. LockedBy(qmu', QueueWriters \ {p}, QueueReaders, InsideQueue)
      BY <1>3, <2>1, LockWUnlocked, SetsOfProcs
    <2>3. LockedBy(qmu', QueueWriters \ {p}, QueueReaders, InsideQueue')
      BY <1>2, <2>2, LockUsed, SetsOfProcs
    <2>4. QED
      BY <1>1, <2>1, <2>3 DEF LockedBy, Locks
  <1>5. CASE Kind(p) \notin WritesQueue
    <2>1. p \notin QueueWriters /\ HasRead(qmu, p) /\ qmu' = RUnlocked(qmu, p)
      BY <1>5 DEF QueueWriters
    <2>2. LockedBy(qmu', QueueWriters, QueueReaders \ {p}, InsideQueue)
      BY <1>3, <2>1, LockRUnlocked, SetsOfProcs
    <2>3. LockedBy(qmu', QueueWriters, QueueReaders \ {p}, InsideQueue')
      BY <1>2, <2>2, LockUsed, SetsOfProcs
    <2>4. QED
      BY <1>1, <2>1, <2>3 DEF LockedBy, Locks
  <1>6. QED
    BY <1>4, <1>5

LEMMA InQueueForAllStep ==
  ASSUME PlaceInv, MutexInv, NEW p \in Procs, InQueueForAll(p)
  PROVE  MutexInv'
  <1>1. /\ at[p] = "inQueue" /\ HoldsQueue(p)
        /\ op' = op /\ tmu' = tmu
        /\ OnlyBy(p)
    BY DEF InQueueForAll, HoldsQueue, Goto, OnlyBy, PlaceInv
  <1>2. at'[p] \in {"next", "awaitCleaner"}
    BY DEF InQueueForAll, Goto, PlaceInv
  <1>3. \A t \in Topics : LockedBy(tmu[t], TopicWriters(t), TopicReaders(t), InsideTopic)'
    <2>1. ~WantsTopic(p)' /\ ~WantsTopic(p) /\ p \notin InsideTopic'
      BY <1>1, <1>2 DEF WantsTopic, InsideTopic, PlaceInv
    <2>2. QED
      BY <1>1, <2>1, TopicLocksKept
  <1>4. CASE Kind(p) = "clean"
    <2>1. at'[p] = "next" /\ qmu' = RUnlocked(qmu, p) /\ HasRead(qmu, p)
      BY <1>1, <1>4 DEF InQueueForAll, Goto, HoldsQueue, PlaceInv, WritesQueue
    <2>2. WantsQueue(p) /\ ~WantsQueue(p)' /\ Kind(p)' = Kind(p) /\ Kind(p) \notin WritesQueue
      BY <1>1, <1>4, <2>1 DEF WantsQueue, Kind, Visiting, WritesQueue
    <2>3. LockedBy(qmu, QueueWriters, QueueReaders, InsideQueue)'
      BY <1>1, <2>1, <2>2, QueueLockLeft
    <2>4. QED
      BY <1>3, <2>3 DEF MutexInv
  <1>5. CASE Kind(p) # "clean"
    <2>1. qmu' = qmu
      BY <1>5 DEF InQueueForAll
    <2>2. /\ p \in QueueWriters' <=> p \in QueueWriters
          /\ p \in QueueReaders' <=> p \in QueueReaders
      BY <1>1, <1>2, <1>5 DEF QueueWriters, QueueReaders, WantsQueue, Visiting, Kind
    <2>3. LockedBy(qmu, QueueWriters, QueueReaders, InsideQueue)'
      BY <1>1, <2>1, <2>2, QueueLockKept
    <2>4. QED
      BY <1>3, <2>3 DEF MutexInv
  <1>6. QED
    BY <1>4, <1>5

LEMMA UnlockQueueStep ==
  ASSUME PlaceInv, MutexInv, NEW p \in Procs, UnlockQueue(p)
  PROVE  MutexInv'
  <1>1. /\ at[p] = "unlockQueue" /\ at'[p] = "idle"
        /\ op' = op /\ tmu' = tmu
        /\ OnlyBy(p)
    BY DEF UnlockQueue, Goto, OnlyBy, PlaceInv
  <1>2. \A t \in Topics : LockedBy(tmu[t], TopicWriters(t), TopicReaders(t), InsideTopic)'
    <2>1. ~WantsTopic(p)' /\ ~WantsTopic(p) /\ p \notin InsideTopic'
      BY <1>1 DEF WantsTopic, InsideTopic, PlaceInv
    <2>2. QED
      BY <1>1, <2>1, TopicLocksKept
  <1>3. WantsQueue(p) /\ ~WantsQueue(p)' /\ Kind(p)' = Kind(p) /\ p \in InsideQueue
    BY <1>1 DEF WantsQueue, Visiting, Kind, InsideQueue
  <1>4. Kind(p) \notin WritesQueue => HasRead(qmu, p)
    BY <1>3 DEF MutexInv, LockedBy, QueueReaders, HasRead
  <1>5. LockedBy(qmu, QueueWriters, QueueReaders, InsideQueue)'
    BY <1>1, <1>3, <1>4, QueueLockLeft DEF UnlockQueue
  <1>6. QED
    BY <1>2, <1>5 DEF MutexInv

\* Steps that leave q.mu alone while p holds it, or while it does not want it.
LEMMA WithinQueue ==
  ASSUME PlaceInv, MutexInv, NEW p \in Procs, qmu' = qmu, OnlyBy(p), Kind(p)' = Kind(p),
         \/ /\ at[p] \in Visiting
            /\ at'[p] \in Visiting \/ (Kind(p) # "clean" /\ at'[p] = "unlockQueue")
                 \/ (Kind(p) = "clean" /\ at'[p] = "idle")
         \/ HoldsQueue(p) /\ Kind(p) # "clean" /\ at'[p] \in {"unlockQueue", "lockTopic"}
  PROVE  LockedBy(qmu, QueueWriters, QueueReaders, InsideQueue)'
  <1>1. WantsQueue(p)' <=> WantsQueue(p)
    BY DEF WantsQueue, Visiting, PlaceInv, ForAll, HoldsQueue
  <1>2. p \in InsideQueue' => p \in InsideQueue \/ HoldsQueue(p)
    BY <1>1 DEF InsideQueue, WantsQueue, Visiting
  <1>3. /\ p \in QueueWriters' <=> p \in QueueWriters
        /\ p \in QueueReaders' <=> p \in QueueReaders
    BY <1>1 DEF QueueWriters, QueueReaders
  <1>4. QED
    BY <1>2, <1>3, QueueLockKept

LEMMA InQueueStep ==
  ASSUME PlaceInv, MutexInv, NEW p \in Procs, InQueue(p)
  PROVE  MutexInv'
  <1>1. /\ at[p] = "inQueue" /\ HoldsQueue(p) /\ Kind(p) # "clean"
        /\ at'[p] \in {"unlockQueue", "lockTopic"}
        /\ op' = op /\ tmu' = tmu /\ qmu' = qmu
        /\ OnlyBy(p)
        /\ Kind(p)' = Kind(p)
    BY DEF InQueue, GivesUp, GoesOn, HoldsQueue, Goto, OnlyBy, PlaceInv, Names, Kind
  <1>2. \A t \in Topics : LockedBy(tmu[t], TopicWriters(t), TopicReaders(t), InsideTopic)'
    <2>1. ~WantsTopic(p)' /\ ~WantsTopic(p) /\ p \notin InsideTopic'
      BY <1>1 DEF WantsTopic, InsideTopic, PlaceInv
    <2>2. QED
      BY <1>1, <2>1, TopicLocksKept
  <1>3. QED
    BY <1>1, <1>2, WithinQueue DEF MutexInv

LEMMA LockTopicStep ==
  ASSUME PlaceInv, MutexInv, NEW p \in Procs, LockTopic(p)
  PROVE  MutexInv'
  <1> PICK s \in Topics : Name(p) = s
    BY DeleteIsStuck DEF PlaceInv, Visiting
  <1>1. /\ at[p] = "lockTopic" /\ at'[p] = "inTopic"
        /\ op' = op /\ qmu' = qmu
        /\ OnlyBy(p)
        /\ Kind(p)' = Kind(p)
    BY DeleteIsStuck DEF LockTopic, Goto, OnlyBy, PlaceInv, Kind, Visiting
  <1>2. LockedBy(qmu, QueueWriters, QueueReaders, InsideQueue)'
    BY <1>1, WithinQueue DEF Visiting
  <1>3. p \notin InsideTopic /\ InsideTopic' = InsideTopic
    BY <1>1 DEF InsideTopic, OnlyBy
  <1>4. ASSUME NEW t \in Topics, t # s
        PROVE  LockedBy(tmu[t], TopicWriters(t), TopicReaders(t), InsideTopic)'
    <2>1. TopicWriters(t)' = TopicWriters(t) /\ TopicReaders(t)' = TopicReaders(t)
      BY <1>1, <1>4 DEF OnlyBy, TopicWriters, TopicReaders, WantsTopic, Kind, Name
    <2>2. tmu'[t] = tmu[t]
      BY <1>4 DEF LockTopic, PlaceInv
    <2>3. LockedBy(tmu[t], TopicWriters(t), TopicReaders(t), InsideTopic)
      BY DEF MutexInv
    <2>4. QED
      BY <1>3, <2>1, <2>2, <2>3 DEF LockedBy, Locks
  <1>5. LockedBy(tmu[s], TopicWriters(s), TopicReaders(s), InsideTopic)
    BY <1>1 DEF MutexInv
  <1>6. p \notin TopicWriters(s) /\ p \notin TopicReaders(s)
    BY <1>1 DEF TopicWriters, TopicReaders, WantsTopic
  <1>7. CASE Kind(p) \in WritesTopic
    <2>1. /\ TopicWriters(s)' = TopicWriters(s) \cup {p}
          /\ TopicReaders(s)' = TopicReaders(s)
      BY <1>1, <1>6, <1>7 DEF OnlyBy, TopicWriters, TopicReaders, WantsTopic, Kind, Name
    <2>2. CanAnnounce(tmu[s]) /\ tmu'[s] = Announced(tmu[s], p)
      BY <1>1, <1>7 DEF LockTopic, PlaceInv
    <2>3. LockedBy(tmu'[s], TopicWriters(s) \cup {p}, TopicReaders(s), InsideTopic)
      BY <1>3, <1>5, <2>2, LockAnnounced
    <2>4. LockedBy(tmu[s], TopicWriters(s), TopicReaders(s), InsideTopic)'
      BY <1>1, <1>3, <2>1, <2>3 DEF LockedBy, Locks, Name
    <2>5. QED
      BY <1>1, <1>2, <1>4, <2>4 DEF MutexInv
  <1>8. CASE Kind(p) \notin WritesTopic
    <2>1. /\ TopicReaders(s)' = TopicReaders(s) \cup {p}
          /\ TopicWriters(s)' = TopicWriters(s)
      BY <1>1, <1>6, <1>8 DEF OnlyBy, TopicWriters, TopicReaders, WantsTopic, Kind, Name
    <2>2. tmu'[s] = RLocked(tmu[s], p)
      BY <1>1, <1>8 DEF LockTopic, PlaceInv
    <2>3. LockedBy(tmu'[s], TopicWriters(s), TopicReaders(s) \cup {p}, InsideTopic)
      BY <1>1, <1>3, <1>5, <1>6, <2>2, LockRead, SetsOfProcs
    <2>4. LockedBy(tmu[s], TopicWriters(s), TopicReaders(s), InsideTopic)'
      BY <1>1, <1>3, <2>1, <2>3 DEF LockedBy, Locks, Name
    <2>5. QED
      BY <1>1, <1>2, <1>4, <2>4 DEF MutexInv
  <1>9. QED
    BY <1>7, <1>8

LEMMA InTopicStep ==
  ASSUME PlaceInv, MutexInv, NEW p \in Procs, InTopic(p)
  PROVE  MutexInv'
  <1>1. /\ at[p] = "inTopic" /\ HoldsTopic(p)
        /\ at'[p] \in {"lockAgain", "unlockTopic"}
        /\ op' = op /\ qmu' = qmu /\ tmu' = tmu
        /\ OnlyBy(p)
        /\ Kind(p)' = Kind(p)
    BY DEF InTopic, HoldsTopic, Goto, OnlyBy, PlaceInv, Kind
  <1>2. LockedBy(qmu, QueueWriters, QueueReaders, InsideQueue)'
    BY <1>1, WithinQueue DEF Visiting
  <1>3. WantsTopic(p)' /\ WantsTopic(p)
    BY <1>1 DEF WantsTopic
  <1>4. \A t \in Topics : LockedBy(tmu[t], TopicWriters(t), TopicReaders(t), InsideTopic)'
    BY <1>1, <1>3, TopicLocksKept
  <1>5. QED
    BY <1>2, <1>4 DEF MutexInv

LEMMA UnlockTopicStep ==
  ASSUME PlaceInv, MutexInv, NEW p \in Procs, UnlockTopic(p)
  PROVE  MutexInv'
  <1> PICK s \in Topics : Name(p) = s
    BY DEF UnlockTopic, PlaceInv, Visiting
  <1>1. /\ at[p] = "unlockTopic"
        /\ at'[p] = IF Kind(p) \in ForAll THEN "next" ELSE "unlockQueue"
        /\ op' = op /\ qmu' = qmu
        /\ OnlyBy(p)
        /\ Kind(p)' = Kind(p)
    BY DEF UnlockTopic, Goto, OnlyBy, PlaceInv, Kind, Visiting
  <1>2. LockedBy(qmu, QueueWriters, QueueReaders, InsideQueue)'
    BY <1>1, WithinQueue DEF Visiting, ForAll
  <1>3. p \in InsideTopic /\ \A q \in Procs : q \in InsideTopic' => q \in InsideTopic
    BY <1>1 DEF InsideTopic, OnlyBy
  <1>4. ASSUME NEW t \in Topics, t # s
        PROVE  LockedBy(tmu[t], TopicWriters(t), TopicReaders(t), InsideTopic)'
    <2>1. TopicWriters(t)' = TopicWriters(t) /\ TopicReaders(t)' = TopicReaders(t)
      BY <1>1, <1>4 DEF OnlyBy, TopicWriters, TopicReaders, WantsTopic, Kind, Name
    <2>2. tmu'[t] = tmu[t]
      BY <1>4 DEF UnlockTopic, PlaceInv
    <2>3. LockedBy(tmu[t], TopicWriters(t), TopicReaders(t), InsideTopic)
      BY DEF MutexInv
    <2>4. LockedBy(tmu[t], TopicWriters(t), TopicReaders(t), InsideTopic')
      BY <1>3, <2>3, LockUsed, SetsOfProcs
    <2>5. QED
      BY <2>1, <2>2, <2>4 DEF LockedBy, Locks
  <1>5. LockedBy(tmu[s], TopicWriters(s), TopicReaders(s), InsideTopic)
    BY <1>1 DEF MutexInv
  <1>6. ~WantsTopic(p)'
    BY <1>1 DEF WantsTopic
  <1>7. /\ TopicWriters(s)' = TopicWriters(s) \ {p}
        /\ TopicReaders(s)' = TopicReaders(s) \ {p}
    BY <1>1, <1>6 DEF OnlyBy, TopicWriters, TopicReaders, WantsTopic, Kind, Name
  <1>8. CASE Kind(p) \in WritesTopic
    <2>1. p \in TopicWriters(s) /\ p \notin TopicReaders(s)
      BY <1>1, <1>8 DEF TopicWriters, TopicReaders, WantsTopic
    <2>2. tmu'[s] = WUnlocked(tmu[s])
      BY <1>1, <1>8 DEF UnlockTopic, PlaceInv
    <2>3. LockedBy(tmu'[s], TopicWriters(s) \ {p}, TopicReaders(s), InsideTopic)
      BY <1>1, <1>3, <1>5, <2>1, <2>2, LockWUnlocked, SetsOfProcs
    <2>4. LockedBy(tmu'[s], TopicWriters(s) \ {p}, TopicReaders(s), InsideTopic')
      BY <1>1, <1>3, <2>3, LockUsed, SetsOfProcs
    <2>5. LockedBy(tmu[s], TopicWriters(s), TopicReaders(s), InsideTopic)'
      BY <1>1, <1>7, <2>1, <2>4 DEF LockedBy, Locks, Name
    <2>6. QED
      BY <1>1, <1>2, <1>4, <2>5 DEF MutexInv
  <1>9. CASE Kind(p) \notin WritesTopic
    <2>1. p \in TopicReaders(s) /\ p \notin TopicWriters(s)
      BY <1>1, <1>9 DEF TopicWriters, TopicReaders, WantsTopic
    <2>2. tmu'[s] = RUnlocked(tmu[s], p)
      BY <1>1, <1>9 DEF UnlockTopic, PlaceInv
    <2>3. HasRead(tmu[s], p)
      BY <1>3, <1>5, <2>1 DEF LockedBy, HasRead
    <2>4. LockedBy(tmu'[s], TopicWriters(s), TopicReaders(s) \ {p}, InsideTopic)
      BY <1>1, <1>5, <2>2, <2>3, LockRUnlocked, SetsOfProcs
    <2>5. LockedBy(tmu'[s], TopicWriters(s), TopicReaders(s) \ {p}, InsideTopic')
      BY <1>1, <1>3, <2>4, LockUsed, SetsOfProcs
    <2>6. LockedBy(tmu[s], TopicWriters(s), TopicReaders(s), InsideTopic)'
      BY <1>1, <1>7, <2>1, <2>5 DEF LockedBy, Locks, Name
    <2>7. QED
      BY <1>1, <1>2, <1>4, <2>6 DEF MutexInv
  <1>10. QED
    BY <1>8, <1>9

LEMMA NextTopicStep ==
  ASSUME PlaceInv, MutexInv, NEW p \in Procs, NextTopic(p)
  PROVE  MutexInv'
  <1>1. /\ at[p] = "next"
        /\ at'[p] \in {"lockTopic", IF Kind(p) = "clean" THEN "idle" ELSE "unlockQueue"}
        /\ qmu' = qmu /\ tmu' = tmu
        /\ OnlyBy(p)
        /\ Kind(p)' = Kind(p)
    BY DEF NextTopic, Goto, OnlyBy, PlaceInv, Kind
  <1>2. LockedBy(qmu, QueueWriters, QueueReaders, InsideQueue)'
    BY <1>1, WithinQueue DEF Visiting
  <1>3. ~WantsTopic(p)' /\ ~WantsTopic(p) /\ p \notin InsideTopic'
    BY <1>1 DEF WantsTopic, InsideTopic
  <1>4. QED
    BY <1>1, <1>2, <1>3, TopicLocksKept DEF MutexInv

\* An operation that begins has asked for no lock yet.
LEMMA BeginStep ==
  ASSUME PlaceInv, MutexInv, NEW p \in Procs, UNCHANGED <<qmu, tmu>>, OnlyBy(p),
         at[p] \in {"idle", "lockQueue"}, at'[p] \in {"lockQueue", "exited"}
  PROVE  MutexInv'
  <1>1. /\ p \notin QueueWriters /\ p \notin QueueWriters'
        /\ p \notin QueueReaders /\ p \notin QueueReaders'
        /\ p \notin InsideQueue'
    BY DEF QueueWriters, QueueReaders, InsideQueue, WantsQueue, Visiting
  <1>2. ~WantsTopic(p)' /\ ~WantsTopic(p) /\ p \notin InsideTopic'
    BY DEF WantsTopic, InsideTopic
  <1>3. QED
    BY <1>1, <1>2, QueueLockKept, TopicLocksKept DEF MutexInv

LEMMA MutexStep ==
  ASSUME PlaceInv, MutexInv, QueueNext
  PROVE  MutexInv'
  <1>0. Cleaner \in Procs /\ Closer \in Procs /\ Cleaner # Closer /\ Clients \subseteq Procs
    BY QueueAssumption DEF Procs
  <1>1. ASSUME NEW p \in Procs, Step(p) PROVE MutexInv'
    BY <1>1, LockQueueStep, InQueueStep, InQueueForAllStep, UnlockQueueStep, LockTopicStep,
       InTopicStep, UnlockTopicStep, NextTopicStep DEF Step
  <1>2. ASSUME NEW p \in Procs, NEW kind, NEW t, Begin(p, kind, t) PROVE MutexInv'
    BY <1>2, BeginStep DEF Begin, Goto, OnlyBy, PlaceInv
  <1>3. CASE TimerFires
    BY <1>3 DEF TimerFires, MutexInv, LockedBy, Locks, QueueWriters, QueueReaders, InsideQueue,
                WantsQueue, TopicWriters, TopicReaders, InsideTopic, WantsTopic, Kind, Name
  <1>4. CASE CleanerWakes
    BY <1>0, <1>4, BeginStep DEF CleanerWakes, Goto, OnlyBy, PlaceInv
  <1>5. CASE CleanerStops
    <2>1. /\ at' = [at EXCEPT ![Closer] = "next", ![Cleaner] = "exited"]
          /\ at[Closer] = "awaitCleaner" /\ at[Cleaner] = "idle"
          /\ Kind(Closer) = "close"
          /\ UNCHANGED <<op, qmu, tmu>>
      BY <1>0, <1>5 DEF CleanerStops, PlaceInv, ForAll, None
    <2>2. at'[Closer] = "next" /\ at'[Cleaner] = "exited"
            /\ \A q \in Procs \ {Closer, Cleaner} : at'[q] = at[q]
      BY <1>0, <2>1 DEF PlaceInv
    <2>3. /\ QueueWriters' = QueueWriters /\ QueueReaders' = QueueReaders
          /\ InsideQueue' = InsideQueue
      BY <1>0, <2>1, <2>2 DEF QueueWriters, QueueReaders, InsideQueue, WantsQueue, Visiting, Kind
    <2>4. InsideTopic' = InsideTopic
            /\ \A t \in Topics : /\ TopicWriters(t)' = TopicWriters(t)
                                 /\ TopicReaders(t)' = TopicReaders(t)
      BY <1>0, <2>1, <2>2 DEF TopicWriters, TopicReaders, InsideTopic, WantsTopic, Kind, Name
    <2>5. QED
      BY <2>1, <2>3, <2>4 DEF MutexInv, LockedBy, Locks
  <1>6. QED
    BY <1>0, <1>1, <1>2, <1>3, <1>4, <1>5 DEF QueueNext, Call, CloserCalls

-----------------------------------------------------------------------------
(* CloseInv, FileInv and UseInv are kept *)

LEMMA SpecialProcs ==
  /\ Cleaner \in Procs /\ Closer \in Procs /\ Cleaner # Closer
  /\ \A p \in Clients : p \in Procs /\ p # Cleaner /\ p # Closer
  BY QueueAssumption DEF Procs

\* While Close closes, nobody else is in the queue.
LEMMA CloserAlone ==
  ASSUME QueueInv, NEW p \in Procs, p # Closer, Closing
  PROVE  ~HoldsQueue(p) /\ p \notin InsideQueue
  <1>1. Kind(Closer) = "close"
    BY SpecialProcs DEF QueueInv, PlaceInv, Closing, Visiting
  <1>2. Closer \in QueueWriters /\ Closer \in InsideQueue
    BY <1>1, SpecialProcs
       DEF QueueWriters, InsideQueue, WantsQueue, WritesQueue, Closing, Visiting
  <1>3. QED
    BY <1>2, SpecialProcs, QueueExclusive DEF QueueInv

\* CloseInv depends on Close and the end of the cleanup alone.
LEMMA CloseKept ==
  ASSUME CloseInv, UNCHANGED <<done, qclosed>>,
         at'[Closer] = at[Closer], op'[Closer] = op[Closer], todo'[Closer] = todo[Closer],
         at[Cleaner] = "exited" => at'[Cleaner] = "exited"
  PROVE  CloseInv'
  BY DEF CloseInv, Closing, Name

LEMMA CloseStep ==
  ASSUME QueueInv, QueueNext
  PROVE  CloseInv'
  <1> USE SpecialProcs
  <1>0. PlaceInv /\ CloseInv
    BY DEF QueueInv
  <1>1. ASSUME NEW p \in Procs, p # Closer, Step(p) PROVE CloseInv'
    <2>1. Kind(p) # "close" /\ at[p] # "exited"
      BY <1>0, <1>1 DEF PlaceInv, AllOps, None, Step, LockQueue, InQueue, InQueueForAll,
         UnlockQueue, LockTopic, InTopic, UnlockTopic, NextTopic, HoldsQueue, HoldsTopic
    <2>2. /\ \A q \in Procs \ {p} : at'[q] = at[q] /\ op'[q] = op[q] /\ todo'[q] = todo[q]
          /\ UNCHANGED <<done, qclosed>>
      <3>1. CASE LockQueue(p) \/ InQueue(p) \/ UnlockQueue(p) \/ LockTopic(p) \/ InTopic(p)
                   \/ UnlockTopic(p)
        BY <1>0, <3>1 DEF PlaceInv, LockQueue, InQueue, GivesUp, GoesOn, UnlockQueue, LockTopic,
           InTopic, UnlockTopic, Goto
      <3>2. CASE InQueueForAll(p)
        BY <1>0, <2>1, <3>2 DEF PlaceInv, InQueueForAll, Goto
      <3>3. CASE NextTopic(p)
        BY <1>0, <2>1, <3>3 DEF PlaceInv, NextTopic, Goto
      <3>4. QED
        BY <1>1, <3>1, <3>2, <3>3 DEF Step
    <2>3. at[Cleaner] = "exited" => at'[Cleaner] = "exited"
      BY <2>1, <2>2
    <2>4. QED
      BY <1>0, <1>1, <2>2, <2>3, CloseKept
  <1>2. CASE Step(Closer)
    <2>1. at[Closer] \notin {"idle", "exited", "inClose"} /\ Kind(Closer) = "close"
            /\ at \in [Procs -> Places] /\ op \in [Procs -> (AllOps \cup {None, "clean", "close"}) \X (Topics \cup {None})]
            /\ todo \in [Procs -> SUBSET Topics]
      BY <1>0, <1>2 DEF PlaceInv, Step, LockQueue, InQueue, InQueueForAll, UnlockQueue,
         LockTopic, InTopic, UnlockTopic, NextTopic, HoldsQueue, HoldsTopic
    <2> USE <1>0, <2>1 DEF Goto, Closing, Visiting, Name
    <2>2. CASE LockQueue(Closer)
      BY <2>2 DEF LockQueue, CloseInv
    <2>3. CASE InQueue(Closer)
      BY <2>3 DEF InQueue, Names
    <2>4. CASE InQueueForAll(Closer)
      BY <2>4 DEF InQueueForAll, HoldsQueue, CloseInv
    <2>5. CASE UnlockQueue(Closer)
      BY <2>5 DEF UnlockQueue, CloseInv
    <2>6. CASE LockTopic(Closer)
      BY <2>6, DeleteIsStuck DEF QueueInv, LockTopic, CloseInv
    <2>7. CASE InTopic(Closer)
      BY <2>7 DEF InTopic, HoldsTopic, CloseInv
    <2>8. CASE UnlockTopic(Closer)
      BY <2>8 DEF UnlockTopic, CloseInv, ForAll
    <2>9. CASE NextTopic(Closer)
      <3>1. CASE \E t \in todo[Closer] : /\ todo' = [todo EXCEPT ![Closer] = todo[Closer] \ {t}]
                                        /\ op' = [op EXCEPT ![Closer] = <<Kind(Closer), t>>]
                                        /\ at' = [at EXCEPT ![Closer] = "lockTopic"]
                                        /\ UNCHANGED qclosed
        BY <2>9, <3>1 DEF NextTopic, CloseInv
      <3>2. CASE /\ qclosed' = (qclosed \/ Kind(Closer) = "close")
                 /\ Goto(Closer, IF Kind(Closer) = "clean" THEN "idle" ELSE "unlockQueue")
        <4>1. qclosed' = TRUE /\ at'[Closer] = "unlockQueue" /\ at'[Cleaner] = at[Cleaner]
                /\ done' = done /\ at[Closer] = "next"
          BY <2>9, <3>2 DEF NextTopic
        <4>2. QED
          BY <4>1 DEF CloseInv
      <3>3. QED
        BY <2>9, <3>1, <3>2 DEF NextTopic
    <2>10. QED
      BY <1>2, <2>2, <2>3, <2>4, <2>5, <2>6, <2>7, <2>8, <2>9 DEF Step
  <1>3. ASSUME NEW p \in Clients, Call(p) PROVE CloseInv'
    BY <1>0, <1>3, CloseKept DEF Call, Begin, Goto, PlaceInv
  <1>4. CASE TimerFires
    BY <1>0, <1>4, CloseKept DEF TimerFires
  <1>5. CASE CleanerWakes
    BY <1>0, <1>5, CloseKept DEF CleanerWakes, Goto, PlaceInv
  <1>6. CASE CloserCalls
    BY <1>0, <1>6 DEF CloserCalls, Begin, Goto, PlaceInv, CloseInv, Closing, Visiting
  <1>7. CASE CleanerStops
    BY <1>0, <1>7 DEF CleanerStops, PlaceInv, CloseInv, Closing, Visiting
  <1>8. QED
    BY <1>1, <1>2, <1>3, <1>4, <1>5, <1>6, <1>7 DEF QueueNext

\* Who holds q.mu to use it finds Close not begun or over.
LEMMA NotClosing ==
  ASSUME QueueInv, NEW p \in Procs, p # Closer, HoldsQueue(p), ~qclosed
  PROVE  ~done
  BY CloserAlone DEF QueueInv, CloseInv

\* FileInv when no file is opened or closed.
LEMMA FileKept ==
  ASSUME FileInv, UNCHANGED <<topics, opened>>,
         ~done' \/ at'[Closer] = "awaitCleaner" => ~done \/ at[Closer] = "awaitCleaner"
  PROVE  FileInv'
  BY DEF FileInv

\* UseInv of a process that is not the one to move.
LEMMA UseKept ==
  ASSUME NEW q \in Procs, UseInv(q), at'[q] = at[q], op'[q] = op[q], todo'[q] = todo[q],
         UNCHANGED opened, qclosed => qclosed'
  PROVE  UseInv(q)'
  BY DEF UseInv, Kind, Name

\* UseInv is about those that visit topics.
LEMMA UseElsewhere ==
  ASSUME NEW q \in Procs, at'[q] \notin Visiting
  PROVE  UseInv(q)'
  BY DEF UseInv, Visiting

\* Who is not in the queue cannot mind that files are opened.
LEMMA UseGrown ==
  ASSUME NEW q \in Procs, UseInv(q), q \notin InsideQueue,
         at'[q] = at[q], op'[q] = op[q], todo'[q] = todo[q],
         \A t \in Topics : opened[t] = 1 => opened'[t] = 1,
         todo[q] \subseteq Topics,
         at[q] \in Visiting \ {"next"} => Name(q) \in Topics
  PROVE  UseInv(q)'
  <1>1. at[q] \in Visiting => Kind(q) = "clean"
    BY DEF InsideQueue, WantsQueue, Visiting
  <1>2. CASE at[q] \in Visiting
    BY <1>1, <1>2 DEF UseInv, Kind, Name, NeedsFiles, ForAll, Visiting
  <1>3. CASE at[q] \notin Visiting
    BY <1>3, UseElsewhere
  <1>4. QED
    BY <1>2, <1>3

LEMMA InQueueUse ==
  ASSUME QueueInv, NEW p \in Procs, InQueue(p)
  PROVE  FileInv' /\ \A q \in Procs : UseInv(q)'
  <1>0. /\ PlaceInv /\ FileInv /\ MutexInv /\ CloseInv
        /\ at[p] = "inQueue" /\ Kind(p) \in Names /\ HoldsQueue(p)
        /\ UNCHANGED <<qclosed, done, op, todo>>
        /\ GivesUp(p) \/ GoesOn(p)
    BY DEF QueueInv, InQueue, HoldsQueue
  <1>1. /\ p # Closer /\ p # Cleaner /\ Name(p) \in Topics
        /\ ~qclosed => ~done
    BY <1>0, NotClosing DEF PlaceInv, Names, None
  <1>2. at'[Closer] = at[Closer] /\ \A q \in Procs \ {p} : at'[q] = at[q]
    BY <1>0, <1>1, SpecialProcs DEF PlaceInv, GivesUp, GoesOn, Goto
  <1>3. CASE GivesUp(p) \/ (GoesOn(p) /\ ~Opens(p))
    <2>1. UNCHANGED <<topics, opened>>
      BY <1>3 DEF GivesUp, GoesOn
    <2>2. FileInv'
      BY <1>0, <1>2, <2>1, FileKept
    <2>3. ASSUME NEW q \in Procs \ {p} PROVE UseInv(q)'
      BY <1>0, <1>2, <2>1, UseKept DEF QueueInv
    <2>4. UseInv(p)'
      <3>1. CASE at'[p] = "lockTopic"
        <4>1. GoesOn(p) /\ ~Opens(p) /\ Kind(p) # "create"
          BY <1>0, <1>3, <3>1 DEF PlaceInv, GivesUp, GoesOn, Goto
        <4>2. Kind(p) # "inspect" => Name(p) \in topics /\ ~done
          BY <1>0, <1>1, <4>1 DEF GoesOn, Refused, Opens, Names
        <4>3. Kind(p) # "inspect" => opened[Name(p)] = 1
          BY <1>0, <1>1, <4>2 DEF FileInv
        <4>4. QED
          BY <1>0, <2>1, <3>1, <4>3 DEF UseInv, Kind, Name, Names, NeedsFiles, ForAll
      <3>2. CASE at'[p] # "lockTopic"
        BY <1>0, <1>3, <3>2, UseElsewhere DEF PlaceInv, GivesUp, GoesOn, Goto, Visiting
      <3>3. QED
        BY <3>1, <3>2
    <2>5. QED
      BY <2>2, <2>3, <2>4
  <1>4. CASE GoesOn(p) /\ Opens(p)
    <2>1. /\ Name(p) \notin topics /\ opened[Name(p)] = 0
          /\ topics' = topics \cup {Name(p)}
          /\ opened' = [opened EXCEPT ![Name(p)] = opened[Name(p)] + 1]
          /\ Kind(p) \in {"enqueue", "create"}
      BY <1>0, <1>1, <1>4 DEF GoesOn, Opens, OpenTopic, FileInv
    <2>2. opened' = [opened EXCEPT ![Name(p)] = 1]
      BY <2>1
    <2>3. FileInv'
      BY <1>0, <1>1, <1>2, <2>1, <2>2 DEF FileInv
    <2>4. ASSUME NEW q \in Procs \ {p} PROVE UseInv(q)'
      <3>1. p \in QueueWriters
        BY <1>0, <2>1 DEF QueueWriters, WantsQueue, WritesQueue
      <3>2. q \notin InsideQueue
        BY <1>0, <3>1, QueueExclusive
      <3>3. QED
        BY <1>0, <1>1, <1>2, <2>2, <3>2, UseGrown DEF QueueInv, PlaceInv, FileInv
    <2>5. UseInv(p)'
      BY <1>0, <1>1, <2>1, <2>2, UseElsewhere
         DEF UseInv, Kind, Name, NeedsFiles, ForAll, FileInv, GoesOn, Goto, Visiting, PlaceInv
    <2>6. QED
      BY <2>3, <2>4, <2>5
  <1>5. QED
    BY <1>0, <1>3, <1>4

LEMMA InQueueForAllUse ==
  ASSUME QueueInv, NEW p \in Procs, InQueueForAll(p)
  PROVE  FileInv' /\ \A q \in Procs : UseInv(q)'
  <1>0. /\ PlaceInv /\ FileInv /\ CloseInv
        /\ at[p] = "inQueue" /\ HoldsQueue(p)
        /\ UNCHANGED <<topics, opened, qclosed, op>>
    BY DEF QueueInv, InQueueForAll, HoldsQueue
  <1>1. \A q \in Procs \ {p} : at'[q] = at[q] /\ todo'[q] = todo[q]
    BY <1>0 DEF PlaceInv, InQueueForAll, Goto
  <1>2. \A q \in Procs \ {p} : UseInv(q)'
    BY <1>0, <1>1, UseKept DEF QueueInv
  <1>3. CASE Kind(p) = "close"
    <2>1. p = Closer /\ at'[p] = "awaitCleaner" /\ ~done
      BY <1>0, <1>3 DEF PlaceInv, InQueueForAll, Goto, CloseInv, AllOps, None
    <2>2. FileInv'
      BY <1>0, <2>1, FileKept
    <2>3. UseInv(p)'
      BY <2>1, UseElsewhere DEF Visiting
    <2>4. QED
      BY <1>2, <2>2, <2>3
  <1>4. CASE Kind(p) # "close"
    <2>1. /\ p # Closer /\ done' = done /\ at'[p] = "next"
          /\ Kind(p) \in {"sync", "stats", "reset", "clean"}
          /\ todo'[p] = IF qclosed /\ Kind(p) \in {"sync", "reset"} THEN {} ELSE topics
      <3>1. p # Closer
        BY <1>0, <1>4, SpecialProcs DEF PlaceInv
      <3>2. CASE Kind(p) \in {"sync", "stats", "reset"}
        BY <1>0, <3>1, <3>2 DEF PlaceInv, InQueueForAll, Goto
      <3>3. CASE Kind(p) = "clean"
        BY <1>0, <3>1, <3>3 DEF PlaceInv, InQueueForAll, Goto
      <3>4. QED
        BY <1>4, <3>2, <3>3 DEF InQueueForAll
    <2>2. at'[Closer] = at[Closer]
      BY <1>1, <2>1, SpecialProcs
    <2>3. FileInv'
      BY <1>0, <2>1, <2>2, FileKept
    <2>4. Kind(p) \in {"sync", "clean"} => \A t \in todo'[p] : opened[t] = 1
      <3>1. CASE Kind(p) = "sync"
        BY <1>0, <2>1, <3>1, NotClosing DEF FileInv
      <3>2. CASE Kind(p) = "clean"
        <4>1. p = Cleaner
          BY <1>0, <3>2 DEF PlaceInv, AllOps, None
        <4>2. ~done \/ at[Closer] = "awaitCleaner"
          BY <1>0, <4>1 DEF CloseInv
        <4>3. QED
          BY <1>0, <2>1, <3>2, <4>2 DEF FileInv
      <3>3. QED
        BY <3>1, <3>2
    <2>5. UseInv(p)'
      BY <1>0, <2>1, <2>4 DEF UseInv, Kind, NeedsFiles, ForAll, FileInv
    <2>6. QED
      BY <1>2, <2>3, <2>5
  <1>5. QED
    BY <1>3, <1>4

LEMMA LockTopicUse ==
  ASSUME QueueInv, NEW p \in Procs, LockTopic(p)
  PROVE  FileInv' /\ \A q \in Procs : UseInv(q)'
  <1>1. /\ at[p] = "lockTopic" /\ at' = [at EXCEPT ![p] = "inTopic"]
        /\ UNCHANGED <<topics, opened, qclosed, done, op, todo>>
    BY DeleteIsStuck DEF QueueInv, LockTopic, Goto
  <1>2. at'[p] = "inTopic" /\ \A q \in Procs \ {p} : at'[q] = at[q]
    BY <1>1 DEF QueueInv, PlaceInv
  <1>3. FileInv'
    BY <1>1, <1>2, SpecialProcs, FileKept DEF QueueInv
  <1>4. \A q \in Procs \ {p} : UseInv(q)'
    BY <1>1, <1>2, UseKept DEF QueueInv
  <1>5. UseInv(p)'
    BY <1>1, <1>2 DEF QueueInv, UseInv, Kind, Name, Visiting
  <1>6. QED
    BY <1>3, <1>4, <1>5

LEMMA InTopicUse ==
  ASSUME QueueInv, NEW p \in Procs, InTopic(p)
  PROVE  FileInv' /\ \A q \in Procs : UseInv(q)'
  <1>0. /\ PlaceInv /\ FileInv /\ CloseInv /\ UseInv(p)
        /\ at[p] = "inTopic" /\ Name(p) \in Topics
        /\ UNCHANGED <<topics, qclosed, done, op, todo>>
    BY DEF QueueInv, PlaceInv, InTopic, HoldsTopic, Visiting
  <1>1. /\ at'[p] = IF Deletes(p) /\ opened[Name(p)] > 0 THEN "lockAgain" ELSE "unlockTopic"
        /\ \A q \in Procs \ {p} : at'[q] = at[q]
        /\ opened' = IF Kind(p) = "close" THEN [opened EXCEPT ![Name(p)] = 0] ELSE opened
    BY <1>0 DEF PlaceInv, InTopic, Goto
  <1>2. CASE Kind(p) = "close"
    <2>1. p = Closer /\ Closing /\ done /\ at[Cleaner] = "exited"
      BY <1>0, <1>2 DEF PlaceInv, CloseInv, Closing, Visiting, AllOps, None
    <2>2. opened' = [opened EXCEPT ![Name(p)] = 0]
      BY <1>1, <1>2
    <2>3. FileInv'
      BY <1>0, <1>1, <2>1, <2>2 DEF FileInv
    <2>4. ASSUME NEW q \in Procs \ {p} PROVE UseInv(q)'
      <3>1. CASE q = Cleaner
        BY <1>1, <2>1, <3>1, UseElsewhere DEF Visiting
      <3>2. CASE q # Cleaner
        <4>1. Kind(q) # "clean" /\ q \notin InsideQueue
          BY <1>0, <2>1, <3>2, CloserAlone DEF PlaceInv, AllOps, None
        <4>2. at[q] \notin Visiting
          BY <4>1 DEF InsideQueue, WantsQueue, Visiting
        <4>3. QED
          BY <1>1, <4>2, UseElsewhere
      <3>3. QED
        BY <3>1, <3>2
    <2>5. UseInv(p)'
      <3>1. at'[p] = "unlockTopic" /\ Name(p) \notin todo[p]
        BY <1>0, <1>1, <1>2, <2>1 DEF Deletes, CloseInv
      <3>2. \A t \in todo[p] : opened[t] = 1
        BY <1>0, <1>2 DEF UseInv, NeedsFiles, ForAll, Visiting
      <3>3. \A t \in todo[p] : opened'[t] = 1
        BY <1>0, <2>2, <3>1, <3>2 DEF FileInv, PlaceInv
      <3>4. QED
        BY <1>0, <1>2, <3>1, <3>3 DEF UseInv, Kind, Name, Visiting
    <2>6. QED
      BY <2>3, <2>4, <2>5
  <1>3. CASE Kind(p) # "close"
    <2>1. opened' = opened
      BY <1>1, <1>3
    <2>2. FileInv'
      BY <1>0, <1>1, <2>1, SpecialProcs, FileKept
    <2>3. \A q \in Procs \ {p} : UseInv(q)'
      BY <1>0, <1>1, <2>1, UseKept DEF QueueInv
    <2>4. Kind(p)' = Kind(p) /\ Name(p)' = Name(p) /\ todo'[p] = todo[p]
      BY <1>0 DEF Kind, Name
    <2>5. UseInv(p)'
      <3>1. CASE at'[p] = "lockAgain"
        <4>1. Deletes(p)
          BY <1>1, <3>1
        <4>2. Kind(p) = "reset" /\ ~qclosed => \A t \in Topics :
                 opened[t] = 1 => t \in todo[p] \/ t = Name(p)
          BY <1>0 DEF UseInv, Visiting
        <4>3. QED
          BY <1>0, <2>1, <2>4, <3>1, <4>1, <4>2 DEF UseInv, Deletes, NeedsFiles, ForAll
      <3>2. CASE at'[p] = "unlockTopic"
        <4>1. Deletes(p) => opened[Name(p)] = 0
          BY <1>0, <1>1, <3>2 DEF FileInv
        <4>2. Kind(p) = "reset" /\ ~qclosed => \A t \in Topics : opened[t] = 1 => t \in todo[p]
          BY <1>0, <4>1 DEF UseInv, Visiting, Deletes
        <4>3. Kind(p) \in NeedsFiles \cap ForAll => \A t \in todo[p] : opened[t] = 1
          BY <1>0 DEF UseInv, Visiting
        <4>4. QED
          BY <1>0, <2>1, <2>4, <3>2, <4>1, <4>2, <4>3 DEF UseInv, Deletes
      <3>3. QED
        BY <1>1, <3>1, <3>2
    <2>6. QED
      BY <2>2, <2>3, <2>5
  <1>4. QED
    BY <1>2, <1>3

LEMMA UnlockTopicUse ==
  ASSUME QueueInv, NEW p \in Procs, UnlockTopic(p)
  PROVE  FileInv' /\ \A q \in Procs : UseInv(q)'
  <1>0. /\ PlaceInv /\ FileInv /\ UseInv(p)
        /\ at[p] = "unlockTopic" /\ Name(p) \in Topics
        /\ UNCHANGED <<opened, qclosed, done, op, todo>>
        /\ topics' = IF Kind(p) = "delete" THEN topics \ {Name(p)} ELSE topics
    BY DEF QueueInv, PlaceInv, UnlockTopic, Visiting
  <1>1. /\ at'[p] = IF Kind(p) \in ForAll THEN "next" ELSE "unlockQueue"
        /\ \A q \in Procs \ {p} : at'[q] = at[q]
    BY <1>0 DEF PlaceInv, UnlockTopic, Goto
  <1>2. at'[Closer] = "awaitCleaner" => at[Closer] = "awaitCleaner"
    BY <1>1, SpecialProcs
  <1>3. FileInv'
    BY <1>0, <1>2 DEF FileInv, UseInv
  <1>4. \A q \in Procs \ {p} : UseInv(q)'
    BY <1>0, <1>1, UseKept DEF QueueInv
  <1>5. UseInv(p)'
    BY <1>0, <1>1, UseElsewhere DEF UseInv, Kind, Name, ForAll, Visiting
  <1>6. QED
    BY <1>3, <1>4, <1>5

LEMMA NextTopicUse ==
  ASSUME QueueInv, NEW p \in Procs, NextTopic(p)
  PROVE  FileInv' /\ \A q \in Procs : UseInv(q)'
  <1>0. /\ PlaceInv /\ FileInv /\ UseInv(p)
        /\ at[p] = "next" /\ Kind(p) \in ForAll
        /\ UNCHANGED <<opened, done>>
    BY DEF QueueInv, PlaceInv, NextTopic
  <1>1. /\ at'[p] # "awaitCleaner"
        /\ \A q \in Procs \ {p} : at'[q] = at[q] /\ op'[q] = op[q] /\ todo'[q] = todo[q]
        /\ qclosed => qclosed'
    BY <1>0 DEF PlaceInv, NextTopic, Goto
  <1>2. at'[Closer] = "awaitCleaner" => at[Closer] = "awaitCleaner"
    BY <1>1, SpecialProcs
  <1>3. \A q \in Procs \ {p} : UseInv(q)'
    BY <1>0, <1>1, UseKept DEF QueueInv
  <1>4. CASE \E t \in todo[p] : /\ todo' = [todo EXCEPT ![p] = todo[p] \ {t}]
                                 /\ op' = [op EXCEPT ![p] = <<Kind(p), t>>]
                                 /\ at' = [at EXCEPT ![p] = "lockTopic"]
                                 /\ UNCHANGED <<qclosed, topics>>
    <2> PICK t \in todo[p] : /\ todo' = [todo EXCEPT ![p] = todo[p] \ {t}]
                             /\ op' = [op EXCEPT ![p] = <<Kind(p), t>>]
                             /\ at' = [at EXCEPT ![p] = "lockTopic"]
                             /\ UNCHANGED <<qclosed, topics>>
      BY <1>4
    <2>1. FileInv'
      BY <1>0, <1>2, FileKept
    <2>2. /\ Kind(p)' = Kind(p) /\ Name(p)' = t
          /\ at'[p] = "lockTopic" /\ todo'[p] = todo[p] \ {t}
      BY <1>0 DEF PlaceInv, Kind, Name
    <2>3. UseInv(p)'
      BY <1>0, <2>2 DEF UseInv, NeedsFiles, ForAll, Visiting
    <2>4. QED
      BY <1>3, <2>1, <2>3
  <1>5. CASE /\ todo[p] = {}
             /\ topics' = IF Kind(p) = "reset" /\ ~qclosed THEN {} ELSE topics
             /\ Goto(p, IF Kind(p) = "clean" THEN "idle" ELSE "unlockQueue")
    <2>1. FileInv'
      <3>1. CASE Kind(p) = "reset" /\ ~qclosed
        BY <1>0, <1>5, <3>1 DEF FileInv, UseInv, Visiting
      <3>2. CASE ~(Kind(p) = "reset" /\ ~qclosed)
        <4>1. topics' = topics
          BY <1>5, <3>2
        <4>2. QED
          BY <1>0, <1>2, <4>1, FileKept
      <3>3. QED
        BY <3>1, <3>2
    <2>2. UseInv(p)'
      BY <1>0, <1>5, UseElsewhere DEF PlaceInv, Goto, Visiting
    <2>3. QED
      BY <1>3, <2>1, <2>2
  <1>6. QED
    BY <1>4, <1>5 DEF NextTopic, Goto

\* A step that opens no file, of a process that ends up on no topic.
LEMMA QuietUse ==
  ASSUME QueueInv, NEW p \in Procs, UNCHANGED <<topics, opened, qclosed, done>>,
         at'[p] \notin Visiting \cup {"awaitCleaner"},
         \A q \in Procs \ {p} : at'[q] = at[q] /\ op'[q] = op[q] /\ todo'[q] = todo[q]
  PROVE  FileInv' /\ \A q \in Procs : UseInv(q)'
  <1>1. at'[Closer] = "awaitCleaner" => at[Closer] = "awaitCleaner"
    BY SpecialProcs
  <1>2. FileInv'
    BY <1>1, FileKept DEF QueueInv
  <1>3. QED
    BY <1>2, UseKept, UseElsewhere DEF QueueInv

LEMMA UseStep ==
  ASSUME QueueInv, QueueNext
  PROVE  FileInv' /\ \A q \in Procs : UseInv(q)'
  <1> USE SpecialProcs
  <1>0. PlaceInv
    BY DEF QueueInv
  <1>1. ASSUME NEW p \in Procs, NEW kind, NEW t, Begin(p, kind, t)
        PROVE  FileInv' /\ \A q \in Procs : UseInv(q)'
    BY <1>0, <1>1, QuietUse DEF PlaceInv, Begin, Goto, Visiting
  <1>2. ASSUME NEW p \in Procs, LockQueue(p) \/ UnlockQueue(p)
        PROVE  FileInv' /\ \A q \in Procs : UseInv(q)'
    BY <1>0, <1>2, QuietUse DEF PlaceInv, LockQueue, UnlockQueue, Goto, Visiting
  <1>3. ASSUME NEW p \in Procs, Step(p)
        PROVE  FileInv' /\ \A q \in Procs : UseInv(q)'
    BY <1>2, <1>3, InQueueUse, InQueueForAllUse, LockTopicUse, InTopicUse, UnlockTopicUse,
       NextTopicUse DEF Step
  <1>4. CASE TimerFires
    BY <1>4, FileKept, UseKept DEF QueueInv, TimerFires
  <1>5. CASE CleanerWakes
    BY <1>0, <1>5, QuietUse DEF PlaceInv, CleanerWakes, Goto, Visiting
  <1>6. CASE CleanerStops
    <2>1. /\ at'[Closer] = "next" /\ at'[Cleaner] = "exited"
          /\ \A q \in Procs \ {Closer, Cleaner} : at'[q] = at[q] /\ todo'[q] = todo[q]
          /\ todo'[Closer] = topics
          /\ at[Closer] = "awaitCleaner"
          /\ UNCHANGED <<topics, opened, qclosed, done, op>>
      BY <1>0, <1>6 DEF PlaceInv, CleanerStops
    <2>2. FileInv'
      BY <2>1, FileKept DEF QueueInv
    <2>3. UseInv(Cleaner)' /\ \A q \in Procs \ {Closer, Cleaner} : UseInv(q)'
      BY <2>1, UseElsewhere, UseKept DEF QueueInv, Visiting
    <2>4. UseInv(Closer)'
      <3>1. Kind(Closer) = "close"
        BY <1>0, <2>1 DEF PlaceInv, ForAll, None
      <3>2. \A t \in topics : opened[t] = 1
        BY <2>1 DEF QueueInv, FileInv
      <3>3. QED
        BY <2>1, <3>1, <3>2 DEF UseInv, Kind
    <2>5. QED
      BY <2>2, <2>3, <2>4
  <1>7. QED
    BY <1>1, <1>3, <1>4, <1>5, <1>6 DEF QueueNext, Call, CloserCalls

-----------------------------------------------------------------------------
(* The invariant, and what follows from it *)

LEMMA QueueInitInv ==
  ASSUME QueueInit
  PROVE  QueueInv
  <1>1. /\ at = [p \in Procs |-> "idle"] /\ op = [p \in Procs |-> <<None, None>>]
        /\ \A p \in Procs : Kind(p) = None /\ at[p] = "idle"
    BY DEF QueueInit, Kind
  <1>2. PlaceInv
    <2>1. /\ at \in [Procs -> Places \ {"inClose"}]
          /\ op \in [Procs -> (AllOps \cup {None, "clean", "close"}) \X (Topics \cup {None})]
          /\ todo \in [Procs -> SUBSET Topics]
      BY <1>1 DEF QueueInit, Places
    <2>2. DOMAIN tmu = Topics /\ {qclosed, done, tick} \subseteq BOOLEAN
      BY DEF QueueInit
    <2>3. None \notin Names
      BY DEF None, Names
    <2>4. QED
      BY <1>1, <2>1, <2>2, <2>3 DEF PlaceInv, Visiting
  <1>3. MutexInv
    <2>1. /\ QueueWriters = {} /\ QueueReaders = {}
          /\ \A t \in Topics : TopicWriters(t) = {} /\ TopicReaders(t) = {}
      BY <1>1 DEF QueueWriters, QueueReaders, WantsQueue, Visiting, TopicWriters, TopicReaders,
         WantsTopic
    <2>2. /\ Unlocked \in Locks /\ Unlocked.readers = {} /\ Unlocked.waiting = {}
          /\ \A p \in Procs : Unlocked.writer # p
      BY QueueAssumption DEF Unlocked, Locks, Procs
    <2>3. \A I : LockedBy(Unlocked, {}, {}, I)
      BY <2>2 DEF LockedBy
    <2>4. qmu = Unlocked /\ \A t \in Topics : tmu[t] = Unlocked
      BY DEF QueueInit
    <2>5. QED
      BY <2>1, <2>3, <2>4 DEF MutexInv
  <1>4. CloseInv
    BY <1>1, SpecialProcs DEF QueueInit, CloseInv, Closing, Visiting
  <1>5. FileInv
    BY DEF QueueInit, FileInv
  <1>6. \A p \in Procs : UseInv(p)
    BY <1>1 DEF UseInv, Visiting
  <1>7. QED
    BY <1>2, <1>3, <1>4, <1>5, <1>6 DEF QueueInv

LEMMA QueueStutter ==
  ASSUME QueueInv, UNCHANGED queueVars
  PROVE  QueueInv'
  <1> USE DEF queueVars
  <1>1. PlaceInv' /\ CloseInv' /\ FileInv' /\ \A p \in Procs : UseInv(p)'
    BY DEF QueueInv, PlaceInv, CloseInv, Closing, FileInv, UseInv, Kind, Name, Deletes
  <1>2. MutexInv'
    BY DEF QueueInv, MutexInv, LockedBy, Locks, QueueWriters, QueueReaders, InsideQueue,
           WantsQueue, TopicWriters, TopicReaders, InsideTopic, WantsTopic, Kind, Name
  <1>3. QED
    BY <1>1, <1>2 DEF QueueInv

\* The invariant of the queue's locks, for any callers, topics and operations.
THEOREM QueueInvariant == QueueSpec => []QueueInv
  <1>1. QueueInit => QueueInv
    BY QueueInitInv
  <1>2. QueueInv /\ [QueueNext]_queueVars => QueueInv'
    <2> SUFFICES ASSUME QueueInv, QueueNext PROVE QueueInv'
      BY QueueStutter
    <2>1. PlaceInv' /\ MutexInv'
      BY PlaceStep, MutexStep DEF QueueInv, FileInv
    <2>2. CloseInv' /\ FileInv' /\ \A p \in Procs : UseInv(p)'
      BY CloseStep, UseStep
    <2>3. QED
      BY <2>1, <2>2 DEF QueueInv
  <1>3. QED
    BY <1>1, <1>2, PTL DEF QueueSpec

\* The types of the queue's state; every lock is held by goroutines of the
\* program, and by none that is between two operations: whatever early return
\* an operation took, it has unlocked what it locked (queue.go:60-127,
\* 237-293, 343-380).
THEOREM QueueTypeCorrect == QueueSpec => []QueueTypeOK
  <1>1. ASSUME QueueInv PROVE QueueTypeOK
    <2>0. PlaceInv /\ MutexInv /\ FileInv
      BY <1>1 DEF QueueInv
    <2>1. LockOK(qmu) /\ \A t \in Topics : LockOK(tmu[t])
      BY <2>0 DEF MutexInv, LockedBy, Locks, LockOK
    <2>2. opened \in [Topics -> Nat] /\ topics \subseteq Topics
      BY <2>0 DEF FileInv
    <2>3. ASSUME NEW p \in Procs, at[p] \in {"idle", "exited"} PROVE HoldsNothing(p)
      <3>1. /\ p \notin QueueWriters /\ p \notin QueueReaders
            /\ \A t \in Topics : p \notin TopicWriters(t) /\ p \notin TopicReaders(t)
        BY <2>3 DEF QueueWriters, QueueReaders, WantsQueue, Visiting, TopicWriters, TopicReaders,
           WantsTopic
      <3>2. p # qmu.writer /\ p \notin qmu.readers /\ p \notin qmu.waiting
        BY <2>0, <3>1 DEF MutexInv, LockedBy
      <3>3. \A t \in Topics : p # tmu[t].writer /\ p \notin tmu[t].readers
                                /\ p \notin tmu[t].waiting
        BY <2>0, <3>1 DEF MutexInv, LockedBy
      <3>4. QED
        BY <3>2, <3>3 DEF HoldsNothing
    <2>4. QED
      BY <2>0, <2>1, <2>2, <2>3 DEF QueueTypeOK, PlaceInv
  <1>2. QED
    BY <1>1, QueueInvariant, PTL

\* At most one Topic object has the files of a name open, and exactly those in
\* the map do until Close: openTopic runs under q.mu in write mode, after a
\* look at the map (queue.go:60-127, topic.go:40).
THEOREM OneObjectPerName == QueueSpec => []OneTopicPerName
  <1>1. ASSUME QueueInv PROVE OneTopicPerName
    BY <1>1 DEF QueueInv, FileInv, OneTopicPerName
  <1>2. QED
    BY <1>1, QueueInvariant, PTL

\* No operation that needs a topic's files finds them closed: Close waits for
\* the callers through q.mu and for the cleanup through cleanupDone
\* (queue.go:262-293).
THEOREM FilesOutliveUsers == QueueSpec => []NoUseAfterClose
  <1>1. ASSUME QueueInv PROVE NoUseAfterClose
    <2> SUFFICES ASSUME NEW p \in Procs, HoldsTopic(p), Kind(p) \in NeedsFiles
                 PROVE  opened[Name(p)] = 1
      BY DEF NoUseAfterClose, NeedsFiles
    <2>1. at[p] = "inTopic" /\ UseInv(p)
      BY <1>1 DEF QueueInv, PlaceInv, HoldsTopic
    <2>2. QED
      BY <2>1 DEF UseInv
  <1>2. QED
    BY <1>1, QueueInvariant, PTL
\* Whoever holds a topic's lock to change it is the only one that holds it,
\* for any callers and operations: the code between lock and unlock of an
\* operation is one step for all others (topic.go:122-192, 300-388).
THEOREM WritersAreAlone == QueueSpec => []WriterAlone
  <1>1. ASSUME QueueInv, NEW p \in Procs, NEW q \in Procs,
               HoldsTopic(p), HoldsTopic(q), Name(p) = Name(q), Kind(p) \in WritesTopic
        PROVE  q = p
    <2>1. at[p] = "inTopic" /\ at[q] = "inTopic" /\ Name(p) \in Topics
      BY <1>1 DEF QueueInv, PlaceInv, HoldsTopic, Visiting
    <2>2. LockedBy(tmu[Name(p)], TopicWriters(Name(p)), TopicReaders(Name(p)), InsideTopic)
      BY <1>1, <2>1 DEF QueueInv, MutexInv
    <2>3. p \in TopicWriters(Name(p)) /\ HasWrite(tmu[Name(p)], p)
      BY <1>1, <2>1 DEF TopicWriters, WantsTopic, HoldsTopic
    <2>4. HasWrite(tmu[Name(p)], q) \/ HasRead(tmu[Name(p)], q)
      BY <1>1 DEF HoldsTopic
    <2>5. QED
      BY <2>2, <2>3, <2>4, LockExclusive
  <1>2. ASSUME QueueInv PROVE WriterAlone
    <2> SUFFICES ASSUME NEW p \in Procs, NEW q \in Procs, p # q,
                        HoldsTopic(p), HoldsTopic(q), Name(p) = Name(q)
                 PROVE  Kind(p) \notin WritesTopic /\ Kind(q) \notin WritesTopic
      BY DEF WriterAlone, WritesTopic
    <2>1. QED
      BY <1>1, <1>2
  <1>3. QED
    BY <1>2, QueueInvariant, PTL
=============================================================================
