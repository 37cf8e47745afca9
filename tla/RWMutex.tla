------------------------------- MODULE RWMutex -------------------------------
(***************************************************************************)
(* Go's sync.RWMutex, as the locks of pkg/queue use it.  A writer first    *)
(* announces itself, which keeps new readers out, and then waits for the   *)
(* readers inside to leave; when it unlocks, every reader that waited goes *)
(* in before the next writer.  No lock is reentrant.                       *)
(***************************************************************************)
CONSTANT Nobody  \* the writer of a lock that no writer holds or awaits

Unlocked == [writer |-> Nobody, readers |-> {}, waiting |-> {}]

\* Lock, first half: only one writer at a time is announced.
CanAnnounce(l)  == l.writer = Nobody
Announced(l, p) == [l EXCEPT !.writer = p]

\* Lock, second half: p is the announced writer and the readers are gone.
HasWrite(l, p) == l.writer = p /\ l.readers = {}

\* RLock: enter, or wait for the writer that is announced to unlock.
RLocked(l, p) ==
  IF l.writer = Nobody THEN [l EXCEPT !.readers = @ \cup {p}]
                       ELSE [l EXCEPT !.waiting = @ \cup {p}]
HasRead(l, p) == p \in l.readers

RUnlocked(l, p)  == [l EXCEPT !.readers = @ \ {p}]
WUnlocked(l)     == [Unlocked EXCEPT !.readers = l.waiting]
=============================================================================
