------------------------------ MODULE TsClient ------------------------------
(***************************************************************************)
(* The TypeScript client of clients/typescript/src/index.ts: commands wait *)
(* in the order they were sent, each line that arrives settles the first   *)
(* of them, timers settle those that wait too long, and a closed socket is *)
(* followed by a reconnection.  Node runs one callback at a time, so each  *)
(* callback and each call of the application is one action; only a data    *)
(* event that brings several lines is one action for each.                 *)
(*                                                                         *)
(* Of the server's end of a connection this module keeps what module       *)
(* GoClient checks: every command is answered once and in order, behind    *)
(* the welcome.  When it answers is not observable apart from when the     *)
(* answer arrives, so the lines that are due are one queue.  The client    *)
(* splits what a data event brings without keeping its last line for the   *)
(* next: a line that is cut over two events is two lines to it, and counts *)
(* as two here.                                                            *)
(***************************************************************************)
EXTENDS Integers, FiniteSets, SequencesExt

CONSTANTS
  Sockets,      \* Socket objects; one is used again once nothing refers to it
  None,         \* no socket
  MaxAttempts,  \* maxReconnectAttempts
  MaxTimers,    \* reconnection timers told apart: more count as this many
  MaxCommands,  \* bound on the commands sent
  MaxLines      \* bound on the lines of an answer, cut ones counted twice

ASSUME TsAssumption ==
  /\ IsFiniteSet(Sockets) /\ None \notin Sockets
  /\ {MaxAttempts, MaxTimers, MaxCommands, MaxLines} \subseteq Nat

VARIABLES
  socket,      \* this.socket
  connected,   \* this.connected
  connecting,  \* this.connecting
  attempts,    \* this.reconnectAttempts
  timers,      \* number of reconnection timers that are set
  phase,       \* socket -> "closed", "dialing", "open", or "closing": its close event is due
  dialTimers,  \* sockets whose connection timer is set
  wire,        \* socket -> lines that are due or on their way, as <<command, which of
               \* the lines of its answer>>
  pending,     \* the keys of this.pendingCommands, in order of insertion
  outcome,     \* command -> Waiting, Failed, TimedOut, or the number of the command
               \* a line of whose answer settled it
  sentOn,      \* history: command -> the socket it was written to
  noisy,       \* history: sockets on which lines and commands got out of step
  rushed       \* history: connect was called between the end of a socket and its close event

Waiting  == -1
Failed   == -2
TimedOut == -3

connectionVars == <<socket, connected, connecting, attempts, timers, dialTimers, rushed>>
wireVars == <<phase, wire>>
commandVars == <<pending, outcome, sentOn, noisy>>
tsVars == <<connectionVars, wireVars, commandVars>>

TsInit ==
  /\ socket = None
  /\ connected = FALSE
  /\ connecting = FALSE
  /\ attempts = 0
  /\ timers = 0
  /\ phase = [s \in Sockets |-> "closed"]
  /\ dialTimers = {}
  /\ wire = [s \in Sockets |-> <<>>]
  /\ pending = <<>>
  /\ outcome = <<>>
  /\ sentOn = <<>>
  /\ noisy = {}
  /\ rushed = FALSE

\* destroy() is followed by the close event before any timer or network event;
\* only code of the application may run in between.
Settled == \A s \in Sockets : phase[s] # "closing"

\* destroy() of socket s.
Destroy(s) ==
  /\ phase' = [phase EXCEPT ![s] = IF @ = "closed" THEN @ ELSE "closing"]
  /\ wire' = [wire EXCEPT ![s] = <<>>]

DestroySocket ==
  IF socket = None THEN UNCHANGED wireVars ELSE Destroy(socket)

-----------------------------------------------------------------------------
(* connect, and the callbacks of the socket it makes *)

\* A new socket is dialing.
Dial(s) ==
  /\ phase[s] = "closed"
  /\ s \notin dialTimers
  /\ socket' = s
  /\ connecting' = TRUE
  /\ phase' = [phase EXCEPT ![s] = "dialing"]
  /\ dialTimers' = dialTimers \cup {s}
  /\ noisy' = noisy \ {s}
  /\ rushed' = (rushed \/ ~Settled)
  /\ UNCHANGED <<connected, attempts, wire, pending, outcome, sentOn>>

\* Variant: an attempt under way is not looked at.
ConnectAnyway ==
  /\ ~connected
  /\ \E s \in Sockets : Dial(s)

\* connect(), which returns at once if there is a connection or an attempt.
Connect ==
  /\ ~connected /\ ~connecting
  /\ \E s \in Sockets : Dial(s)

AppConnects == Connect /\ UNCHANGED timers

\* The lines of the answer to a command; the welcome is the answer to none.
AnswerLines(id, n) == [i \in 1 .. n |-> <<id, i>>]

OnConnect(s) ==
  /\ Settled
  /\ phase[s] = "dialing"
  /\ phase' = [phase EXCEPT ![s] = "open"]
  /\ \E n \in 1 .. MaxLines : wire' = [wire EXCEPT ![s] = AnswerLines(0, n)]
  /\ dialTimers' = dialTimers \ {s}
  /\ connected' = TRUE
  /\ connecting' = FALSE
  /\ attempts' = 0
  /\ UNCHANGED <<socket, timers, rushed, commandVars>>

\* The error event of a socket that could not connect, or lost its connection;
\* the close event follows.
OnError(s) ==
  /\ Settled
  /\ phase[s] \in {"dialing", "open"}
  /\ dialTimers' = dialTimers \ {s}
  /\ connecting' = FALSE
  /\ Destroy(s)
  /\ UNCHANGED <<socket, connected, attempts, timers, rushed, commandVars>>

\* The server closed its end.
OnEnd(s) ==
  /\ Settled
  /\ phase[s] = "open"
  /\ Destroy(s)
  /\ UNCHANGED <<connectionVars, commandVars>>

\* The timer of a connect destroys whatever socket is the current one; nothing
\* but the connect or error event of its own socket clears it.
DialTimeout(s) ==
  /\ Settled
  /\ s \in dialTimers
  /\ dialTimers' = dialTimers \ {s}
  /\ DestroySocket
  /\ UNCHANGED <<socket, connected, connecting, attempts, timers, rushed, commandVars>>

\* Every pending command fails, and a reconnection is planned.
FailAll ==
  /\ outcome' = [id \in DOMAIN outcome |->
                   IF outcome[id] = Waiting THEN Failed ELSE outcome[id]]
  /\ pending' = <<>>
  /\ UNCHANGED <<sentOn, noisy>>

PlanReconnection ==
  IF attempts < MaxAttempts
  THEN attempts' = attempts + 1 /\ timers' = Min({timers + 1, MaxTimers})
  ELSE UNCHANGED <<attempts, timers>>

\* Variant: the attempt is not over.
OnCloseStillConnecting(s) ==
  /\ phase[s] = "closing"
  /\ phase' = [phase EXCEPT ![s] = "closed"]
  /\ connected' = FALSE
  /\ FailAll
  /\ PlanReconnection
  /\ UNCHANGED <<socket, connecting, dialTimers, rushed, wire>>

\* Variant: pending commands are left to their timers.
OnCloseFailsNone(s) ==
  /\ phase[s] = "closing"
  /\ phase' = [phase EXCEPT ![s] = "closed"]
  /\ connected' = FALSE
  /\ connecting' = FALSE
  /\ PlanReconnection
  /\ UNCHANGED <<socket, dialTimers, rushed, wire, commandVars>>

OnClose(s) ==
  /\ phase[s] = "closing"
  /\ phase' = [phase EXCEPT ![s] = "closed"]
  /\ connected' = FALSE
  /\ connecting' = FALSE
  /\ FailAll
  /\ PlanReconnection
  /\ UNCHANGED <<socket, dialTimers, rushed, wire>>

\* A reconnection timer calls connect.
Reconnect ==
  /\ Settled
  /\ timers > 0
  /\ timers' = timers - 1
  /\ \/ Connect
     \/ /\ (connected \/ connecting)
        /\ UNCHANGED <<socket, connected, connecting, attempts, dialTimers, rushed>>
        /\ UNCHANGED <<wireVars, commandVars>>

Disconnect ==
  /\ DestroySocket
  /\ socket' = None
  /\ connected' = FALSE
  /\ connecting' = FALSE
  /\ UNCHANGED <<attempts, timers, dialTimers, rushed, commandVars>>

-----------------------------------------------------------------------------
(* Commands *)

\* The command enters the map and, if the socket is open, is written; its
\* answer has one line, or more if it is an array or is cut.
SendCommand(n) ==
  /\ connected
  /\ Len(outcome) < MaxCommands
  /\ LET id == Len(outcome) + 1
     IN  /\ pending' = Append(pending, id)
         /\ outcome' = Append(outcome, Waiting)
         /\ sentOn' = Append(sentOn, socket)
         /\ wire' = IF socket # None /\ phase[socket] = "open"
                    THEN [wire EXCEPT ![socket] = @ \o AnswerLines(id, n)]
                    ELSE wire
  /\ UNCHANGED <<connectionVars, phase, noisy>>

\* Variant: the command stays in the map.
CommandTimeoutKeeps(id) ==
  /\ Settled
  /\ outcome[id] = Waiting
  /\ outcome' = [outcome EXCEPT ![id] = TimedOut]
  /\ noisy' = noisy \cup {sentOn[id]}
  /\ UNCHANGED <<connectionVars, wireVars, pending, sentOn>>

\* The command is forgotten, its answer still comes.
CommandTimeout(id) ==
  /\ Settled
  /\ outcome[id] = Waiting
  /\ outcome' = [outcome EXCEPT ![id] = TimedOut]
  /\ pending' = RemoveFirst(pending, id)
  /\ noisy' = noisy \cup {sentOn[id]}
  /\ UNCHANGED <<connectionVars, wireVars, sentOn>>

\* Lines get out of step with commands when one finds a command waiting that is
\* of the welcome, or of an answer whose first line has already been taken.
OutOfStep(line) == pending # <<>> /\ (line[1] = 0 \/ line[2] > 1)

\* The next line of socket s arrives.
Arrives(s) ==
  /\ Settled
  /\ wire[s] # <<>>
  /\ wire' = [wire EXCEPT ![s] = Tail(@)]
  /\ noisy' = IF OutOfStep(Head(wire[s])) THEN noisy \cup {s} ELSE noisy
  /\ UNCHANGED <<connectionVars, phase, sentOn>>

Settle(id, line) == outcome' = [outcome EXCEPT ![id] = line[1]]

\* Variant: the last command is settled instead of the first.
OnDataSettlesLast(s) ==
  /\ Arrives(s)
  /\ \/ pending = <<>> /\ UNCHANGED <<pending, outcome>>
     \/ /\ pending # <<>>
        /\ Settle(Last(pending), Head(wire[s]))
        /\ pending' = Front(pending)

\* handleResponse, on one line: it settles the first command that is pending,
\* whatever it says.
OnData(s) ==
  /\ Arrives(s)
  /\ \/ pending = <<>> /\ UNCHANGED <<pending, outcome>>
     \/ /\ pending # <<>>
        /\ Settle(Head(pending), Head(wire[s]))
        /\ pending' = Tail(pending)

-----------------------------------------------------------------------------
TsNext ==
  \/ AppConnects
  \/ \E s \in Sockets :
       OnConnect(s) \/ OnError(s) \/ OnEnd(s) \/ DialTimeout(s) \/ OnClose(s) \/ OnData(s)
  \/ Reconnect
  \/ Disconnect
  \/ \E n \in 1 .. MaxLines : SendCommand(n)
  \/ \E id \in DOMAIN outcome : CommandTimeout(id)

TsSpec == TsInit /\ [][TsNext]_tsVars

\* A close event that is due comes, dialing ends or its timer fires, and so
\* does a reconnection timer, though it may be late each time.
FairTsSpec ==
  /\ TsSpec
  /\ \A s \in Sockets : /\ WF_tsVars(OnClose(s))
                        /\ SF_tsVars(OnConnect(s) \/ OnError(s) \/ DialTimeout(s))
  /\ SF_tsVars(Reconnect)

-----------------------------------------------------------------------------
(* Properties *)

InUse(s) == phase[s] \in {"dialing", "open"}

TsTypeOK ==
  /\ socket \in Sockets \cup {None}
  /\ {connected, connecting, rushed} \subseteq BOOLEAN
  /\ attempts \in 0 .. MaxAttempts
  /\ timers \in 0 .. MaxTimers
  /\ phase \in [Sockets -> {"closed", "dialing", "open", "closing"}]
  /\ dialTimers \subseteq Sockets
  /\ noisy \subseteq Sockets \cup {None}
  /\ \A s \in Sockets : wire[s] # <<>> => phase[s] = "open"
  /\ DOMAIN outcome = DOMAIN sentOn
  /\ {id \in DOMAIN outcome : outcome[id] = Waiting} = {pending[i] : i \in DOMAIN pending}

\* The client has one socket at a time: neither a reconnection timer nor connect
\* makes another while one is being connected or in use (index.ts:65-67), unless
\* the application calls connect before the close event of the last socket.
OneSocket == rushed \/ Cardinality({s \in Sockets : InUse(s)}) <= 1

\* A command is settled by the answer to it (index.ts:179-202), unless lines
\* and commands got out of step on its connection before: by a timeout, or because
\* a line of the welcome, or one behind the first of an answer, be it an array or
\* cut over two data events, found a command waiting.
OwnReply ==
  [][\A id \in DOMAIN outcome :
       outcome[id] = Waiting /\ outcome'[id] >= 0 /\ outcome'[id] # id
         => rushed \/ sentOn[id] \in noisy']_tsVars

\* When the client is not connected no command waits for an answer that cannot
\* come: they all failed when the connection did (index.ts:104-107).
NoneLeftWaiting == Settled /\ ~connected /\ ~rushed => pending = <<>>

\* A client that lost its connection, or failed to make one, gets it back or
\* uses up its attempts, unless it was told to disconnect (index.ts:110-117).
ReconnectsOrGivesUp ==
  ~connected /\ socket # None ~> connected \/ socket = None \/ attempts = MaxAttempts
=============================================================================
