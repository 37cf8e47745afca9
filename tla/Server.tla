------------------------------- MODULE Server -------------------------------
(***************************************************************************)
(* The life of the server of internal/network/server.go: the accepting     *)
(* goroutine, one handler goroutine per connection, and Stop, which waits  *)
(* for all of them before it closes the queue.  A connection carries lines *)
(* both ways, in order, until one side closes it; the other ends of the    *)
(* connections are left to the modules that extend this one.  A command is *)
(* its number and its kind; the answer to one, however many lines it has,  *)
(* is one element of the way back.                                         *)
(***************************************************************************)
EXTENDS Integers, Sequences, FiniteSets

CONSTANTS
  Conns,  \* connections, each used once
  Stops   \* whether Server.Stop is ever called

ASSUME ServerAssumption == IsFiniteSet(Conns) /\ Stops \in BOOLEAN

\* LISTEN that finds a message; DELETE of an open topic; any other command on the
\* queue, also one that fails; QUIT; a command that does not reach the queue, like
\* PING and the malformed ones; a line that is blank, or longer than the scanner takes.
Kinds == {"listen", "delete", "plain", "quit", "ping", "blank", "long"}

UsesQueue(cmd) == cmd.kind \in {"listen", "delete", "plain"}

VARIABLES
  acceptor,  \* acceptConnections: "accepting", "counting" the handler of the
             \* connection it accepted, or "exited"
  stop,      \* how far Stop is
  wg,        \* s.wg
  queue,     \* "open", or "stuck" once a call that holds its lock waits for ever
  clients,   \* the keys of s.clients
  handler,   \* connection -> where its handler, or the connection before it, is
  link,      \* connection -> "up", or "cut" once either side closed it
  inbox,     \* connection -> commands sent and not yet read by the handler
  outbox,    \* connection -> answers sent and not yet read by the client
  doing,     \* connection -> the command its handler executes
  missed,    \* history: connections not registered when Stop closed those that were
  unread     \* connection -> number of messages LISTEN dequeued that its client
             \* has not read

serverVars == <<acceptor, stop, wg, queue, clients, handler, link, inbox, outbox, doing,
                missed, unread>>
handlerVars == <<handler, link, inbox, outbox, doing>>

Command(n, kind) == [n |-> n, kind |-> kind]
NoCommand == Command(0, "plain")

\* An answer: the command's number, and whether it carries a message.  The
\* welcome line answers no command.
Answer(cmd) == [n |-> cmd.n, message |-> cmd.kind = "listen"]
Welcome == Answer(NoCommand)

At(c, place) == handler' = [handler EXCEPT ![c] = place]

ServerInit ==
  /\ acceptor = "accepting"
  /\ stop = "no"
  /\ wg = 1
  /\ queue = "open"
  /\ clients = {}
  /\ handler = [c \in Conns |-> "none"]
  /\ link = [c \in Conns |-> "cut"]
  /\ inbox = [c \in Conns |-> <<>>]
  /\ outbox = [c \in Conns |-> <<>>]
  /\ doing = [c \in Conns |-> NoCommand]
  /\ missed = {}
  /\ unread = [c \in Conns |-> 0]

-----------------------------------------------------------------------------
(* The accepting goroutine *)

\* Accept returns a connection.
Accept(c) ==
  /\ acceptor = "accepting"
  /\ stop = "no"
  /\ handler[c] = "backlog"
  /\ acceptor' = "counting"
  /\ At(c, "pending")
  /\ UNCHANGED <<stop, wg, queue, clients, link, inbox, outbox, doing, missed, unread>>

\* Variant: the handler is not counted.
StartUncounted(c) ==
  /\ handler[c] = "pending"
  /\ acceptor' = "accepting"
  /\ At(c, "accepted")
  /\ UNCHANGED <<stop, wg, queue, clients, link, inbox, outbox, doing, missed, unread>>

\* Its handler is counted and started, however far Stop has come meanwhile.
StartHandler(c) ==
  /\ handler[c] = "pending"
  /\ acceptor' = "accepting"
  /\ wg' = wg + 1
  /\ At(c, "accepted")
  /\ UNCHANGED <<stop, queue, clients, link, inbox, outbox, doing, missed, unread>>

\* Accept fails on the closed listener and finds ctx done.  (Any other error
\* is tried again.)
AcceptorExits ==
  /\ acceptor = "accepting"
  /\ stop # "no"
  /\ acceptor' = "exited"
  /\ wg' = wg - 1
  /\ UNCHANGED <<stop, queue, clients, handlerVars, missed, unread>>

-----------------------------------------------------------------------------
(* A handler *)

\* Writes to a connection that is cut are lost.
Put(c, answers) ==
  outbox' = IF link[c] = "up" THEN [outbox EXCEPT ![c] = @ \o answers] ELSE outbox

\* The connection enters s.clients, under s.mu, and is welcomed.
Register(c) ==
  /\ handler[c] = "accepted"
  /\ clients' = clients \cup {c}
  /\ At(c, "reading")
  /\ Put(c, <<Welcome>>)
  /\ UNCHANGED <<acceptor, stop, wg, queue, link, inbox, doing, missed, unread>>

\* Variant: LISTEN dequeues to see whether there is anything, and again.
RunListenTwice(c) ==
  /\ handler[c] = "reading"
  /\ inbox[c] # <<>>
  /\ LET cmd == Head(inbox[c])
     IN  /\ cmd.kind \notin {"long", "delete"}
         /\ UsesQueue(cmd) => queue = "open"
         /\ unread' = IF cmd.kind = "listen" THEN [unread EXCEPT ![c] = @ + 2] ELSE unread
         /\ doing' = [doing EXCEPT ![c] = cmd]
  /\ inbox' = [inbox EXCEPT ![c] = Tail(@)]
  /\ At(c, "executing")
  /\ UNCHANGED <<acceptor, stop, wg, queue, clients, link, outbox, missed>>

\* Scan returns a line, which may have been buffered before the connection
\* was cut, and the command runs on the queue.  LISTEN takes the next message
\* (a batch of one) and moves the consumer's offset behind it.
RunCommand(c) ==
  /\ handler[c] = "reading"
  /\ inbox[c] # <<>>
  /\ LET cmd == Head(inbox[c])
     IN  /\ cmd.kind \notin {"long", "delete"}
         /\ UsesQueue(cmd) => queue = "open"
         /\ unread' = IF cmd.kind = "listen" THEN [unread EXCEPT ![c] = @ + 1] ELSE unread
         /\ doing' = [doing EXCEPT ![c] = cmd]
  /\ inbox' = [inbox EXCEPT ![c] = Tail(@)]
  /\ At(c, "executing")
  /\ UNCHANGED <<acceptor, stop, wg, queue, clients, link, outbox, missed>>

\* DELETE of an open topic waits for itself with the queue's lock held, and every
\* later command on the queue waits for that lock (QueueLocks has the steps).
QueueBlocks(c) ==
  /\ handler[c] = "reading"
  /\ inbox[c] # <<>>
  /\ LET cmd == Head(inbox[c])
     IN  /\ UsesQueue(cmd)
         /\ cmd.kind = "delete" \/ queue = "stuck"
         /\ doing' = [doing EXCEPT ![c] = cmd]
  /\ queue' = "stuck"
  /\ inbox' = [inbox EXCEPT ![c] = Tail(@)]
  /\ At(c, "stuck")
  /\ UNCHANGED <<acceptor, stop, wg, clients, link, outbox, missed, unread>>

\* Variant: QUIT is obeyed and not answered.
AnswersNoQuit(cmd) ==
  IF cmd.kind \in {"blank", "quit"} THEN <<>> ELSE <<Answer(cmd)>>

\* Variant: LISTEN answers with the number of messages, and with the messages.
AnswersTwice(cmd) ==
  CASE cmd.kind = "blank"              -> <<>>
    [] cmd.kind \in {"quit", "listen"} -> <<Answer(cmd), Answer(cmd)>>
    [] OTHER                           -> <<Answer(cmd)>>

\* executeCommand and sendError: the command's answer or its error; QUIT
\* answers "+OK" and then returns an error, which is sent as well; a blank line
\* is passed over.
Answers(cmd) ==
  CASE cmd.kind = "blank" -> <<>>
    [] cmd.kind = "quit"  -> <<Answer(cmd), Answer(cmd)>>
    [] OTHER              -> <<Answer(cmd)>>

\* The answer goes out and the handler reads on, also after QUIT.
Reply(c) ==
  /\ handler[c] = "executing"
  /\ Put(c, Answers(doing[c]))
  /\ doing' = [doing EXCEPT ![c] = NoCommand]
  /\ At(c, "reading")
  /\ UNCHANGED <<acceptor, stop, wg, queue, clients, link, inbox, missed, unread>>

\* Scan fails: the connection is cut, whatever is buffered, or the line is too
\* long.  Of the deferred calls the first unregisters the connection, ...
Leave(c) ==
  /\ handler[c] = "reading"
  /\ \/ link[c] = "cut"
     \/ inbox[c] # <<>> /\ Head(inbox[c]).kind = "long"
  /\ clients' = clients \ {c}
  /\ inbox' = [inbox EXCEPT ![c] = <<>>]
  /\ At(c, "left")
  /\ UNCHANGED <<acceptor, stop, wg, queue, link, outbox, doing, missed, unread>>

\* ... the second closes it, and the last ends the wait for it.
Done(c) ==
  /\ handler[c] = "left"
  /\ link' = [link EXCEPT ![c] = "cut"]
  /\ wg' = wg - 1
  /\ At(c, "gone")
  /\ UNCHANGED <<acceptor, stop, queue, clients, inbox, outbox, doing, missed, unread>>

-----------------------------------------------------------------------------
(* Stop *)

\* The context is cancelled and the listener closed, which resets what it had
\* not accepted.  (Start returns at this moment.)
StopListening ==
  /\ Stops
  /\ stop = "no"
  /\ stop' = "listenerClosed"
  /\ handler' = [c \in Conns |-> IF handler[c] = "backlog" THEN "gone" ELSE handler[c]]
  /\ link' = [c \in Conns |-> IF handler[c] = "backlog" THEN "cut" ELSE link[c]]
  /\ UNCHANGED <<acceptor, wg, queue, clients, inbox, outbox, doing, missed, unread>>

\* Variant: only the listener is closed.
StopClosesNothing ==
  /\ stop = "listenerClosed"
  /\ stop' = "waiting"
  /\ missed' = {c \in Conns : handler[c] \in {"pending", "accepted"}}
  /\ UNCHANGED <<acceptor, wg, queue, clients, handlerVars, unread>>

\* The registered connections are closed, under s.mu.
StopClosesClients ==
  /\ stop = "listenerClosed"
  /\ stop' = "waiting"
  /\ link' = [c \in Conns |-> IF c \in clients THEN "cut" ELSE link[c]]
  /\ missed' = {c \in Conns : handler[c] \in {"pending", "accepted"}}
  /\ UNCHANGED <<acceptor, wg, queue, clients, handler, inbox, outbox, doing, unread>>

\* Variant: Stop does not wait.
StopDoesNotWait ==
  /\ stop = "waiting"
  /\ stop' = "closingQueue"
  /\ UNCHANGED <<acceptor, wg, queue, clients, handlerVars, missed, unread>>

\* s.wg.Wait() returns; queue.Close runs.
StopClosesQueue ==
  /\ stop = "waiting"
  /\ wg = 0
  /\ stop' = "closingQueue"
  /\ UNCHANGED <<acceptor, wg, queue, clients, handlerVars, missed, unread>>

\* Close waits, with the queue's lock held, for a cleanup that waits for that lock
\* (QueueLocks has the steps).
CloseHangs ==
  /\ stop = "closingQueue"
  /\ queue' = "stuck"
  /\ UNCHANGED <<acceptor, stop, wg, clients, handlerVars, missed, unread>>

StopReturns ==
  /\ stop = "closingQueue"
  /\ queue = "open"
  /\ stop' = "stopped"
  /\ UNCHANGED <<acceptor, wg, queue, clients, handlerVars, missed, unread>>

-----------------------------------------------------------------------------
Handle(c) ==
  Register(c) \/ RunCommand(c) \/ QueueBlocks(c) \/ Reply(c) \/ Leave(c) \/ Done(c)

\* The goroutine of Stop, by itself once it is called.
StopGoesOn == StopClosesClients \/ StopClosesQueue \/ CloseHangs \/ StopReturns

ServerNext ==
  \/ \E c \in Conns : Accept(c) \/ StartHandler(c) \/ Handle(c)
  \/ AcceptorExits
  \/ StopListening
  \/ StopGoesOn

-----------------------------------------------------------------------------
(* Properties *)

Commands == [n : Nat, kind : Kinds]
AnswerLines == [n : Nat, message : BOOLEAN]

ServerTypeOK ==
  /\ acceptor \in {"accepting", "counting", "exited"}
  /\ stop \in {"no", "listenerClosed", "waiting", "closingQueue", "stopped"}
  /\ wg \in Nat
  /\ queue \in {"open", "stuck"}
  /\ clients \cup missed \subseteq Conns
  /\ handler \in [Conns -> {"none", "backlog", "pending", "accepted", "reading", "executing",
                           "stuck", "left", "gone"}]
  /\ link \in [Conns -> {"up", "cut"}]
  /\ inbox \in [Conns -> Seq(Commands)]
  /\ outbox \in [Conns -> Seq(AnswerLines)]
  /\ doing \in [Conns -> Commands]
  /\ unread \in [Conns -> Int]

Running(c) == handler[c] \in {"accepted", "reading", "executing", "stuck", "left"}

\* No handler is counted from zero, also one that is counted while Stop waits
\* (Wait could have returned already), and the count never falls below zero:
\* sync.WaitGroup forbids the one and panics on the other (server.go:72, 97,
\* 109, 123, 130).
WaitGroupRules ==
  [][/\ wg' > wg => wg > 0 /\ stop \in {"no", "listenerClosed", "waiting"}
     /\ wg' >= 0]_serverVars

\* Once Stop closes the queue no handler is left and none will be started: no
\* command finds the queue closed under it, no connection is registered or open,
\* or still in the hands of the accepting goroutine (server.go:96-101).
QueueClosesLast ==
  stop \in {"closingQueue", "stopped"} =>
    /\ acceptor = "exited"
    /\ clients = {}
    /\ \A c \in Conns : ~Running(c) /\ handler[c] # "pending" /\ link[c] = "cut"

\* A connection that was accepted but not registered when Stop went through
\* s.clients: its handler reads on, and nothing on this side ever closes it.
Overlooked(c) ==
  /\ stop = "waiting"
  /\ c \in missed
  /\ handler[c] = "reading"
  /\ inbox[c] = <<>>
  /\ link[c] = "up"

\* Stop ends, or waits for the client of a connection it overlooked, or is caught
\* in one of the queue's two deadlocks: for a handler that waits for the queue's
\* lock for ever, or in Close.  There is nothing else it can hang on, and when
\* that client leaves it goes on (server.go:82-105).
StopEndsOrHangs ==
  []<>(\/ stop \in {"no", "stopped"}
       \/ \E c \in Conns : Overlooked(c) \/ handler[c] = "stuck"
       \/ stop = "closingQueue" /\ queue = "stuck")
=============================================================================
