------------------------------ MODULE GoClient ------------------------------
(***************************************************************************)
(* The Go client of internal/network/client.go and the CLI around it, at   *)
(* the other end of the server's connections: one connection per client,   *)
(* one command at a time, whose answer is read before anything else.       *)
(***************************************************************************)
EXTENDS Server

CONSTANTS
  Sends,       \* connection -> the kinds of commands its user sends
  MaxCommands  \* bound on the commands of one client, QUIT of Disconnect included

ASSUME ClientAssumption == Sends \in [Conns -> SUBSET Kinds] /\ MaxCommands \in Nat

VARIABLES
  client,   \* connection -> where its client is
  asked,    \* connection -> the last command sent, while it is open
  quitted   \* history: connections on which the user sent QUIT himself

clientVars == <<client, asked, quitted>>
networkVars == <<serverVars, clientVars>>

Step(c, place) == client' = [client EXCEPT ![c] = place]

NetworkInit ==
  /\ ServerInit
  /\ client = [c \in Conns |-> "off"]
  /\ asked = [c \in Conns |-> NoCommand]
  /\ quitted = {}

\* Dial: the system accepts into the listener's backlog.
Connect(c) ==
  /\ client[c] = "off"
  /\ stop = "no"
  /\ Step(c, "welcoming")
  /\ handler' = [handler EXCEPT ![c] = "backlog"]
  /\ link' = [link EXCEPT ![c] = "up"]
  /\ UNCHANGED <<acceptor, stop, wg, queue, clients, inbox, outbox, doing, missed, unread,
                 asked, quitted>>

\* The next answer, whatever it answers.
Take(c) ==
  /\ outbox[c] # <<>>
  /\ outbox' = [outbox EXCEPT ![c] = Tail(@)]
  /\ unread' = IF Head(outbox[c]).message THEN [unread EXCEPT ![c] = @ - 1] ELSE unread
  /\ UNCHANGED <<acceptor, stop, wg, queue, clients, inbox, doing, missed, asked, quitted>>

ReadWelcome(c) ==
  /\ client[c] = "welcoming"
  /\ Take(c)
  /\ Step(c, "ready")
  /\ UNCHANGED <<handler, link>>

\* The client closes its end; what was on its way to it is lost.
Hangup(c) ==
  /\ Step(c, "closed")
  /\ link' = [link EXCEPT ![c] = "cut"]
  /\ outbox' = [outbox EXCEPT ![c] = <<>>]
  /\ asked' = [asked EXCEPT ![c] = NoCommand]
  /\ UNCHANGED <<acceptor, stop, wg, queue, clients, handler, inbox, doing, missed, unread, quitted>>

\* The program ends with its connection open.
Dies(c) ==
  /\ client[c] \in {"ready", "waiting"}
  /\ Hangup(c)

\* No welcome within five seconds, or a cut connection: Connect fails and the
\* program ends.
WelcomeFails(c) ==
  /\ client[c] = "welcoming"
  /\ Hangup(c)

\* Writing one command; on a connection that is cut the line is lost.
Write(c, kind, place) ==
  /\ asked[c].n < MaxCommands
  /\ asked' = [asked EXCEPT ![c] = Command(@.n + 1, kind)]
  /\ inbox' = IF link[c] = "up"
              THEN [inbox EXCEPT ![c] = Append(@, asked'[c])]
              ELSE inbox
  /\ Step(c, place)
  /\ UNCHANGED <<acceptor, stop, wg, queue, clients, handler, link, outbox, doing, missed, unread>>

SendCommand(c, kind) ==
  /\ client[c] = "ready"
  /\ Write(c, kind, "waiting")
  /\ quitted' = IF kind = "quit" THEN quitted \cup {c} ELSE quitted

\* readResponse: a whole answer, of however many lines.
ReadResponse(c) ==
  /\ client[c] = "waiting"
  /\ Take(c)
  /\ Step(c, "ready")
  /\ UNCHANGED <<handler, link>>

\* The connection is cut: an error, although answers may have been under way.
ReadFails(c) ==
  /\ client[c] = "waiting"
  /\ link[c] = "cut"
  /\ Step(c, "ready")
  /\ outbox' = [outbox EXCEPT ![c] = <<>>]
  /\ UNCHANGED <<acceptor, stop, wg, queue, clients, handler, link, inbox, doing, missed, unread,
                 asked, quitted>>

\* Disconnect sends QUIT, reads one answer or fails to, and closes.
Disconnect(c) ==
  /\ client[c] = "ready"
  /\ Write(c, "quit", "leaving")
  /\ UNCHANGED quitted

Disconnected(c) ==
  /\ client[c] = "leaving"
  /\ outbox[c] # <<>> \/ link[c] = "cut"
  /\ Hangup(c)

\* Each operation of the client, by itself once begun.
Proceeds(c) == ReadWelcome(c) \/ WelcomeFails(c) \/ ReadResponse(c) \/ ReadFails(c)
                 \/ Disconnected(c)

ClientNext ==
  \E c \in Conns :
    \/ Connect(c)
    \/ \E kind \in Sends[c] : SendCommand(c, kind)
    \/ Disconnect(c)
    \/ Proceeds(c)
    \/ Dies(c)

NetworkNext ==
  \/ ServerNext /\ UNCHANGED clientVars
  \/ ClientNext

NetworkSpec == NetworkInit /\ [][NetworkNext]_networkVars

\* Every goroutine of the server is scheduled, and the queue's operations return
\* but for the two deadlocks that QueueLocks finds, which are steps of the server
\* here; an operation a client began goes on.  Nobody has to connect, to send, to
\* leave, or to call Stop.
FairNetworkSpec ==
  /\ NetworkSpec
  /\ \A c \in Conns : WF_serverVars(Accept(c) \/ StartHandler(c)) /\ WF_serverVars(Handle(c))
  /\ WF_serverVars(AcceptorExits)
  /\ WF_serverVars(StopGoesOn)
  /\ \A c \in Conns : WF_networkVars(Proceeds(c))

-----------------------------------------------------------------------------
(* Properties *)

NetworkTypeOK ==
  /\ ServerTypeOK
  /\ client \in [Conns -> {"off", "welcoming", "ready", "waiting", "leaving", "closed"}]
  /\ asked \in [Conns -> [n : 0 .. MaxCommands, kind : Kinds]]
  /\ quitted \subseteq Conns

\* The answer a client reads is the one of its own command: the welcome has
\* been read before the first, and each command is answered exactly once, also
\* if it fails (server.go:157-180, client.go:40-90).  Not so once the user
\* sends QUIT himself, which is answered twice and does not disconnect.
OwnAnswer ==
  \A c \in Conns :
    client[c] = "waiting" /\ outbox[c] # <<>> =>
      Head(outbox[c]).n = asked[c].n \/ c \in quitted

\* LISTEN moves the offset before the messages are sent: what is dequeued for a
\* client and never read is at most one batch, and none unless the client waits
\* for it or the connection is cut (server.go:256-272).  Not so after a QUIT of
\* the user's: each leaves one more answer unread behind the commands that follow.
OneBatchAtRisk ==
  \A c \in Conns \ quitted :
    unread[c] <= IF client[c] = "waiting" \/ link[c] = "cut" THEN 1 ELSE 0

\* A command gets its answer, or an error because the connection was cut.  The
\* ones that do not are a blank line, which the server passes over, and a command
\* whose handler waits for the queue's lock for ever: the DELETE of an open topic
\* and those after it, on any connection (server.go:160-164, client.go:72-92,
\* topic.go:302).
CommandReturns ==
  \A c \in Conns :
    client[c] = "waiting" ~>
      client[c] # "waiting" \/ asked[c].kind = "blank" \/ handler[c] = "stuck"
=============================================================================
