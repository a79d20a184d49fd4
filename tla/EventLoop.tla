------------------------------ MODULE EventLoop ------------------------------
(***************************************************************************)
(* Server::run of src/Server.cpp: the poll() loop, accept(), recv() into   *)
(* input buffers, send() from output buffers, disconnectClient, and the    *)
(* signal that ends it.  Around it the kernel, which holds the data on its *)
(* way, and the peers, which connect, send, read, close and break.         *)
(*                                                                         *)
(* What commands do is reduced to whom they write to: a line is answered   *)
(* to its sender ("echo"), is told to all others ("cast"), or is a QUIT.   *)
(* The unit of the streams is a piece: the end of a line, of one of these  *)
(* kinds, or a part of a line without its end ("part").                    *)
(*                                                                         *)
(* One iteration of a loop of the code is one step, so peers and signals   *)
(* interleave with everything the server does.                             *)
(***************************************************************************)
EXTENDS Naturals, FiniteSets, SequencesExt

CONSTANTS
    Fd,             \* the descriptors accept() may return
    Listen,         \* _listenFd
    Chunk,          \* pieces a recv() or a send() may carry (4096 bytes)
    Window,         \* pieces the kernel holds for a peer that does not read
    Kind,           \* kinds of pieces peers send
    Stalled,        \* descriptors whose peers need never read
    HangUpOnFin,    \* whether poll() reports POLLHUP for a peer that closed one side
                    \* only: {FALSE}, {TRUE}, or BOOLEAN if it may or may not
    Signals,        \* SIGINT may arrive
    MaxPieces,      \* bound: pieces sent in all
    MaxPeers        \* bound: connections made in all

ASSUME FdAssumption     == Fd \subseteq Nat /\ IsFiniteSet(Fd) /\ Listen \notin Fd
ASSUME SizeAssumption   == Chunk \in Nat \ {0} /\ Window \in Nat \ {0}
ASSUME KindAssumption   == Kind \subseteq {"part", "echo", "cast", "quit"}
ASSUME BoundAssumption  == MaxPieces \in Nat /\ MaxPeers \in Nat
ASSUME OptionAssumption == Stalled \subseteq Fd /\ HangUpOnFin \in (SUBSET BOOLEAN) \ {{}} /\ Signals \in BOOLEAN

VARIABLES
    phase,      \* where run() is: "test", "enter", "poll", "serve" or "stopped"
    pos,        \* i, the index of the entry that is served
    pollFds,    \* _pollFds
    clients,    \* _clients: the two buffers of each
    shutdown,   \* _shutdown
    net,        \* per connection: its peer, and the data in the kernel both ways
    backlog,    \* connections that wait for accept()
    sent,       \* pieces sent so far
    arrived     \* connections made so far

server == <<phase, pos, pollFds, clients, shutdown>>
vars   == <<server, net, backlog, sent, arrived>>

Piece == [kind : {"part", "echo", "cast", "quit"}, id : Nat]

\* revents is emptied flag by flag as an entry is served; the code keeps a
\* copy, and poll() overwrites what is left.
Entry == [fd : Fd \cup {Listen}, events : SUBSET {"in", "out"},
          revents : SUBSET {"in", "out", "err", "hup"}]

Client == [in : Seq(Piece), out : Seq(Piece)]

\* peer: "open", "half" (it closed its side and still reads), "gone" (reset).
Connection == [peer : {"open", "half", "gone"}, rcv : Seq(Piece), snd : Seq(Piece)]

Live == DOMAIN clients

Init ==
    /\ phase    = "test"
    /\ pos      = 1
    /\ pollFds  = <<[fd |-> Listen, events |-> {"in"}, revents |-> {}]>>
    /\ clients  = [fd \in {} |-> [in |-> << >>, out |-> << >>]]
    /\ shutdown = FALSE
    /\ net      = [fd \in {} |-> [peer |-> "open", rcv |-> << >>, snd |-> << >>]]
    /\ backlog  = 0
    /\ sent     = 0
    /\ arrived  = 0

-----------------------------------------------------------------------------
(* The kernel *)

Room(fd) == Window - Len(net[fd].snd)

\* Mutant of Writable: poll() is not asked, a send is tried at once.
AlwaysWritable(fd) == TRUE

\* A send would be accepted, or refused for good.
Writable(fd) == Room(fd) > 0 \/ net[fd].peer = "gone"

\* What poll() reports of an entry: errors and hang-ups unasked.
Ready(entry, hangUp) ==
    IF entry.fd = Listen THEN {f \in {"in"} : backlog > 0}
    ELSE LET c == net[entry.fd]
         IN  {f \in {"in"}  : c.rcv # << >> \/ c.peer # "open"}
             \cup {f \in {"out"} : f \in entry.events /\ Writable(entry.fd)}
             \cup {f \in {"err"} : c.peer = "gone"}
             \cup {f \in {"hup"} : c.peer = "gone" \/ (c.peer = "half" /\ hangUp)}

SomethingReady == \E i \in DOMAIN pollFds : Ready(pollFds[i], FALSE) # {}

-----------------------------------------------------------------------------
(* The loop *)

\* ~Server closes every descriptor.
Stop ==
    /\ phase'   = "stopped"
    /\ pos'     = 1
    /\ pollFds' = << >>
    /\ clients' = [fd \in {} |-> {}]
    /\ net'     = [fd \in {} |-> {}]
    /\ backlog' = 0

\* Mutant of Test: while (true).
TestForever ==
    /\ phase = "test"
    /\ phase' = "enter"
    /\ UNCHANGED <<pos, pollFds, clients, shutdown, net, backlog, sent, arrived>>

\* while (!_shutdown)
Test ==
    /\ phase = "test"
    /\ \/ shutdown /\ Stop
       \/ ~shutdown /\ phase' = "enter" /\ UNCHANGED <<pos, pollFds, clients, net, backlog>>
    /\ UNCHANGED <<shutdown, sent, arrived>>

\* From here on a signal interrupts poll(); before, it only sets _shutdown.
EnterPoll ==
    /\ phase = "enter"
    /\ phase' = "poll"
    /\ UNCHANGED <<pos, pollFds, clients, shutdown, net, backlog, sent, arrived>>

PollReturns ==
    /\ phase = "poll"
    /\ SomethingReady
    /\ phase'   = "serve"
    /\ pos'     = 1
    /\ \E hangUp \in HangUpOnFin :
          pollFds' = [i \in DOMAIN pollFds |->
                         [pollFds[i] EXCEPT !.revents = Ready(pollFds[i], hangUp)]]
    /\ UNCHANGED <<clients, shutdown, net, backlog, sent, arrived>>

Serving(fd) == phase = "serve" /\ pos \in DOMAIN pollFds /\ pollFds[pos].fd = fd

Reported(flag) == flag \in pollFds[pos].revents

Served(fds, flag) == [fds EXCEPT ![pos].revents = @ \ {flag}]

HasLine(buf) == \E k \in DOMAIN buf : buf[k].kind # "part"

\* extractCommands is at work: it stops only when no complete line is left.
Extracting(fd) == HasLine(clients[fd].in)

\* Mutant of NextEntry: one line is taken of what was read, not all.
NextEntryEarly(fd) ==
    /\ Serving(fd)
    /\ pollFds[pos].revents = {}
    /\ pos' = pos + 1
    /\ UNCHANGED <<phase, pollFds, clients, shutdown, net, backlog, sent, arrived>>

\* ++i
NextEntry(fd) ==
    /\ Serving(fd)
    /\ pollFds[pos].revents = {}
    /\ fd \in Live => ~Extracting(fd)
    /\ pos' = pos + 1
    /\ UNCHANGED <<phase, pollFds, clients, shutdown, net, backlog, sent, arrived>>

EndOfRound ==
    /\ phase = "serve"
    /\ pos \notin DOMAIN pollFds
    /\ phase' = "test"
    /\ pos'   = 1
    /\ UNCHANGED <<pollFds, clients, shutdown, net, backlog, sent, arrived>>

\* The lowest free descriptor.  accept() may also fail, as it does when none is
\* free, and the connection goes on waiting; or setNonBlocking fails, and the
\* new connection is closed.
AcceptNewClient ==
    /\ Serving(Listen)
    /\ Reported("in")
    /\ \/ /\ pollFds' = Served(pollFds, "in")
          /\ backlog' \in {backlog, backlog - 1}
          /\ UNCHANGED <<clients, net>>
       \/ /\ ~(Fd \subseteq Live)
          /\ LET fd == Min(Fd \ Live)
             IN  /\ pollFds' = Append(Served(pollFds, "in"),
                                      [fd |-> fd, events |-> {"in"}, revents |-> {}])
                 /\ clients' = [f \in Live \cup {fd} |->
                                   IF f = fd THEN [in |-> << >>, out |-> << >>] ELSE clients[f]]
                 /\ net'     = [f \in Live \cup {fd} |->
                                   IF f = fd THEN [peer |-> "open", rcv |-> << >>, snd |-> << >>]
                                   ELSE net[f]]
                 /\ backlog' = backlog - 1
    /\ UNCHANGED <<phase, pos, shutdown, sent, arrived>>

\* Mutant of RemoveEntry: the last entry is popped without being moved.
PopEntry(fds, i) == SubSeq(fds, 1, Len(fds) - 1)

\* The last entry moves into the slot that is freed.
RemoveEntry(fds, i) == SubSeq([fds EXCEPT ![i] = fds[Len(fds)]], 1, Len(fds) - 1)

\* Mutants of Disconnect: the index advances, past the entry that moved in;
\* _clients.erase is forgotten.
DisconnectAndAdvance(fd, cl) ==
    /\ pollFds' = RemoveEntry(pollFds, pos)
    /\ clients' = [f \in Live \ {fd} |-> cl[f]]
    /\ net'     = [f \in Live \ {fd} |-> net[f]]
    /\ pos'     = pos + 1

DisconnectForgotten(fd, cl) ==
    /\ pollFds' = RemoveEntry(pollFds, pos)
    /\ clients' = cl
    /\ net'     = [f \in Live \ {fd} |-> net[f]]
    /\ UNCHANGED pos

\* disconnectClient of the entry that is served, and continue without ++i.
\* cl is what the step made of the buffers of the others.
Disconnect(fd, cl) ==
    /\ pollFds' = RemoveEntry(pollFds, pos)
    /\ clients' = [f \in Live \ {fd} |-> cl[f]]
    /\ net'     = [f \in Live \ {fd} |-> net[f]]
    /\ UNCHANGED pos

\* POLLERR
ServeError(fd) ==
    /\ Serving(fd)
    /\ Reported("err")
    /\ Disconnect(fd, clients)
    /\ UNCHANGED <<phase, shutdown, backlog, sent, arrived>>

\* Mutant of HangUp: POLLHUP is served before POLLIN.
HangUpFirst(fd) ==
    /\ Serving(fd)
    /\ Reported("hup")
    /\ ~Reported("err") /\ ~Extracting(fd)
    /\ Disconnect(fd, clients)
    /\ UNCHANGED <<phase, shutdown, backlog, sent, arrived>>

\* The last thing done for an entry: neither POLLIN nor POLLOUT is left.
HangUp(fd) ==
    /\ Serving(fd)
    /\ Reported("hup")
    /\ ~Reported("err") /\ ~Reported("in") /\ ~Reported("out") /\ ~Extracting(fd)
    /\ Disconnect(fd, clients)
    /\ UNCHANGED <<phase, shutdown, backlog, sent, arrived>>

Least(m, n) == IF m < n THEN m ELSE n

\* POLLIN: recv() takes what is there, up to the size of the buffer; 0 and -1
\* disconnect.
HandleClientRead(fd) ==
    /\ Serving(fd)
    /\ fd # Listen
    /\ Reported("in") /\ ~Reported("err")
    /\ LET n == Least(Chunk, Len(net[fd].rcv))
       IN  IF n = 0
           THEN Disconnect(fd, clients)
           ELSE /\ clients' = [clients EXCEPT ![fd].in = @ \o SubSeq(net[fd].rcv, 1, n)]
                /\ net'     = [net EXCEPT ![fd].rcv = SubSeq(@, n + 1, Len(@))]
                /\ pollFds' = Served(pollFds, "in")
                /\ UNCHANGED pos
    /\ UNCHANGED <<phase, shutdown, backlog, sent, arrived>>

\* Mutant of EnableWrite: the call is forgotten.
EnableWriteForgotten(fds, to) == fds

\* enableWrite for every client in to.
EnableWrite(fds, to) ==
    [i \in DOMAIN fds |->
        IF fds[i].fd \in to THEN [fds[i] EXCEPT !.events = @ \cup {"out"}] ELSE fds[i]]

\* sendReply, or broadcastToChannel: appendToOutBuffer.
Tell(cl, to, line) ==
    [f \in Live |-> IF f \in to THEN [cl[f] EXCEPT !.out = Append(@, line)] ELSE cl[f]]

\* One iteration of extractCommands: the first complete line goes to
\* processCommand.  QUIT announces itself and disconnects.
ExtractCommand(fd) ==
    /\ Serving(fd)
    /\ fd # Listen
    /\ Extracting(fd)
    /\ LET buf    == clients[fd].in
           k      == Min({j \in DOMAIN buf : buf[j].kind # "part"})
           to     == IF buf[k].kind = "echo" THEN {fd} ELSE Live \ {fd}
           told   == Tell([clients EXCEPT ![fd].in = SubSeq(buf, k + 1, Len(buf))], to, buf[k])
           wanted == EnableWrite(pollFds, to)
       IN  IF buf[k].kind = "quit"
           THEN /\ pollFds' = RemoveEntry(wanted, pos)
                /\ clients' = [f \in Live \ {fd} |-> told[f]]
                /\ net'     = [f \in Live \ {fd} |-> net[f]]
           ELSE /\ pollFds' = wanted
                /\ clients' = told
                /\ UNCHANGED net
    /\ UNCHANGED <<phase, pos, shutdown, backlog, sent, arrived>>

Unsent(out, n) == SubSeq(out, n + 1, Len(out))

\* POLLOUT: one send of what fits.  -1 (EAGAIN when nothing fits, ECONNRESET,
\* EPIPE) disconnects.  Once the buffer is empty POLLOUT is no longer asked.
FlushClientWrite(fd) ==
    /\ Serving(fd)
    /\ Reported("out") /\ ~Reported("err") /\ ~Reported("in") /\ ~Extracting(fd)
    /\ LET out  == clients[fd].out
           n    == Least(Chunk, Least(Len(out), Room(fd)))
           rest == Unsent(out, n)
       IN  IF out = << >>
           THEN pollFds' = Served(pollFds, "out") /\ UNCHANGED <<pos, clients, net>>
           ELSE IF net[fd].peer = "gone" \/ n = 0
           THEN Disconnect(fd, clients)
           ELSE /\ net'     = [net EXCEPT ![fd].snd = @ \o SubSeq(out, 1, n)]
                /\ clients' = [clients EXCEPT ![fd].out = rest]
                /\ pollFds' = [Served(pollFds, "out") EXCEPT
                                 ![pos].events = IF rest = << >> THEN {"in"} ELSE @]
                /\ UNCHANGED pos
    /\ UNCHANGED <<phase, shutdown, backlog, sent, arrived>>

ServerStep ==
    \/ Test \/ EnterPoll \/ PollReturns \/ EndOfRound \/ AcceptNewClient
    \/ \E fd \in Fd \cup {Listen} : NextEntry(fd)
    \/ \E fd \in Fd :
          \/ ServeError(fd) \/ HandleClientRead(fd) \/ ExtractCommand(fd)
          \/ FlushClientWrite(fd) \/ HangUp(fd)

-----------------------------------------------------------------------------
(* The environment *)

\* signalHandler; a poll() that waits returns EINTR, and run() breaks.
SignalHandler ==
    /\ Signals
    /\ phase # "stopped"
    /\ shutdown' = TRUE
    /\ IF phase = "poll" THEN Stop ELSE UNCHANGED <<phase, pos, pollFds, clients, net, backlog>>
    /\ UNCHANGED <<sent, arrived>>

PeerConnects ==
    /\ phase # "stopped"
    /\ arrived < MaxPeers
    /\ arrived' = arrived + 1
    /\ backlog' = backlog + 1
    /\ UNCHANGED <<server, net, sent>>

PeerSends(fd, kind) ==
    /\ fd \in Live
    /\ net[fd].peer = "open"
    /\ sent < MaxPieces
    /\ sent' = sent + 1
    /\ net'  = [net EXCEPT ![fd].rcv = Append(@, [kind |-> kind, id |-> sent + 1])]
    /\ UNCHANGED <<server, backlog, arrived>>

PeerReads(fd) ==
    /\ fd \in Live
    /\ net[fd].peer # "gone"
    /\ net[fd].snd # << >>
    /\ net' = [net EXCEPT ![fd].snd = Tail(@)]
    /\ UNCHANGED <<server, backlog, sent, arrived>>

PeerHalfCloses(fd) ==
    /\ fd \in Live
    /\ net[fd].peer = "open"
    /\ net' = [net EXCEPT ![fd].peer = "half"]
    /\ UNCHANGED <<server, backlog, sent, arrived>>

PeerBreaks(fd) ==
    /\ fd \in Live
    /\ net[fd].peer # "gone"
    /\ net' = [net EXCEPT ![fd].peer = "gone"]
    /\ UNCHANGED <<server, backlog, sent, arrived>>

PeerStep(fd) ==
    \/ \E kind \in Kind : PeerSends(fd, kind)
    \/ PeerReads(fd) \/ PeerHalfCloses(fd) \/ PeerBreaks(fd)

Next == ServerStep \/ SignalHandler \/ PeerConnects \/ \E fd \in Fd : PeerStep(fd)

\* The server is a thread the system schedules; peers that are not stalled
\* read what has arrived.  Nobody else need ever do anything.
Fairness ==
    /\ WF_vars(ServerStep)
    /\ \A fd \in Fd \ Stalled : WF_vars(PeerReads(fd))

Spec == Init /\ [][Next]_vars /\ Fairness

-----------------------------------------------------------------------------
(* Invariants *)

TypeOK ==
    /\ phase \in {"test", "enter", "poll", "serve", "stopped"}
    /\ pos \in Nat \ {0}
    /\ pollFds \in Seq(Entry)
    /\ Live \subseteq Fd
    /\ clients \in [Live -> Client]
    /\ net \in [Live -> Connection]
    /\ shutdown \in BOOLEAN
    /\ backlog \in Nat /\ sent \in Nat /\ arrived \in Nat

\* While it runs, the server polls the listening socket, first, and every
\* client exactly once (addClient, disconnectClient).
EntriesAreClients ==
    phase # "stopped" =>
        /\ pollFds # << >> /\ pollFds[1].fd = Listen
        /\ \A i, j \in DOMAIN pollFds : pollFds[i].fd = pollFds[j].fd => i = j
        /\ {pollFds[i].fd : i \in DOMAIN pollFds} = Live \cup {Listen}

\* POLLOUT is requested exactly while the client has output to send: never
\* forgotten, which would starve the client, nor left on, which would make
\* poll() return at once for ever (enableWrite, flushClientWrite).
WriteInterestExact ==
    \A i \in DOMAIN pollFds :
        pollFds[i].fd \in Live =>
            ("out" \in pollFds[i].events <=> clients[pollFds[i].fd].out # << >>)

\* A round serves everything poll() reported, of every entry, however many
\* clients are disconnected and entries moved meanwhile (run).
RoundIsComplete ==
    phase # "serve" => \A i \in DOMAIN pollFds : pollFds[i].revents = {}

Unread(fd) == net[fd].snd \o clients[fd].out

-----------------------------------------------------------------------------
(* Action properties *)

\* Only a QUIT ends a connection whose peer is still there: a slow client is
\* kept, however full its buffers are, since send() is only tried when poll()
\* has reported room (flushClientWrite disconnects on EAGAIN).
SlowClientsKept ==
    [][\A fd \in Live \ Live' :
         net[fd].peer = "open" =>
            \/ phase' = "stopped"
            \/ \E k \in DOMAIN clients[fd].in : clients[fd].in[k].kind = "quit"]_vars

-----------------------------------------------------------------------------
(* Liveness *)

\* A client that does not read holds up nobody else: whatever a client that
\* does is to be told, it is told, or its connection ends, although the output
\* of others waits for ever (run, flushClientWrite).
StalledBlocksNobody ==
    \A fd \in Fd \ Stalled, id \in 1..MaxPieces :
        (fd \in Live /\ \E k \in DOMAIN Unread(fd) : Unread(fd)[k].id = id)
            ~> ~(fd \in Live /\ \E k \in DOMAIN Unread(fd) : Unread(fd)[k].id = id)

\* A piece is a line, or none.
LineOf(piece) == IF piece.kind = "part" THEN << >> ELSE <<piece>>

LinesOf(stream) == FlattenSeq([k \in DOMAIN stream |-> LineOf(stream[k])])

\* The lines of a connection that are received, or on their way.
Unexecuted(fd) == LinesOf(clients[fd].in \o net[fd].rcv)

\* Every complete line a client sends is executed, or its connection ends:
\* however lines are cut into chunks, none waits for the next one to arrive
\* (handleClientRead, extractCommands).
EveryLineExecuted ==
    \A id \in 1..MaxPieces :
        (\E fd \in Live : \E k \in DOMAIN Unexecuted(fd) : Unexecuted(fd)[k].id = id)
            ~> ~(\E fd \in Live : \E k \in DOMAIN Unexecuted(fd) : Unexecuted(fd)[k].id = id)

\* A signal ends the server, at the latest when the next thing happens.  It
\* need not before: between the test of _shutdown and poll() a signal is only
\* remembered, and poll() then waits for an event (run).
ShutdownHappens ==
    (shutdown /\ (phase \notin {"enter", "poll"} \/ SomethingReady)) ~> (phase = "stopped")

-----------------------------------------------------------------------------
(* Refinement *)

\* LineServer, with the lines and messages that are in buffers or in the kernel.
Lines == INSTANCE LineServer WITH
            Line    <- [kind : Kind \ {"part"}, id : 1..MaxPieces],
            up      <- [fd \in Live |-> net[fd].peer],
            todo    <- [fd \in Live |-> Unexecuted(fd)],
            mail    <- [fd \in Live |-> Unread(fd)],
            running <- phase # "stopped"

\* The loop with its buffers behaves as a server that takes one line at a time
\* from each connection, in order, and loses nothing while the peer is there.
LineServerSteps == Lines!Init /\ [][Lines!Next]_(Lines!vars)

\* Every line is executed, every connection that has ended is closed, and what
\* is sent to a peer that reads is read.
LineServerFairness == Lines!Fairness
=============================================================================
