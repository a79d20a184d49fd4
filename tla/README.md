# A TLA+ model of ircserv

`ircserv` is an IRC server: one process, one thread, one `poll()` loop, C++98.
Clients are known by their file descriptor. What makes it worth modelling is
not concurrency inside a command (a command runs to its end before the next
line is looked at) but what long interleavings of commands of many clients do
to a state that is keyed by reusable descriptors, by names of channels that
come and go, and by nicknames that change: who is operator after the operator
has gone, who still holds an invitation, who may come in when a channel opens,
and what is remembered of a client that is no longer there.

Paths below are those of the repository (`src/Server.cpp` is the file of that
name in its `src` directory).

## The system

| Component | Source | State | Operations | Properties that make it correct |
|---|---|---|---|---|
| Channel | `src/Channel.cpp` | members, operators, half-operators, invitations, topic, modes | add, remove, query | no duplicates; ranks of members only; order of arrival and promotion kept |
| Registration | `src/Registration.cpp`, `src/Client.cpp` | password, nickname, user name, registered, refused nicknames | CAP, PASS, NICK, USER, `completeRegistration` | unique nicknames; registered exactly when complete |
| Channel commands | `src/ChannelCommands.cpp` | `_channels`, `_pendingJoins` | JOIN, PART, KICK, INVITE, TOPIC, `promoteSuccessor` | entry respects the modes; invitations serve once; succession |
| Modes | `src/Mode.cpp` | modes and ranks of a channel | MODE t i k l o, `joinPendingClients` | `-i` lets in those refused, and nobody the other modes keep out |
| Server | `src/Server.cpp`, `inc/Server.hpp`, `handleQuit` of `src/Messages.cpp` | `_clients`, `_channels`, `_pendingJoins` | accept, disconnect, QUIT, dispatch | nothing outlives the client it is about |
| Event loop and buffers | `src/Server.cpp` | `_pollFds`, input and output buffers, `_shutdown` | `run`, `handleClientRead`, `flushClientWrite`, `extractCommands` | POLLOUT exactly while there is output; every entry served; output arrives in order; shutdown |
| Output delivery | `sendReply`, `broadcastToChannel`, `src/Messages.cpp` | output buffers | PRIVMSG, NOTICE, PING, all replies | what a client was told adds up to the state |
| Nickname variants | `isNicknameVariant` | none | pure function on strings | which retries are refused |
| Parser and input | `src/Parser.cpp`, `extractCommands` | `_inBuffer` | lines out of chunks, parameters out of lines | the same commands whatever the chunks |
| Queries | `src/Queries.cpp` | none | WHO, WHOIS, WHOWAS, BOTUSERS, BOTCHANNELS | read only |
| Bot | `bot/main.cpp` | input buffer, `responseTarget` | answers to `!` commands | the answer goes to who asked |
| Entry point | `src/main.cpp`, `Makefile` | none | argument checks | |

How they interact: `run` reads a chunk of one client, `extractCommands` cuts
it into lines, `processCommand` dispatches each line to a handler, and the
handler changes the three maps of class `Server` and appends replies to output
buffers, which `run` sends when `poll()` reports room. Handlers call each other in four places, and these are where the
surprises are: NICK and USER end in `completeRegistration`, which calls
`handleJoin` for `#general`; `MODE -i` calls `joinPendingClients`, which calls
`handleJoin` for other clients; PART, KICK, QUIT, `-o` and `disconnectClient`
end in `promoteSuccessor`; QUIT ends in `disconnectClient`.

What is hard: descriptors are reused as soon as they are free; a channel is
erased when it empties and created again by the next JOIN, while
`_pendingJoins` is keyed by its name and stays; a client may rename itself to
and from `ircbot`, which the rules of succession treat apart; registration
commands come in any order; connections are lost at any point; several clients
are admitted by one command. In the loop: entries of `_pollFds` are moved while
it is iterated, sends are partial, peers stop reading, and a QUIT in the middle
of a buffer frees the buffer. In the bot: replies of the server arrive among
messages of people, and one variable remembers where the last one came from.

## Modules

| Module | Models |
|---|---|
| `Channel` | class `Channel`: a channel is a value, each method an operator from the old to the new one |
| `ServerState` | the constants, the three maps (`clients`, `channels`, `pendingJoins`), `Client`, the searches by nickname and by name |
| `ChannelCommands` | `promoteSuccessor` (`Heir`, `PromoteSuccessor`), departures (`Leave`), admission (`MayEnter`, `Admit`, `Join`), the commands |
| `Registration` | accept, `disconnectClient`, QUIT, PASS, NICK, USER, `CompleteRegistration` |
| `Mode` | one action per mode, `joinPendingClients` (`Admissible`, `ClearInviteOnly`), `setChannelOperator` |
| `IrcServer` | composes them: `Init`, `Next`, `Spec`, invariants and action properties |
| `History` | `IrcServer` with two variables that record what the server forgets: USERs refused, keys of JOINs |
| `ClientViews` | `IrcServer` with the picture of its channels each client gets from JOIN, 353, PART, KICK, QUIT, NICK and MODE messages |
| `NicknameVariant` | `isNicknameVariant` and `stripNickSuffix` on sequences of characters, and the retries of irssi |
| `EventLoop` | `Server::run`: `poll`, `accept`, `recv`, `send`, `disconnectClient`, the signal; the kernel and the peers |
| `LineServer` | the abstract specification of `EventLoop`: a queue of lines and a queue of mail per connection |
| `Parser` | class `Parser`: prefix, command and parameters of a line |
| `InputStream` | one connection from characters to commands: `recv`, `extractCommands`, `Parser`; what the whole stream means |
| `Bot` | `bot/main.cpp` beside `handlePrivmsg`, `handleBotUsers` and `handleBotChannels`, over two streams of lines |
| `MCIrcServer`, `MCClientViews`, `MCNicknameVariant`, `MCInputStream`, `MCBot` | values for TLC |
| `Positions` | lemmas: what `Min` and `Max` return, `FlattenSeq`, what is read off a queue of messages, elements of sequences |
| `ServerTheorems` | the inductive invariant of `IrcServer` and the theorems about its states |
| `GateTheorems` | theorems about its steps: who comes in, invitations, limits, loss and gain of operators, seniority |
| `VariantTheorems` | theorems about `NicknameVariant`, for nicknames of any length |
| `StreamTheorems` | theorems about `InputStream` and `Parser`, for streams and lines of any length |
| `LoopTheorems` | the inductive invariant of `EventLoop` and its theorems; the loop implements `LineServer` |
| `ViewTheorems` | the inductive invariant of `ClientViews`: what each client was told adds up; `-i` as a loop |
| `BotTheorems` | the inductive invariant of `Bot`: where each question and each list is on its way |

The core is the chain `Channel`, `ServerState`, `ChannelCommands`,
`Registration` and `Mode`, `IrcServer`, each extending the one before;
`History` and `ClientViews` add variables to `IrcServer` that no command reads.
`EventLoop` and `InputStream` are two views of the same code with different
data: the first keeps all connections and reduces lines to what they do to
buffers, the second keeps one connection and its characters. `Bot` keeps the
sets of members only and takes the server's handling of its lines as steps.

Each handler of the source is one action with the same name where TLA+ allows
it. In `EventLoop` one iteration of a loop of the code is one step, so that
peers and signals interleave with everything the server does.

### How the state corresponds to the code

* `clients` is `_clients`, a function from the open descriptors to records.
  `pass` stands for `_authenticated` and `_sentPass`, which `handlePass` only
  sets together; `user` says that `_username` is not empty (it is only tested
  for that); `barred` stands for `_rejectedNicknames`: the nicknames that
  `isNicknameVariant` would refuse now. Which nickname is a variant of which
  is the constant `VariantOf`.
* `channels` is `_channels`. `_clients` and `_halfOperators` of a channel are
  sequences, because succession reads their order; `_operators` and `_invited`
  are vectors without duplicates whose order is never read, and are sets. A
  flag and its value (`_keyEnabled` and `_key`) are one field.
* `pendingJoins` is `_pendingJoins`, with `{}` for a name without an entry; the
  code makes no difference between an empty entry and none.
* A command the code refuses writes a reply and nothing else. Replies are not
  part of this state, so a refused command is a stuttering step and has no
  action. The refusals that do change state have one: 473 (`refused` in
  `Join`) and 433 (`NickInUse`).
* JOIN and PART take a set of names. The names of a list are distinct channels
  that do not influence each other, and a repeated name changes nothing.
* `joinPendingClients` is a loop that calls `handleJoin`. `Admissible` and
  `Admit` say its result at once; that this is the result of the loop is an
  invariant of the run `gates` (`OpeningIsRetriesInTurn`).
* QUIT removes the client from its channels one by one and then calls
  `disconnectClient`, which finds only invitations left. It differs from a
  lost connection in the messages it sends, so the two have the same effect
  here.
* `accept()` returns the lowest free descriptor, as POSIX says; the set `Fd`
  bounds how many connections there are at once, as the operating system does.

Of the announcements (`ClientViews`):

* `views[c][fd]` is the channel as the client was told of it: the nicknames on
  it, with operators and half-operators. It is changed by applying, in the order
  of the code, the messages a handler sends: some go out before the change
  and some after (a PART reaches the one that leaves, the JOIN reaches the one
  that enters before the list of names does).
* A connection that is lost is not announced. The picture takes the loss itself
  as known and checks what must be announced with it, the successor.

Of the loop (`EventLoop`):

* A stream is a sequence of pieces: the end of a line, of a kind that says whom
  the line writes to, or a part of a line (`"part"`) without its end. So a line
  is cut by `recv` where there are parts, and a send takes some messages of a
  buffer and leaves others.
* `pollFds` is `_pollFds` in order. The code copies `revents` and tests its
  flags one after the other; the model empties `revents` flag by flag as they
  are served, in the order POLLERR, POLLIN, POLLOUT, POLLHUP.
* `net` is the kernel: data received and not read (`rcv`), data sent and not
  read by the peer (`snd`, up to `Window`), and the peer, which is open, has
  closed its side and still reads, or has gone. Linux reports POLLHUP when both
  directions are closed; other systems report it for one. `HangUpOnFin` makes
  it a choice at each `poll()`.
* `send()` fails with EAGAIN when nothing fits, and the code disconnects. The
  model does the same, and `SlowClientsKept` says it never comes to that.
* `Fd` is the set of descriptors. `accept()` may fail at any time, as it does
  when none is free, and the connection stays in the backlog; or `setNonBlocking`
  fails and the new connection is closed.
* When a descriptor is closed, the model drops what the kernel still held for
  the peer (`snd`). A peer that is still there, after a QUIT, may in fact read it;
  no property says that it does, nor that it does not. `LineServer` likewise
  loses the mail of a connection with the connection, and in no other way.
* A signal sets `shutdown`; it interrupts `poll()` only once the thread is in
  it (phases `enter` and `poll`), so a signal just before it is seen at the next
  event. SIGPIPE, which the server ignores, errors of `poll()` other than
  EINTR and a return of 0 with no timeout are not modelled.

Of the streams, nicknames and the bot:

* `Parser` and `InputStream` are on characters, since where a parameter begins
  and which byte ends a line is what they are about. `executed` is what
  `processCommand` was given.
* In `NicknameVariant` a character is a suffix character (`_`, digits) or
  another; the numbers 8 and 9 are the constants `Stem` and `Full`.
* In `Bot`, `toServer` and `toBot` are the two directions of the connection,
  `input` the lines the bot has received and not handled. `ircbot` hears every
  channel, on it or not, as `broadcastToChannel` does. A message with ` 900 `
  or ` 901 ` in its text is taken for a list without content and swallowed; a text
  that imitates a whole reply is not enumerated. The branch of the bot for PING
  is never reached: this server sends none. `asked`, `answered` and `due` are history: what an
  observer of both streams has seen.

## Runs

All runs explore the whole state space of their instance.

| Run | Module | Instance | States | Question |
|---|---|---|---|---|
| `ranks` | `MCClientViews` | 3 descriptors; alice, bob, ircbot; 1 channel | 64,534 | Are ranks consistent, does the right member take over, whoever leaves in whichever way, and is every member told? |
| `rooms` | `MCIrcServer` | 2 descriptors; alice, bob; 2 channels | 53,661 | Does anything outlive the client, membership or channel it is about? |
| `lobby` | `MCIrcServer` | 2 descriptors; alice, alice_, ircbot; 1 channel, 1 key, limit 1 | 190,894 | Do PASS, NICK and USER in any order and interleaving register exactly the complete clients, under unique nicknames? |
| `gates` | `MCClientViews` | 3 descriptors; alice, bob, carol; 1 channel, 2 keys, limit 2 | 55,807 | Do `+i`, `+k` and `+l` hold on all three ways into a channel, is everyone `-i` can let in let in, and told? |
| `loop` | `EventLoop` | 2 descriptors; chunks of 2, window 1; 2 pieces of any kind, 2 connections; one peer may stop reading; signals | 132,309 | Does the loop implement `LineServer`, and keep its books, whatever peers do? |
| `stream` | `MCInputStream` | all streams of up to 5 characters of `q a \r \n`, all lines of up to 5 of `a : space`; `recv` of 1 to 3 | 13,999 | Are the commands those of the stream, however it is cut? Does the parser lose nothing? |
| `nicknames` | `MCNicknameVariant` | nicknames of up to 3 characters of two letters and `_`, or of a letter, `_` and a digit; 3 refused, 4 retries | 20,528 | Are automatic retries detected, and nothing else? |
| `bot_talk` | `MCBot` | 1 human; #general, #bot and private; 3 messages of 5 kinds, 1 change of membership | 1,023,769 | Do answers come back where they are due, in order and once? |
| `user_before_pass` | `History` | 1 client | | violated: `RegistrationInAnyOrder` |
| `retry_without_key` | `History` | 2 clients, 1 key | | violated: `RetryKeepsKey` |
| `renamed_bot` | `IrcServer` | 1 client | | violated: `PeopledChannelHasOperator` |
| `keyed_general` | `IrcServer` | 2 clients, 1 key | | violated: `DefaultJoin` |

Deadlock is checked in the runs of the core, where a client can always do
something. It is not in `loop`, `stream`, `nicknames` and `bot_talk`: a
server that has been stopped, a stream that is used up, and clients that have
sent as much as the bounds allow are rightly at an end; that nothing stops
before is what the liveness properties of these runs say.

Why these bounds are enough for the questions.

* Succession needs an operator, an heir and one more member to be preferred
  wrongly, and both ranks at once: three descriptors, one of which can be
  `ircbot`. Reuse of a descriptor needs one client that goes and one that comes,
  while another keeps the channel alive: two descriptors, any number of
  connections. What is kept by name across channels needs two channels. The
  limit needs two waiting clients and an operator: three descriptors and limit
  2. That another key than the right one does not do needs two keys. Constants a
  question does not depend on are empty. `BoundedSpec` and
  `BoundedTold` leave out `MODE -t`, which only decides who may set a topic;
  `lobby` runs the full `Spec`. Human nicknames are symmetric where none is a
  variant of another, and keys are; descriptors are not, since they are ordered.
* `loop`: the entry that is freed and the last one that moves into it need two
  clients; a descriptor that is used again needs two connections one after the
  other. Window 1 makes the kernel full after one message, so sends
  are refused; two pieces make a line in two parts, two lines in one `recv`, a
  line behind a QUIT, and messages to each other. Peers that need never read,
  half-close and reset are possible at every step. The safety part of this run
  is proved for all sizes.
* `MaxPieces` = `Chunk` is a bound with a meaning: what a client sends fits one
  `recv`. Where `poll()` reports POLLHUP and POLLIN together and more than
  4096 bytes are waiting, the code reads once and then disconnects, and the
  rest is lost. With `MaxPieces` above `Chunk`, and POLLHUP reported for half
  closed connections, `LineServerSteps` is violated by exactly this; on Linux
  it takes a reset, after which nothing is promised. The theorem
  `LoopImplementsLines` has this bound as its hypothesis, `OneRecvSuffices`.
* `stream`: five characters hold two lines with CR and LF at every cut, empty
  lines, and a QUIT with something behind it; a line of five has two parameters
  with spaces and colons in every position.
* `nicknames`: `Stem` and `Full` are scaled from 8 and 9 to 2 and 3; three
  characters are on both sides of both. Four retries bring every chain to its
  end. `RefusedMayRetry` is proved for all lengths.
* `bot_talk`: three messages are two questions and one that moves
  `responseTarget` between them, in three places.

What the properties of the core are about:

* `OperatorLossNeedsNoHeir`, `OperatorGain`, `HalfOperatorsHaveOperator`,
  `SeniorityKept`: succession. A channel loses its last operator only if nobody
  could take over; who takes over is the eldest half-operator, else the eldest
  human but for the operator just deposed, never `ircbot`; who enters becomes
  operator only as the first human, also of a new channel; the lists this reads
  keep their order.
* `AtMostTwoOperators`: the exact bound. One would be expected, but an operator
  that renames itself `ircbot` lets the next human in as a second one. The
  second cannot do the same to let in a third: there would have to be no human
  among two members, and only one client can bear the nickname `ircbot`.
* `NoStaleFd`, `PendingAreOutside`, `ChannelsInhabited`, `InvitationIsSpent`:
  nothing outlives what it is about.
* `InviteOnlyGate`, `KeyGate`, `LimitGate`: about every step by which somebody
  comes in, also the end of a registration and the retries at `-i`. The state
  does not keep the key a JOIN gave. `KeyGate` asks instead which keys, or none,
  make a JOIN do what the step did: exactly the key of the channel. So a JOIN
  with the right key must come in and differ from each JOIN with another; if one
  of these came in too, it would be in the set, and if the server let somebody in
  on its own, the set would be empty.
* `NobodyLeftWaiting`, `OpeningIsRetriesInTurn`: `-i` forgets nobody.
* `ViewsTrue`: those that were told they are on a channel are its members, and
  what each was told adds up to the members and ranks there are, with one
  exception (`Untold`): the first human that comes in where `ircbot` is alone
  becomes operator without a MODE message, so `ircbot` does not learn it. The
  two are then the first two members, and the exception ends with that. `ranks`
  checks it for succession and loss, `gates` for those who come in unasked.
* `NicknamesUnique`, `RegisteredExactly`, `NoDuplicates`, `RanksAreMembers`,
  `TypeOK`: the invariants the others stand on. `NoDuplicates` is about the two
  lists, members and half-operators; operators and invitations are sets here.

Of the other modules:

* `LineServerSteps`: the refinement. Under the mapping of `EventLoop` a
  connection's `todo` is what is buffered and in the kernel, complete lines
  only, and its `mail` what is in the kernel and buffered the other way. So
  lines are executed once and in order, output arrives once and in order,
  however reads and sends are cut; and a connection ends only for the three
  reasons `LineServer` has. `LineServerFairness`: the fairness of `LineServer` is
  implemented too: every line is executed, every connection that ended is
  closed, and mail is read. The two together are the specification of
  `LineServer`.
* `EntriesAreClients`, `WriteInterestExact`, `RoundIsComplete`: the books of
  `_pollFds`. `SlowClientsKept`: no client is disconnected for being slow.
* `StalledBlocksNobody`, `EveryLineExecuted`, `ShutdownHappens`: a peer that
  never reads delays nobody else; what is received is executed; after a signal the
  server stops once anything happens on a socket.
* `ChunksDoNotMatter`, `StreamExecuted`, `ParamsAreWords`, `ReadBack`: input.
* `RetriesCaught`: irssi's retries are detected, but for nicknames that are all
  suffix, or whose truncated form ends in suffix characters (`player10x`, whose
  retry `player101` is not). `RefusedMayRetry`: as long as no refused nickname
  has, without suffix, more than `Stem` characters, none bars another from being
  asked for again. A longer one may: a nickname that shares its first `Stem`
  characters and is shorter is then taken for its retry.
* `AnswersFollowQuestions`, `ListsStayClose`, `EveryCommandAnswered`: the bot.
  A list may come back in another place than it was asked in, when somebody wrote
  elsewhere in between (`bot/main.cpp:64`); `ListsStayClose` permits that and says
  it goes no further. An answer counts as given when the server has taken its
  line, also if it refuses it because the channel has gone meanwhile (403).

Each property has a mutant: an operator beside the original, marked as such,
that changes it as a plausible bug would and makes the run fail.

### Fairness

None is assumed in the core: a client need not send anything, and its
properties are safety properties. In `EventLoop` the server's steps together are
weakly fair: one thread, which the system schedules. So is the reading of each
peer that is not `Stalled`. Connecting, sending, closing and signals are never
fair. In `InputStream` the whole step is: what the client has sent arrives and
is handled. In `Bot` the server's handling of the bot's lines is, which is
`EveryLineExecuted` of the loop, and so are the bot's `recv` and its handling of
what it received, a loop that does nothing else; humans need not write.

## Where the code and what is written about it disagree

1. *Registration in any order* (`user_before_pass`). The comment of
   `completeRegistration` says registration ends once PASS, NICK and USER are
   valid, in whatever order they arrived. USER before PASS is refused with 464
   and forgotten, so NICK, USER, PASS registers nobody until USER is repeated.
   The proof of `RegistrationIsExact` shows the other side: it is because of
   this refusal that `handlePass` need not call `completeRegistration`.
2. *The retry has no key* (`retry_without_key`). A client whose JOIN gave the
   right key is refused by `+i`, which is tested first; `-i` retries its JOIN
   without the key, is refused with 475, and the entry is gone.
3. *People without operator* (`renamed_bot`). `ircbot` alone in a channel has
   no rank; when it takes another nickname the channel has a human member, no
   operator. Nobody inside may use MODE, and a second human that joins does not
   become operator either; only when some member leaves does
   `promoteSuccessor` run.
4. *The default channel* (`keyed_general`). The README says a client that
   registers is joined to `#general` unless it is invite-only; a key or a full
   channel keeps it out as well.

Known behaviours that nothing written contradicts, and that are therefore
described by properties and not reported: the lists of the bot that go astray
(`bot/main.cpp:64`); commands given to the bot in private, which it answers to
itself (`:87`); `!send`, which `!help` names and nothing handles (`:96`); a
lost connection that is not announced; a client that PARTs from a `+i` channel
it never entered and is joined to it at `-i`.

## Proofs

`tlapm` checks `Positions`, `ServerTheorems`, `GateTheorems`, `ViewTheorems`,
`LoopTheorems`, `BotTheorems`, `StreamTheorems` and `VariantTheorems`.

The induction theorems of the library cannot be used, since they take an
operator as a parameter. Where an induction is needed the proof takes the least
number, position or length at which the claim fails (`MinIsLeast`) and derives
it there from smaller ones. A recursive function is first shown to exist in the
same way (`FlattenHasFunction`, `RetriesHaveFunction`, `ParamsHasFunction`,
`ChainHasFunction`); after that its defining equation can be used.

### The server

The theorems hold for every set of descriptors, nicknames, channel names, keys
and limits that meets the assumptions of `Channel` and `ServerState`:
descriptors are finitely many natural numbers, limits are positive, the empty
nickname and the absent key are not nicknames or keys, `#general` is a channel
name, variants are pairs of nicknames.

* `TypeCorrect`: `TypeOK`, inductive by itself.
* `RegistrationIsExact`: `RegisteredExactly` is not inductive: PASS changes its
  right side and registers nobody. It is strengthened by "a user name implies
  a password" (`Accepted`).
* `ListsHaveNoDuplicates` and all others follow from `IInv`, the conjunction of `TypeOK`,
  `NicknamesUnique`, `AllSound` and `PendingAreOutside`. `AllSound` says of
  each channel that it is `Sound`: its lists have no duplicates, ranks belong to
  members, members are connected and registered, the invited are connected, it
  has a member, at most two operators, and an operator if it has a
  half-operator. Each conjunct needs others:
  `HalfOperatorsHaveOperator` needs that the heir `promoteSuccessor` picks is
  connected, hence `NoStaleFd`; the bound on operators needs that only one
  client is `ircbot`, hence `NicknamesUnique`; `NoDuplicates` at `-i` needs
  that those waiting are outside, hence `PendingAreOutside`.

The proof goes operator by operator: lemmas about `Erase`, concatenation and
`Min` (the first part of `ServerTheorems`, and `Positions`); each operator on a channel keeps its
type and its soundness (`GoneRanked`, `HeirIsMember`, `PromoteSound`,
`DepartedSound`, `AdmitSound`); then `Leave` and `Join` on the map of channels;
then one lemma per group of actions; then `InvNext`.

`GateTheorems` proves eight action properties from `IInv`. Its centre is
`HowChannelsChange`: whatever the step, a channel that lasts keeps its members
and its operators are at most replaced (`Stays`), or one client comes in by a
JOIN it made or the server made for it (`Comes`, `Asked`), or it is opened
(`ClearInviteOnly`), or one client goes (`Goes`). It is proved action by action;
each theorem then only looks at these four. `LimitHolds` counts: the
greatest descriptor that is admitted at `-i` found a place beside all others
admitted. `OpeningForgetsNobody` counts the other way: before the least that is
left out, all were admitted. `OperatorsAreSucceeded` needs that members are
connected (`AllSound`), since `promoteSuccessor` gives up on a successor it does
not find.

`SeniorityIsKept` and `OperatorsGainRightfully` look at the same four
again, for the order of the lists (`Seniority`): erasing and appending keep the
order of what stays (`InOrder`, and lemmas on how it composes), so a channel is
`Orderly` after each method of the class; the heir `promoteSuccessor` picks is
the first of its list, hence precedes all others, and human unless it is a
half-operator (`Succeeds`). At `-i` several clients come in at once, of whom the
first human at most becomes operator; the operator of a new channel is the human
that made it (`NewChannelGain`). `KeyHolds` shows of the step by which somebody
comes in that a JOIN with the channel's key is that step, and a JOIN with another
key is not, since it changes nothing there.

### The announcements

`ViewTheorems` proves `ViewsTrue` (`AnnouncementsAddUp`) for any number of clients
and channels. `ToldImplementsSpec` says that `ClientViews` only observes: its
behaviours are those of `IrcServer`, so `IInv` and all theorems hold of it. The
inductive invariant `ToldInv` adds `VInv`: in each channel the members, and only
they, have a picture, which shows the members there are, the half-operators
there are, and all operators but the second of the list of members when it is the
first that looks (`Pictured`). That this exception does not grow is where the
list of members counts: who comes in comes last and is made operator only if no
human is there, so one that is not told of it was alone (`LoneBot`), and who goes
leaves the others in order (`EraseFirstTwo`).

A message names nicknames, the server has descriptors. The proof describes a
picture by three sets of descriptors (`Picture`) and follows each message on
these: JOIN adds one, PART, KICK and QUIT take one, a MODE moves one, NICK moves
none. This needs that nicknames tell members apart, hence `NicknamesUnique`, and
it is where the order of the code counts: a NICK is announced under the old
nickname, a successor after the departure. Several arrivals at `-i` are a
recursive function (`TellArrivals`); that it tells what `Admit` does is proved
by induction on the number of arrivals told.

`OpeningIsALoop` is about the core: what `ClearInviteOnly` says at once is what
`joinPendingClients` does one by one. After the first `n` of those waiting the
channel is what it is after the arrivals among them (`OpeningSteps`): the
admissible ones are the first who may enter (`AdmissibleAreFirst`,
`ArrivalsAreFirst`), so a retry either adds the next of them or, refused, changes
nothing (`RetryIs`), and who is human or operator is counted along
(`OtherwiseNext`). `AscendingExists` and `AscendingRank` say that a finite set of
descriptors has its one ascending order, which is that of `std::set`.

### The bot

`BotTheorems`, for any humans, channels and lengths of the conversation, if
`#general` and the bot's channel are channels and the bot is no human
(`BotAssumption`). `AnswersFollowQuestions` compares two ends of a
conversation; the invariant says where everything in between is:

* `Conversations`: what was asked in a place is what was answered there,
  followed by the answers in `toServer`, the questions in `input` and the
  questions in `toBot`. A step takes an element from the front of one of these
  and puts its counterpart at the end of the one before it, so that the sum
  stays; what counts as question or answer is read off a queue by `Reading`
  (`Positions`).
* `ListsOnTheirWay`: as many lists are due as there are requests and replies on
  their way. `ListsMayGo`: `responseTarget` is a place where each of them may
  go. `ListsGoWhereTheyMay` follows.

### The loop

For every finite set of descriptors, every size of chunks and of the kernel's
window, any kinds of lines and any stalled peers. `LoopInv` has, while the
server runs:

* `Matched`: `EntriesAreClients`. It is needed to see that `RemoveEntry` removes
  the entry of the client that goes, and no other.
* `Interest`: `WriteInterestExact`.
* `FlagsTrue`: what `poll()` reported of an entry is still so when it is served.
  Nothing done for other entries takes it back: only the server reads input and
  fills the kernel's window, and only for the entry it serves. `SlowClientsAreKept`
  rests on it: a reported POLLOUT means room, so `send()` is not refused, and a
  reported POLLIN with nothing to read means the peer has closed.
* `ServedBefore`: the entries before `pos` have no flags left. With
  `RemoveEntry` moving the last entry, which has not been served, to `pos`, and
  `pos` staying, it gives `RoundsComplete`.
* `ListenTrue`: `accept()` is only called while a connection waits.

`LoopImplementsLines` is the refinement: every step of the loop is a stutter or
one step of `LineServer` under the mapping of `EventLoop`. It needs more
than the books (`RefInv`):

* `Extracted`: only the client being served has complete lines in its buffer,
  and only after its `recv`. So a line executed is the first of all that are
  on their way, and a connection that is closed leaves no line behind.
* `Drained`: where POLLHUP is reported for a peer that has only closed its own
  side, its last data have been read, or are going to be before POLLHUP is
  looked at, by one `recv`.
* `Bounded`: no more is in the kernel than has been sent. With the hypothesis
  `OneRecvSuffices` (what is sent fits one `recv`, or POLLHUP is reported when
  both directions are closed only, as Linux does) it gives that one `recv` reads
  all. Without the hypothesis the theorem is false, as TLC shows.

That is a fact on each buffer; the rest is on sequences: a line is complete
when its last part is, however it was cut (`LinesOfBoth`), and moving a cut
changes nothing (`Regrouping`). For each action of `LineServer` a lemma says
which change of the connections it is (`EchoIs`, `CloseIs`, ...), and for each
step of the loop a lemma says which of these happens (`ExtractRefines`,
`FlushRefines`, ...).

### The input stream and the parser

For every set of streams and every `Chunk`. `StreamAssumption` says that a
stream consists of characters `toupper` is defined on, `UpperAssumption` that
`toupper` changes nothing when it is applied again and makes a space of a space
only.

* `CutsDoNotMatter`: `ChunksDoNotMatter` with the types is inductive. A read
  moves the cut between the buffer and what is to come (`ReadKeepsStream`). An
  iteration of `extractCommands` takes the first line out of the buffer, which is
  the first line of the buffer and all that is to come (`CutBuffer`); the commands
  of a stream are the command of its first line and the commands of the rest
  (`FirstLineFirst`), and up to the first QUIT they are the same, or the first one
  only (`UpToQuitFirst`).
* `HandlersGetWords`: the parameters from each position of a line on are words,
  but for the last, if those from later positions on are (`ParamsType`;
  `ParamsGoForward` says the loop of `parseParams` goes forward).
* `ParseLosesNothing`: `Readable` is what `parse` makes of any line
  (`ParseIsReadable`), and any readable command, written as a line, is read back
  (`FormatIsRead`). The positions at which `parse` stops are found one by one in
  the written line (`SkipSpacesIs`, `EndOfWordIs`); for the parameters the
  shortest list that is not read back would have a shorter one after its first
  word (`WrittenIsRead`).

### Nickname variants

For nicknames of any length, any positive `Stem` and any `Full` greater than it,
as 9 is than 8; `_` and the digit are suffix characters, as `stripNickSuffix` has
it. `RefusedMayRetry` is not inductive; `StemsDiffer` is: of two nicknames in
`rejected` what is left without suffix differs, since two nicknames with the same
stem are variants of each other (`SameStemIsRetry`) and the second is refused
before it is remembered (`StemsStayDifferent`). Short nicknames with different
stems are no variants (`RefusedStayFree`).

`RetriesAreCaught`: all retries of a nickname whose stem is short have its stem
(`RetryKeepsStem`, `StemIsCaught`); a nickname whose stem is too long is cut
once, and the cut one is its own retry (`CutIsCaught`).

### Only model-checked

Liveness, under fairness, which is out of the prover's reach:
`StalledBlocksNobody`, `EveryLineExecuted`, `ShutdownHappens`,
`StreamExecuted`, `EveryCommandAnswered`, and the fairness of the refinement,
`LineServerFairness`. All other properties of the passing runs are stated by
theorems.

## Not modelled, and why

* The numeric replies, TOPIC and the announcements of modes other than ranks:
  one append to a buffer each; no command reads them, and nothing can make them
  disagree with anything. `EventLoop` has them as lines that are echoed or cast.
* WHO, WHOIS and WHOWAS read the three maps and write one reply; PING and CAP
  write one. BOTUSERS and BOTCHANNELS are in `Bot`, without their content.
* `isValidNickname`: represented by the constant `Nick`. `VariantOf` of the core
  is any relation; which one it is, `NicknameVariant` says.
* `atoi` of `MODE +l`: represented by `Limit`, the positive integers it returns.
* The composition of the core with `EventLoop` in one module: a command is
  executed within one step of the loop, so the two interact by whom a line
  writes to and by QUIT only, and these `EventLoop` has.
* `main`, socket setup, logging: no state, or system calls only.
* Unbounded memory: input without end of line and output that is not read grow
  without limit. The code sets no bound to check against.

## Plan

What the first plan of this project named is modelled, checked and, where the
provers reach, proved. Worth adding next:

1. An abstract specification of one connection, in which `processCommand` is
   given the commands of the stream one by one, and `InputStream` shown to
   implement it: the safety part follows from `CutsDoNotMatter`.
2. The same for the bot: questions answered in order, implemented by `Bot` with
   its two streams; `AnswersAreInOrder` has the invariant.
