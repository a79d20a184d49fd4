---------------------------- MODULE LoopTheorems ----------------------------
(***************************************************************************)
(* Theorems about EventLoop, for every number of descriptors, every size   *)
(* of the kernel's and the server's chunks, and all peers.                 *)
(*                                                                         *)
(* The first part proves the invariants of the loop's books.  The          *)
(* inductive invariant speaks of the vector of entries, the map of clients *)
(* and the connections as the arguments fds, cl and nt, so that what one   *)
(* operator does to them is a lemma of its own.                            *)
(*                                                                         *)
(* The second part proves that the loop implements LineServer: what the    *)
(* mapping needs of the buffers beyond the books (RefInv), what a change   *)
(* of the connections is to LineServer (the lemmas ...Is), and which of    *)
(* these each step of the loop is (the lemmas ...Refine).                  *)
(***************************************************************************)
EXTENDS EventLoop, Positions, SequenceTheorems

-----------------------------------------------------------------------------
(* The inductive invariant *)

Typed(fds, cl, nt) ==
    /\ fds \in Seq(Entry)
    /\ DOMAIN cl \subseteq Fd
    /\ cl \in [DOMAIN cl -> Client]
    /\ nt \in [DOMAIN cl -> Connection]

\* EntriesAreClients, of the arguments.
Matched(fds, cl) ==
    /\ fds # << >> /\ fds[1].fd = Listen
    /\ \A i, j \in DOMAIN fds : fds[i].fd = fds[j].fd => i = j
    /\ \A i \in DOMAIN fds : fds[i].fd \in DOMAIN cl \cup {Listen}
    /\ \A fd \in DOMAIN cl : \E i \in DOMAIN fds : fds[i].fd = fd

\* WriteInterestExact, of the arguments.
Interest(fds, cl) ==
    \A i \in DOMAIN fds :
        fds[i].fd \in DOMAIN cl => ("out" \in fds[i].events <=> cl[fds[i].fd].out # << >>)

\* What poll() reported is still so when the entry is served: nothing that
\* happens to the other entries, and nothing peers do, takes it back.
Reports(flag, c) ==
    /\ flag = "in"  => c.rcv # << >> \/ c.peer # "open"
    /\ flag = "out" => Window - Len(c.snd) > 0 \/ c.peer = "gone"
    /\ flag = "err" => c.peer = "gone"
    /\ flag = "hup" => c.peer # "open"

FlagsTrue(fds, cl, nt) ==
    \A i \in DOMAIN fds : fds[i].fd \in DOMAIN cl =>
        \A flag \in fds[i].revents : Reports(flag, nt[fds[i].fd])

Sound(fds, cl, nt) ==
    Typed(fds, cl, nt) /\ Matched(fds, cl) /\ Interest(fds, cl) /\ FlagsTrue(fds, cl, nt)

Scalars ==
    /\ phase \in {"test", "enter", "poll", "serve", "stopped"}
    /\ pos \in Nat \ {0}
    /\ shutdown \in BOOLEAN
    /\ backlog \in Nat /\ sent \in Nat /\ arrived \in Nat

\* Only the entries that are still to be served have flags left.
ServedBefore ==
    \A i \in DOMAIN pollFds : (phase = "serve" => i < pos) => pollFds[i].revents = {}

\* Connections wait while the listening socket is reported.
ListenTrue ==
    \A i \in DOMAIN pollFds :
        pollFds[i].fd = Listen /\ "in" \in pollFds[i].revents => backlog > 0

LoopInv ==
    /\ Scalars
    /\ phase = "stopped" =>
          pollFds = << >> /\ clients = [fd \in {} |-> {}] /\ net = [fd \in {} |-> {}]
    /\ phase # "stopped" => Sound(pollFds, clients, net)
    /\ ServedBefore
    /\ ListenTrue

-----------------------------------------------------------------------------
(* What the operators do to the entries *)

\* Erasing an entry moves the last one into its place (disconnectClient).
LEMMA RemoveEntryIs ==
    ASSUME NEW fds \in Seq(Entry), NEW i \in DOMAIN fds
    PROVE  /\ RemoveEntry(fds, i) \in Seq(Entry)
           /\ DOMAIN RemoveEntry(fds, i) = 1..(Len(fds) - 1)
           /\ \A j \in 1..(Len(fds) - 1) :
                 RemoveEntry(fds, i)[j] = IF j = i THEN fds[Len(fds)] ELSE fds[j]
<1> DEFINE moved == [fds EXCEPT ![i] = fds[Len(fds)]]
<1>1. Len(fds) \in Nat /\ DOMAIN fds = 1..Len(fds) /\ i \in 1..Len(fds)
  BY LenProperties
<1>2. fds[Len(fds)] \in Entry
  BY <1>1, ElementOfSeq
<1>3. /\ moved \in Seq(Entry) /\ Len(moved) = Len(fds)
      /\ \A j \in 1..Len(fds) : moved[j] = IF j = i THEN fds[Len(fds)] ELSE fds[j]
  BY <1>1, <1>2, ExceptSeq
<1>4. \A j \in 1..(Len(fds) - 1) : moved[j] \in Entry
  BY <1>1, <1>3, ElementOfSeq
<1>5. /\ SubSeq(moved, 1, Len(fds) - 1) \in Seq(Entry)
      /\ Len(SubSeq(moved, 1, Len(fds) - 1)) = Len(fds) - 1
      /\ \A j \in 1..(Len(fds) - 1) : SubSeq(moved, 1, Len(fds) - 1)[j] = moved[j]
  <2> DEFINE n == Len(fds) - 1
  <2>1. 1 \in Int /\ n \in Int /\ n >= 0
    BY <1>1
  <2> HIDE DEF moved, n
  <2>2. /\ SubSeq(moved, 1, n) \in Seq(Entry)
        /\ Len(SubSeq(moved, 1, n)) = IF 1 <= n THEN n - 1 + 1 ELSE 0
        /\ \A j \in 1..n - 1 + 1 : SubSeq(moved, 1, n)[j] = moved[1 + j - 1]
    BY <2>1, <1>4, SubSeqProperties DEF n
  <2>3. Len(SubSeq(moved, 1, n)) = n
    BY <2>1, <2>2
  <2>4. \A j \in 1..n : SubSeq(moved, 1, n)[j] = moved[j]
    <3> TAKE j \in 1..n
    <3>1. 1 + j - 1 = j /\ j \in 1..n - 1 + 1
      BY <2>1
    <3> QED
      BY <2>2, <3>1
  <2> QED
    BY <2>2, <2>3, <2>4 DEF n
<1>6. DOMAIN SubSeq(moved, 1, Len(fds) - 1) = 1..(Len(fds) - 1)
  BY <1>5, LenProperties
<1>7. \A j \in 1..(Len(fds) - 1) : moved[j] = IF j = i THEN fds[Len(fds)] ELSE fds[j]
  BY <1>1, <1>3
<1> QED
  BY <1>5, <1>6, <1>7 DEF RemoveEntry

(* disconnectClient: the last entry moves, and all that held of the entries, *)
(* the clients and the connections holds of those that are left.             *)
LEMMA RemoveSound ==
    ASSUME NEW fds, NEW cl, NEW nt, Sound(fds, cl, nt),
           NEW i \in DOMAIN fds, NEW fd \in Fd, fds[i].fd = fd
    PROVE  Sound(RemoveEntry(fds, i), [f \in DOMAIN cl \ {fd} |-> cl[f]],
                 [f \in DOMAIN cl \ {fd} |-> nt[f]])
<1> DEFINE left == RemoveEntry(fds, i)
           cl2  == [f \in DOMAIN cl \ {fd} |-> cl[f]]
           nt2  == [f \in DOMAIN cl \ {fd} |-> nt[f]]
           n    == Len(fds)
<1>1. /\ fds \in Seq(Entry) /\ DOMAIN cl \subseteq Fd
      /\ cl \in [DOMAIN cl -> Client] /\ nt \in [DOMAIN cl -> Connection]
  BY DEF Sound, Typed
<1>2. n \in Nat /\ DOMAIN fds = 1..n
  BY <1>1, LenProperties
<1>3. /\ left \in Seq(Entry) /\ DOMAIN left = 1..(n - 1)
      /\ \A j \in 1..(n - 1) : left[j] = IF j = i THEN fds[n] ELSE fds[j]
  BY <1>1, RemoveEntryIs
<1>4. i # 1 /\ i \in 1..n /\ n >= 2
  BY <1>2, FdAssumption DEF Sound, Matched
<1>5. \A j \in DOMAIN left : \E k \in DOMAIN fds : k # i /\ left[j] = fds[k]
  BY <1>2, <1>3, <1>4
<1>6. \A k \in DOMAIN fds : k # i => \E j \in DOMAIN left : left[j] = fds[k]
  <2> TAKE k \in DOMAIN fds
  <2>1. CASE k = n
    BY <2>1, <1>2, <1>3, <1>4
  <2>2. CASE k # n
    BY <2>2, <1>2, <1>3, <1>4
  <2> QED
    BY <2>1, <2>2
<1>7. DOMAIN cl2 = DOMAIN cl \ {fd}
  OBVIOUS
<1>8. \A k \in DOMAIN fds : k # i => fds[k].fd # fd
  BY DEF Sound, Matched
<1> HIDE DEF left
<1>9. Typed(left, cl2, nt2)
  BY <1>1, <1>3 DEF Typed
<1>10. Matched(left, cl2)
  <2>1. left # << >> /\ left[1].fd = Listen
    BY <1>2, <1>3, <1>4 DEF Sound, Matched
  <2>2. \A j, k \in DOMAIN left : left[j].fd = left[k].fd => j = k
    <3> SUFFICES ASSUME NEW j \in DOMAIN left, NEW k \in DOMAIN left, left[j].fd = left[k].fd
                 PROVE  j = k
      OBVIOUS
    <3> DEFINE from(x) == IF x = i THEN n ELSE x
    <3>1. from(j) \in DOMAIN fds /\ from(k) \in DOMAIN fds
      BY <1>2, <1>3, <1>4
    <3>2. left[j] = fds[from(j)] /\ left[k] = fds[from(k)]
      BY <1>3
    <3>3. from(j) = from(k)
      BY <3>1, <3>2 DEF Sound, Matched
    <3> QED
      BY <3>3, <1>2, <1>3
  <2>3. \A j \in DOMAIN left : left[j].fd \in DOMAIN cl2 \cup {Listen}
    BY <1>5, <1>7, <1>8 DEF Sound, Matched
  <2>4. \A f \in DOMAIN cl2 : \E j \in DOMAIN left : left[j].fd = f
    <3> SUFFICES ASSUME NEW f \in DOMAIN cl, f # fd
                 PROVE  \E j \in DOMAIN left : left[j].fd = f
      BY <1>7
    <3>1. PICK k \in DOMAIN fds : fds[k].fd = f
      BY DEF Sound, Matched
    <3> QED
      BY <3>1, <1>6
  <2> QED
    BY <2>1, <2>2, <2>3, <2>4 DEF Matched
<1>11. Interest(left, cl2)
  BY <1>5, <1>7 DEF Sound, Interest
<1>12. FlagsTrue(left, cl2, nt2)
  BY <1>5, <1>7 DEF Sound, FlagsTrue
<1> QED
  BY <1>9, <1>10, <1>11, <1>12 DEF Sound, left

(* Changes to events and revents, or to buffers, leave the entries matched. *)
LEMMA SameFds ==
    ASSUME NEW fds, NEW cl, Matched(fds, cl), fds # << >>,
           NEW fds2, NEW cl2, fds2 # << >>, DOMAIN cl2 = DOMAIN cl, DOMAIN fds2 = DOMAIN fds,
           \A i \in DOMAIN fds : fds2[i].fd = fds[i].fd, 1 \in DOMAIN fds
    PROVE  Matched(fds2, cl2)
BY DEF Matched

\* Serving an event clears its flag in the entry at hand, and nothing else.
LEMMA ServedIs ==
    ASSUME NEW fds \in Seq(Entry), NEW flag
    PROVE  /\ Served(fds, flag) \in Seq(Entry)
           /\ DOMAIN Served(fds, flag) = DOMAIN fds
           /\ fds # << >> => Served(fds, flag) # << >>
           /\ \A i \in DOMAIN fds :
                 /\ Served(fds, flag)[i].fd = fds[i].fd
                 /\ Served(fds, flag)[i].events = fds[i].events
                 /\ Served(fds, flag)[i].revents \subseteq fds[i].revents
                 /\ i = pos => flag \notin Served(fds, flag)[i].revents
<1>1. Len(fds) \in Nat /\ DOMAIN fds = 1..Len(fds)
  BY LenProperties
<1>2. CASE pos \in DOMAIN fds
  <2>1. fds[pos] \in Entry
    BY <1>1, <1>2, ElementOfSeq
  <2> DEFINE e == [fds[pos] EXCEPT !.revents = @ \ {flag}]
  <2>2. e \in Entry /\ e.fd = fds[pos].fd /\ e.events = fds[pos].events
        /\ e.revents = fds[pos].revents \ {flag}
    BY <2>1 DEF Entry
  <2>3. Served(fds, flag) = [fds EXCEPT ![pos] = e]
    BY DEF Served
  <2> HIDE DEF e
  <2>4. /\ Served(fds, flag) \in Seq(Entry) /\ Len(Served(fds, flag)) = Len(fds)
        /\ \A j \in 1..Len(fds) : Served(fds, flag)[j] = IF j = pos THEN e ELSE fds[j]
    BY <1>1, <1>2, <2>2, <2>3, ExceptSeq
  <2>5. DOMAIN Served(fds, flag) = DOMAIN fds
    BY <1>1, <2>4, LenProperties
  <2>6. fds # << >> => Served(fds, flag) # << >>
    BY <1>2, <2>5
  <2> QED
    BY <1>1, <2>2, <2>4, <2>5, <2>6
<1>3. CASE pos \notin DOMAIN fds
  <2>1. Served(fds, flag) = fds
    BY <1>1, <1>3 DEF Served
  <2> QED
    BY <1>3, <2>1
<1> QED
  BY <1>2, <1>3

\* Serving an event leaves the books in order.
LEMMA ServedSound ==
    ASSUME NEW fds, NEW cl, NEW nt, Sound(fds, cl, nt), NEW flag
    PROVE  Sound(Served(fds, flag), cl, nt)
<1> DEFINE fds2 == Served(fds, flag)
<1>1. fds \in Seq(Entry) /\ fds # << >>
  BY DEF Sound, Typed, Matched
<1>2. /\ fds2 \in Seq(Entry) /\ DOMAIN fds2 = DOMAIN fds /\ fds2 # << >>
      /\ \A i \in DOMAIN fds : /\ fds2[i].fd = fds[i].fd
                               /\ fds2[i].events = fds[i].events
                               /\ fds2[i].revents \subseteq fds[i].revents
  BY <1>1, ServedIs
<1>3. 1 \in DOMAIN fds
  BY <1>1, LenProperties, EmptySeq
<1> HIDE DEF fds2
<1>4. Typed(fds2, cl, nt)
  BY <1>2 DEF Sound, Typed
<1>5. Matched(fds2, cl)
  BY <1>1, <1>2, <1>3, SameFds DEF Sound
<1>6. Interest(fds2, cl)
  BY <1>2 DEF Sound, Interest
<1>7. FlagsTrue(fds2, cl, nt)
  BY <1>2 DEF Sound, FlagsTrue
<1> QED
  BY <1>4, <1>5, <1>6, <1>7 DEF Sound, fds2

\* enableWrite sets POLLOUT in the entries of the given descriptors.
LEMMA EnableWriteIs ==
    ASSUME NEW fds \in Seq(Entry), NEW to
    PROVE  /\ EnableWrite(fds, to) \in Seq(Entry)
           /\ DOMAIN EnableWrite(fds, to) = DOMAIN fds
           /\ Len(EnableWrite(fds, to)) = Len(fds)
           /\ \A i \in DOMAIN fds :
                 /\ EnableWrite(fds, to)[i].fd = fds[i].fd
                 /\ EnableWrite(fds, to)[i].revents = fds[i].revents
                 /\ "out" \in EnableWrite(fds, to)[i].events
                       <=> fds[i].fd \in to \/ "out" \in fds[i].events
<1> DEFINE fds2 == EnableWrite(fds, to)
<1>1. Len(fds) \in Nat /\ DOMAIN fds = 1..Len(fds)
  BY LenProperties
<1>2. \A i \in DOMAIN fds : fds[i] \in Entry
  BY <1>1, ElementOfSeq
<1>3. \A i \in DOMAIN fds :
         /\ fds2[i] \in Entry
         /\ fds2[i].fd = fds[i].fd /\ fds2[i].revents = fds[i].revents
         /\ "out" \in fds2[i].events <=> fds[i].fd \in to \/ "out" \in fds[i].events
  <2> TAKE i \in DOMAIN fds
  <2>1. fds[i] \in Entry
    BY <1>2
  <2>2. CASE fds[i].fd \in to
    <3> DEFINE e == [fds[i] EXCEPT !.events = fds[i].events \cup {"out"}]
    <3>1. /\ e \in Entry /\ e.fd = fds[i].fd /\ e.revents = fds[i].revents
          /\ e.events = fds[i].events \cup {"out"}
      BY <2>1 DEF Entry
    <3>2. fds2[i] = e
      BY <2>2 DEF EnableWrite
    <3> HIDE DEF e
    <3> QED
      BY <2>2, <3>1, <3>2
  <2>3. CASE fds[i].fd \notin to
    BY <2>1, <2>3 DEF EnableWrite
  <2> QED
    BY <2>2, <2>3
<1>4. fds2 \in [1..Len(fds) -> Entry]
  BY <1>1, <1>3 DEF EnableWrite
<1>5. fds2 \in Seq(Entry) /\ Len(fds2) = Len(fds) /\ DOMAIN fds2 = DOMAIN fds
  BY <1>1, <1>4, SeqDef, LenProperties
<1> QED
  BY <1>3, <1>5

(* sendReply and broadcastToChannel: whoever gets output is asked POLLOUT. *)
LEMMA TellSound ==
    ASSUME NEW fds, NEW cl, NEW nt, Sound(fds, cl, nt), DOMAIN cl = Live,
           NEW to \in SUBSET Live, NEW line \in Piece
    PROVE  Sound(EnableWrite(fds, to), Tell(cl, to, line), nt)
<1> DEFINE fds2 == EnableWrite(fds, to)
           cl2  == Tell(cl, to, line)
<1>1. /\ fds \in Seq(Entry) /\ fds # << >>
      /\ cl \in [Live -> Client] /\ Live \subseteq Fd /\ nt \in [Live -> Connection]
  BY DEF Sound, Typed, Matched
<1>2. 1 \in DOMAIN fds /\ Len(fds) # 0
  BY <1>1, LenProperties, EmptySeq
<1>3. /\ fds2 \in Seq(Entry) /\ DOMAIN fds2 = DOMAIN fds /\ Len(fds2) = Len(fds)
      /\ \A i \in DOMAIN fds :
            /\ fds2[i].fd = fds[i].fd
            /\ fds2[i].revents = fds[i].revents
            /\ "out" \in fds2[i].events <=> fds[i].fd \in to \/ "out" \in fds[i].events
  BY <1>1, EnableWriteIs
<1>4. fds2 # << >>
  BY <1>2, <1>3
<1>5. \A f \in Live : /\ cl2[f] \in Client
                      /\ f \in to => cl2[f].out # << >>
                      /\ f \notin to => cl2[f] = cl[f]
  <2> TAKE f \in Live
  <2>1. cl[f].out \in Seq(Piece) /\ cl[f] \in Client
    BY <1>1 DEF Client
  <2>2. Append(cl[f].out, line) \in Seq(Piece) /\ Append(cl[f].out, line) # << >>
    BY <2>1, AppendProperties
  <2>3. CASE f \in to
    <3>1. cl2[f] = [cl[f] EXCEPT !.out = Append(cl[f].out, line)]
      BY <2>3 DEF Tell
    <3> QED
      BY <2>1, <2>2, <2>3, <3>1 DEF Client
  <2>4. CASE f \notin to
    BY <2>1, <2>4 DEF Tell
  <2> QED
    BY <2>3, <2>4
<1>6. DOMAIN cl2 = Live
  BY DEF Tell
<1>7. cl2 \in [Live -> Client]
  BY <1>5 DEF Tell
<1> HIDE DEF fds2, cl2
<1>8. Typed(fds2, cl2, nt)
  BY <1>1, <1>3, <1>6, <1>7 DEF Typed
<1>9. Matched(fds2, cl2)
  <2>1. Matched(fds, cl) /\ DOMAIN cl2 = DOMAIN cl
    BY <1>6 DEF Sound
  <2> QED
    BY <2>1, <1>1, <1>2, <1>3, <1>4, SameFds
<1>10. Interest(fds2, cl2)
  BY <1>3, <1>5, <1>6 DEF Sound, Interest
<1>11. FlagsTrue(fds2, cl2, nt)
  BY <1>3, <1>6 DEF Sound, FlagsTrue
<1> QED
  BY <1>8, <1>9, <1>10, <1>11 DEF Sound, fds2, cl2

(* Input buffers are nobody else's affair. *)
LEMMA InputSound ==
    ASSUME NEW fds, NEW cl, NEW nt, Sound(fds, cl, nt),
           NEW fd \in DOMAIN cl, NEW buf \in Seq(Piece)
    PROVE  /\ Sound(fds, [cl EXCEPT ![fd].in = buf], nt)
           /\ DOMAIN [cl EXCEPT ![fd].in = buf] = DOMAIN cl
<1> DEFINE cl2 == [cl EXCEPT ![fd].in = buf]
<1>1. cl \in [DOMAIN cl -> Client]
  BY DEF Sound, Typed
<1>2. \A f \in DOMAIN cl : cl2[f] \in Client /\ cl2[f].out = cl[f].out
  <2> TAKE f \in DOMAIN cl
  <2>1. cl[f] \in Client
    BY <1>1
  <2>2. [cl[f] EXCEPT !.in = buf] \in Client /\ [cl[f] EXCEPT !.in = buf].out = cl[f].out
    BY <2>1 DEF Client
  <2>3. cl2[f] = IF f = fd THEN [cl[f] EXCEPT !.in = buf] ELSE cl[f]
    BY <1>1
  <2> QED
    BY <2>1, <2>2, <2>3
<1>3. DOMAIN cl2 = DOMAIN cl /\ cl2 \in [DOMAIN cl -> Client]
  BY <1>1, <1>2
<1> HIDE DEF cl2
<1>4. Typed(fds, cl2, nt) /\ Matched(fds, cl2) /\ Interest(fds, cl2) /\ FlagsTrue(fds, cl2, nt)
  BY <1>2, <1>3 DEF Sound, Typed, Matched, Interest, FlagsTrue
<1> QED
  BY <1>3, <1>4 DEF Sound, cl2

(* What the kernel and the peers do may change all but what was reported. *)
LEMMA NetSound ==
    ASSUME NEW fds, NEW cl, NEW nt, Sound(fds, cl, nt),
           NEW nt2 \in [DOMAIN cl -> Connection], FlagsTrue(fds, cl, nt2)
    PROVE  Sound(fds, cl, nt2)
BY DEF Sound, Typed

(* Peers send, read, close and break: reports stay true. *)
LEMMA PeersKeep ==
    ASSUME NEW fds, NEW cl, NEW nt, Sound(fds, cl, nt),
           NEW fd \in DOMAIN cl, NEW c \in Connection,
           c.rcv # << >> \/ nt[fd].rcv = << >>,
           Len(c.snd) <= Len(nt[fd].snd),
           nt[fd].peer # "open" => c.peer # "open",
           nt[fd].peer = "gone" => c.peer = "gone"
    PROVE  Sound(fds, cl, [nt EXCEPT ![fd] = c])
<1>1. nt \in [DOMAIN cl -> Connection] /\ nt[fd] \in Connection
  BY DEF Sound, Typed
<1>2. Len(c.snd) \in Nat /\ Len(nt[fd].snd) \in Nat
  BY <1>1, LenProperties DEF Connection
<1>3. \A flag : flag \in {"in", "out", "err", "hup"} /\ Reports(flag, nt[fd]) => Reports(flag, c)
  BY <1>2, SizeAssumption DEF Reports
<1>4. \A i \in DOMAIN fds : fds[i].revents \subseteq {"in", "out", "err", "hup"}
  <2>1. fds \in Seq(Entry)
    BY DEF Sound, Typed
  <2>2. \A i \in DOMAIN fds : fds[i] \in Entry
    BY <2>1, LenProperties, ElementOfSeq
  <2> QED
    BY <2>2 DEF Entry
<1> DEFINE nt2 == [nt EXCEPT ![fd] = c]
<1>5. /\ nt2 \in [DOMAIN cl -> Connection]
      /\ \A f \in DOMAIN cl : nt2[f] = IF f = fd THEN c ELSE nt[f]
  BY <1>1
<1> HIDE DEF nt2
<1>6. FlagsTrue(fds, cl, nt2)
  <2> SUFFICES ASSUME NEW i \in DOMAIN fds, fds[i].fd \in DOMAIN cl,
                      NEW flag \in fds[i].revents
               PROVE  Reports(flag, nt2[fds[i].fd])
    BY DEF FlagsTrue
  <2>1. Reports(flag, nt[fds[i].fd]) /\ flag \in {"in", "out", "err", "hup"}
    BY <1>4 DEF Sound, FlagsTrue
  <2>2. CASE fds[i].fd = fd
    <3>1. nt2[fds[i].fd] = c
      BY <1>5, <2>2
    <3> QED
      BY <1>3, <2>1, <2>2, <3>1
  <2>3. CASE fds[i].fd # fd
    <3>1. nt2[fds[i].fd] = nt[fds[i].fd]
      BY <1>5, <2>3
    <3> QED
      BY <2>1, <3>1
  <2> QED
    BY <2>2, <2>3
<1> QED
  BY <1>5, <1>6, NetSound DEF nt2

(* accept() returns a descriptor that is free. *)
LEMMA FreeDescriptor ==
    ASSUME NEW live \in SUBSET Fd, ~(Fd \subseteq live)
    PROVE  Min(Fd \ live) \in Fd \ live
BY FdAssumption, MinIsLeast

\* A new entry for a new client leaves the books in order (acceptNewClient).
LEMMA AppendSound ==
    ASSUME NEW fds, NEW cl, NEW nt, Sound(fds, cl, nt), NEW fd \in Fd \ DOMAIN cl,
           NEW client \in Client, client.out = << >>, NEW conn \in Connection
    PROVE  Sound(Append(fds, [fd |-> fd, events |-> {"in"}, revents |-> {}]),
                 [f \in DOMAIN cl \cup {fd} |-> IF f = fd THEN client ELSE cl[f]],
                 [f \in DOMAIN cl \cup {fd} |-> IF f = fd THEN conn ELSE nt[f]])
<1> DEFINE e    == [fd |-> fd, events |-> {"in"}, revents |-> {}]
           fds2 == Append(fds, e)
           cl2  == [f \in DOMAIN cl \cup {fd} |-> IF f = fd THEN client ELSE cl[f]]
           nt2  == [f \in DOMAIN cl \cup {fd} |-> IF f = fd THEN conn ELSE nt[f]]
<1>1. /\ fds \in Seq(Entry) /\ DOMAIN cl \subseteq Fd
      /\ cl \in [DOMAIN cl -> Client] /\ nt \in [DOMAIN cl -> Connection]
  BY DEF Sound, Typed
<1>2. Len(fds) \in Nat /\ DOMAIN fds = 1..Len(fds)
  BY <1>1, LenProperties
<1>3. e \in Entry /\ e.fd = fd /\ e.events = {"in"} /\ e.revents = {}
  BY DEF Entry
<1> HIDE DEF e
<1>4. /\ fds2 \in Seq(Entry) /\ Len(fds2) = Len(fds) + 1
      /\ \A i \in 1..Len(fds) : fds2[i] = fds[i]
      /\ fds2[Len(fds) + 1] = e
  BY <1>1, <1>2, <1>3, AppendProperties
<1>5. DOMAIN fds2 = 1..(Len(fds) + 1) /\ fds2 # << >>
  BY <1>2, <1>4, LenProperties
<1>6. fd # Listen /\ \A i \in DOMAIN fds : fds[i].fd # fd
  BY FdAssumption DEF Sound, Matched
<1>7. /\ DOMAIN cl2 = DOMAIN cl \cup {fd} /\ cl2 \in [DOMAIN cl2 -> Client]
      /\ nt2 \in [DOMAIN cl2 -> Connection]
      /\ cl2[fd] = client
      /\ \A f \in DOMAIN cl : cl2[f] = cl[f] /\ nt2[f] = nt[f]
  BY <1>1
<1> HIDE DEF fds2, cl2, nt2
<1>8. 1 \in 1..Len(fds)
  BY <1>1, <1>2, EmptySeq DEF Sound, Matched
<1>9. \A i \in DOMAIN fds2 : IF i \in DOMAIN fds THEN fds2[i] = fds[i] ELSE fds2[i] = e /\ i = Len(fds) + 1
  BY <1>2, <1>4, <1>5
<1>10. \A i \in DOMAIN fds : i \in DOMAIN fds2 /\ fds2[i] = fds[i]
  BY <1>2, <1>4, <1>5
<1>11. Typed(fds2, cl2, nt2)
  BY <1>1, <1>4, <1>7 DEF Typed
<1>12. Matched(fds2, cl2)
  <2>1. fds2 # << >> /\ fds2[1].fd = Listen
    BY <1>2, <1>5, <1>8, <1>10 DEF Sound, Matched
  <2>2. \A i, j \in DOMAIN fds2 : fds2[i].fd = fds2[j].fd => i = j
    BY <1>3, <1>6, <1>9 DEF Sound, Matched
  <2>3. \A i \in DOMAIN fds2 : fds2[i].fd \in DOMAIN cl2 \cup {Listen}
    BY <1>3, <1>7, <1>9 DEF Sound, Matched
  <2>4. \A f \in DOMAIN cl2 : \E i \in DOMAIN fds2 : fds2[i].fd = f
    <3> TAKE f \in DOMAIN cl2
    <3>1. CASE f \in DOMAIN cl
      BY <3>1, <1>10 DEF Sound, Matched
    <3>2. CASE f = fd
      <4>1. Len(fds) + 1 \in DOMAIN fds2
        BY <1>2, <1>5
      <4> QED
        BY <3>2, <4>1, <1>3, <1>4
    <3> QED
      BY <3>1, <3>2, <1>7
  <2> QED
    BY <2>1, <2>2, <2>3, <2>4 DEF Matched
<1>13. Interest(fds2, cl2)
  BY <1>3, <1>6, <1>7, <1>9 DEF Sound, Interest, Matched
<1>14. FlagsTrue(fds2, cl2, nt2)
  BY <1>3, <1>6, <1>7, <1>9 DEF Sound, FlagsTrue, Matched
<1> QED
  BY <1>11, <1>12, <1>13, <1>14 DEF Sound, fds2, cl2, nt2, e

(* One send: what is left decides whether POLLOUT goes on being asked. *)
LEMMA FlushSound ==
    ASSUME NEW fds, NEW cl, NEW nt, Sound(fds, cl, nt),
           NEW p \in DOMAIN fds, NEW fd \in DOMAIN cl, fds[p].fd = fd,
           "out" \notin fds[p].revents, cl[fd].out # << >>,
           NEW rest \in Seq(Piece), NEW snd \in Seq(Piece)
    PROVE  Sound([fds EXCEPT ![p].events = IF rest = << >> THEN {"in"} ELSE @],
                 [cl EXCEPT ![fd].out = rest], [nt EXCEPT ![fd].snd = snd])
<1> DEFINE events == IF rest = << >> THEN {"in"} ELSE fds[p].events
           e    == [fds[p] EXCEPT !.events = events]
           fds2 == [fds EXCEPT ![p] = e]
           b    == [cl[fd] EXCEPT !.out = rest]
           cl2  == [cl EXCEPT ![fd] = b]
           c    == [nt[fd] EXCEPT !.snd = snd]
           nt2  == [nt EXCEPT ![fd] = c]
<1>1. /\ fds \in Seq(Entry) /\ DOMAIN cl \subseteq Fd /\ fds # << >>
      /\ cl \in [DOMAIN cl -> Client] /\ nt \in [DOMAIN cl -> Connection]
  BY DEF Sound, Typed, Matched
<1>2. Len(fds) \in Nat /\ DOMAIN fds = 1..Len(fds) /\ fds[p] \in Entry
  BY <1>1, LenProperties, ElementOfSeq
<1>3. 1 \in DOMAIN fds
  BY <1>1, <1>2, EmptySeq
<1>4. e \in Entry /\ e.fd = fds[p].fd /\ e.revents = fds[p].revents /\ e.events = events
  BY <1>2 DEF Entry
<1>5. b \in Client /\ b.out = rest
  BY <1>1 DEF Client
<1>6. c \in Connection /\ c.rcv = nt[fd].rcv /\ c.peer = nt[fd].peer
  BY <1>1 DEF Connection
<1>7. "out" \in events <=> rest # << >>
  BY DEF Sound, Interest
<1> HIDE DEF events, e, b, c
<1>8. /\ fds2 \in Seq(Entry) /\ DOMAIN fds2 = DOMAIN fds
      /\ \A i \in DOMAIN fds : fds2[i] = IF i = p THEN e ELSE fds[i]
  <2>1. p \in 1..Len(fds)
    BY <1>2
  <2>2. fds2 \in Seq(Entry)
    BY <1>1, <1>4, <2>1, ExceptSeq
  <2> QED
    BY <2>2
<1>9. /\ DOMAIN cl2 = DOMAIN cl /\ cl2 \in [DOMAIN cl -> Client]
      /\ nt2 \in [DOMAIN cl -> Connection]
      /\ \A f \in DOMAIN cl : /\ cl2[f] = IF f = fd THEN b ELSE cl[f]
                              /\ nt2[f] = IF f = fd THEN c ELSE nt[f]
  BY <1>1, <1>5, <1>6
<1> HIDE DEF fds2, cl2, nt2
<1>10. \A i \in DOMAIN fds : fds[i].fd = fd => i = p
  BY DEF Sound, Matched
<1>11. Typed(fds2, cl2, nt2)
  BY <1>1, <1>8, <1>9 DEF Typed
<1>12. Matched(fds2, cl2)
  <2>1. fds2 # << >> /\ \A i \in DOMAIN fds : fds2[i].fd = fds[i].fd
    BY <1>3, <1>4, <1>8
  <2> QED
    BY <2>1, <1>1, <1>3, <1>8, <1>9, SameFds DEF Sound
<1>13. Interest(fds2, cl2)
  <2> SUFFICES ASSUME NEW i \in DOMAIN fds, fds2[i].fd \in DOMAIN cl
               PROVE  "out" \in fds2[i].events <=> cl2[fds2[i].fd].out # << >>
    BY <1>8, <1>9 DEF Interest
  <2>1. CASE i = p
    <3>1. fds2[i] = e /\ e.fd = fd /\ cl2[fd] = b
      BY <2>1, <1>4, <1>8, <1>9
    <3> QED
      BY <3>1, <1>4, <1>5, <1>7
  <2>2. CASE i # p
    <3>1. fds2[i] = fds[i] /\ fds[i].fd # fd
      BY <2>2, <1>8, <1>10
    <3>2. cl2[fds[i].fd] = cl[fds[i].fd]
      BY <3>1, <1>9
    <3> QED
      BY <3>1, <3>2 DEF Sound, Interest
  <2> QED
    BY <2>1, <2>2
<1>14. FlagsTrue(fds2, cl2, nt2)
  <2> SUFFICES ASSUME NEW i \in DOMAIN fds, fds2[i].fd \in DOMAIN cl,
                      NEW flag \in fds2[i].revents
               PROVE  Reports(flag, nt2[fds2[i].fd])
    BY <1>8, <1>9 DEF FlagsTrue
  <2>1. CASE i = p
    <3>1. fds2[i] = e /\ e.fd = fd /\ nt2[fd] = c /\ flag \in fds[p].revents
      BY <2>1, <1>4, <1>8, <1>9
    <3>2. Reports(flag, nt[fd]) /\ flag # "out"
      BY <3>1 DEF Sound, FlagsTrue
    <3> QED
      BY <3>1, <3>2, <1>6 DEF Reports
  <2>2. CASE i # p
    <3>1. fds2[i] = fds[i] /\ fds[i].fd # fd
      BY <2>2, <1>8, <1>10
    <3>2. nt2[fds[i].fd] = nt[fds[i].fd]
      BY <3>1, <1>9
    <3> QED
      BY <3>1, <3>2 DEF Sound, FlagsTrue
  <2> QED
    BY <2>1, <2>2
<1>15. Sound(fds2, cl2, nt2)
  BY <1>11, <1>12, <1>13, <1>14 DEF Sound
<1>16. /\ [fds EXCEPT ![p].events = IF rest = << >> THEN {"in"} ELSE @] = fds2
       /\ [cl EXCEPT ![fd].out = rest] = cl2
       /\ [nt EXCEPT ![fd].snd = snd] = nt2
  BY DEF fds2, e, events, cl2, b, nt2, c
<1> QED
  BY <1>15, <1>16

-----------------------------------------------------------------------------
(* The steps of the server *)

\* What holds while run() serves the entry of a descriptor.
LEMMA WhileServing ==
    ASSUME LoopInv, NEW fd \in Fd \cup {Listen}, Serving(fd)
    PROVE  /\ phase = "serve" /\ pos \in DOMAIN pollFds /\ pollFds[pos].fd = fd
           /\ Sound(pollFds, clients, net) /\ DOMAIN clients = Live
           /\ fd # Listen => fd \in Live
           /\ pollFds \in Seq(Entry) /\ pos \in Nat
BY DEF LoopInv, Scalars, Serving, Sound, Typed, Matched, Live

(* A step within a round: no entry behind pos gets a flag. *)
LEMMA WithinRound ==
    ASSUME LoopInv, phase = "serve", UNCHANGED <<phase, pos, shutdown, backlog, sent, arrived>>,
           Sound(pollFds', clients', net'),
           \A j \in DOMAIN pollFds' : \E k \in DOMAIN pollFds :
               /\ j < pos => k < pos
               /\ pollFds'[j].fd = pollFds[k].fd
               /\ pollFds'[j].revents \subseteq pollFds[k].revents
    PROVE  LoopInv'
<1>1. Scalars'
  BY DEF LoopInv, Scalars
<1>2. ServedBefore'
  BY DEF LoopInv, ServedBefore
<1>3. ListenTrue'
  BY DEF LoopInv, ListenTrue
<1> QED
  BY <1>1, <1>2, <1>3 DEF LoopInv, ServedBefore

\* disconnectClient keeps the invariant, in the middle of a round.
LEMMA DisconnectInv ==
    ASSUME LoopInv, NEW fd \in Fd, Serving(fd), Disconnect(fd, clients),
           UNCHANGED <<phase, shutdown, backlog, sent, arrived>>
    PROVE  LoopInv'
<1>1. /\ phase = "serve" /\ pos \in DOMAIN pollFds /\ pollFds[pos].fd = fd
      /\ Sound(pollFds, clients, net) /\ DOMAIN clients = Live
      /\ pollFds \in Seq(Entry) /\ pos \in Nat
  BY WhileServing
<1>2. Sound(pollFds', clients', net')
  BY <1>1, RemoveSound DEF Disconnect, Live
<1>3. /\ DOMAIN pollFds' = 1..(Len(pollFds) - 1)
      /\ \A j \in 1..(Len(pollFds) - 1) :
            pollFds'[j] = IF j = pos THEN pollFds[Len(pollFds)] ELSE pollFds[j]
  BY <1>1, RemoveEntryIs DEF Disconnect
<1>4. Len(pollFds) \in Nat /\ DOMAIN pollFds = 1..Len(pollFds)
  BY <1>1, LenProperties
<1>5. ASSUME NEW j \in DOMAIN pollFds'
      PROVE  \E k \in DOMAIN pollFds : (j < pos => k < pos) /\ pollFds'[j] = pollFds[k]
  <2>1. CASE j = pos
    <3>1. Len(pollFds) \in DOMAIN pollFds /\ ~(j < pos)
      BY <1>1, <1>4, <2>1
    <3> QED
      BY <1>3, <2>1, <3>1
  <2>2. CASE j # pos
    BY <1>3, <1>4, <2>2
  <2> QED
    BY <2>1, <2>2
<1> QED
  BY <1>1, <1>2, <1>5, WithinRound DEF Disconnect

\* The end of run() and the destructor leave nothing behind.
LEMMA StopInv ==
    ASSUME LoopInv, Stop, shutdown' \in BOOLEAN, UNCHANGED <<sent, arrived>>
    PROVE  LoopInv'
<1>1. Scalars'
  BY DEF LoopInv, Scalars, Stop
<1>2. pollFds' = << >> /\ DOMAIN pollFds' = {}
  BY DEF Stop
<1>3. ServedBefore' /\ ListenTrue'
  BY <1>2 DEF ServedBefore, ListenTrue
<1> QED
  BY <1>1, <1>2, <1>3 DEF LoopInv, Stop

\* The loop between two rounds leaves entries, clients and connections alone.
LEMMA BetweenRoundsInv ==
    ASSUME LoopInv, Test \/ EnterPoll \/ EndOfRound \/ \E fd \in Fd \cup {Listen} : NextEntry(fd)
    PROVE  LoopInv'
<1>1. CASE Test
  <2>1. CASE Stop
    BY <1>1, <2>1, StopInv DEF Test, LoopInv, Scalars
  <2>2. CASE phase' = "enter" /\ UNCHANGED <<pos, pollFds, clients, net, backlog>>
    BY <1>1, <2>2 DEF Test, LoopInv, Scalars, ServedBefore, ListenTrue
  <2> QED
    BY <1>1, <2>1, <2>2 DEF Test
<1>2. CASE EnterPoll
  BY <1>2 DEF EnterPoll, LoopInv, Scalars, ServedBefore, ListenTrue
<1>3. CASE EndOfRound
  <2>1. Sound(pollFds, clients, net) /\ pollFds \in Seq(Entry) /\ pos \in Nat \ {0}
    BY <1>3 DEF EndOfRound, LoopInv, Scalars, Sound, Typed
  <2>2. \A i \in DOMAIN pollFds : i < pos
    <3>1. Len(pollFds) \in Nat /\ DOMAIN pollFds = 1..Len(pollFds)
      BY <2>1, LenProperties
    <3> QED
      BY <1>3, <2>1, <3>1 DEF EndOfRound
  <2>3. ServedBefore'
    BY <1>3, <2>2 DEF EndOfRound, LoopInv, ServedBefore
  <2> QED
    BY <1>3, <2>3 DEF EndOfRound, LoopInv, Scalars, ListenTrue
<1>4. ASSUME NEW fd \in Fd \cup {Listen}, NextEntry(fd)
      PROVE  LoopInv'
  <2>1. /\ phase = "serve" /\ phase' = "serve" /\ pos' = pos + 1 /\ pos \in Nat \ {0}
        /\ pollFds' = pollFds /\ pollFds[pos].revents = {}
    BY <1>4 DEF NextEntry, Serving, LoopInv, Scalars
  <2>2. DOMAIN pollFds \subseteq Nat
    BY <2>1, LenProperties DEF LoopInv, Sound, Typed
  <2>3. ServedBefore'
    <3> SUFFICES ASSUME NEW i \in DOMAIN pollFds, i < pos + 1
                 PROVE  pollFds[i].revents = {}
      BY <2>1 DEF ServedBefore
    <3>1. i < pos \/ i = pos
      BY <2>1, <2>2
    <3> QED
      BY <2>1, <3>1 DEF LoopInv, ServedBefore
  <2> QED
    BY <1>4, <2>1, <2>3 DEF NextEntry, LoopInv, Scalars, ListenTrue
<1> QED
  BY <1>1, <1>2, <1>3, <1>4

\* What poll() reports is true when it returns.
LEMMA PollReturnsInv ==
    ASSUME LoopInv, PollReturns
    PROVE  LoopInv'
<1>1. PICK hangUp \in HangUpOnFin :
         pollFds' = [i \in DOMAIN pollFds |->
                        [pollFds[i] EXCEPT !.revents = Ready(pollFds[i], hangUp)]]
  BY DEF PollReturns
<1>2. /\ Sound(pollFds, clients, net) /\ pollFds \in Seq(Entry) /\ pollFds # << >>
      /\ phase' = "serve" /\ pos' = 1
      /\ UNCHANGED <<clients, shutdown, net, backlog, sent, arrived>>
  BY DEF PollReturns, LoopInv, Sound, Typed, Matched
<1>3. Len(pollFds) \in Nat /\ DOMAIN pollFds = 1..Len(pollFds)
  BY <1>2, LenProperties
<1>4. \A i \in DOMAIN pollFds : pollFds[i] \in Entry
  BY <1>2, <1>3, ElementOfSeq
<1>5. \A i \in DOMAIN pollFds : Ready(pollFds[i], hangUp) \subseteq {"in", "out", "err", "hup"}
  BY DEF Ready
<1>6. \A i \in DOMAIN pollFds :
         /\ pollFds'[i] \in Entry
         /\ pollFds'[i].fd = pollFds[i].fd /\ pollFds'[i].events = pollFds[i].events
         /\ pollFds'[i].revents = Ready(pollFds[i], hangUp)
  <2> TAKE i \in DOMAIN pollFds
  <2> DEFINE r == Ready(pollFds[i], hangUp)
  <2>1. r \in SUBSET {"in", "out", "err", "hup"} /\ pollFds[i] \in Entry
    BY <1>4, <1>5
  <2>2. pollFds'[i] = [pollFds[i] EXCEPT !.revents = r]
    BY <1>1
  <2> HIDE DEF r
  <2>3. pollFds'[i] \in Entry /\ pollFds'[i].fd = pollFds[i].fd
        /\ pollFds'[i].events = pollFds[i].events /\ pollFds'[i].revents = r
    BY <2>1, <2>2 DEF Entry
  <2> QED
    BY <2>3 DEF r
<1>7. DOMAIN pollFds' = DOMAIN pollFds
  BY <1>1
<1>8. pollFds' \in Seq(Entry) /\ pollFds' # << >>
  <2>1. pollFds' \in [1..Len(pollFds) -> Entry]
    BY <1>1, <1>3, <1>6
  <2>2. 1 \in DOMAIN pollFds'
    BY <1>2, <1>3, <1>7, EmptySeq
  <2> QED
    BY <1>3, <2>1, <2>2, SeqDef
<1>9. Matched(pollFds', clients)
  <2>1. 1 \in DOMAIN pollFds
    BY <1>2, <1>3, EmptySeq
  <2> QED
    BY <1>2, <1>6, <1>7, <1>8, <2>1, SameFds DEF Sound
<1>10. Typed(pollFds', clients, net)
  BY <1>2, <1>8 DEF Sound, Typed
<1>11. Interest(pollFds', clients)
  BY <1>2, <1>6, <1>7 DEF Sound, Interest
<1>12. FlagsTrue(pollFds', clients, net)
  <2> SUFFICES ASSUME NEW i \in DOMAIN pollFds, pollFds[i].fd \in DOMAIN clients,
                      NEW flag \in Ready(pollFds[i], hangUp)
               PROVE  Reports(flag, net[pollFds[i].fd])
    BY <1>6, <1>7 DEF FlagsTrue
  <2>1. pollFds[i].fd # Listen
    BY <1>2, FdAssumption DEF Sound, Typed
  <2> QED
    BY <2>1 DEF Ready, Reports, Writable, Room
<1>13. Sound(pollFds', clients', net')
  BY <1>2, <1>9, <1>10, <1>11, <1>12 DEF Sound
<1>14. ListenTrue'
  <2> SUFFICES ASSUME NEW i \in DOMAIN pollFds, pollFds[i].fd = Listen,
                      "in" \in Ready(pollFds[i], hangUp)
               PROVE  backlog > 0
    BY <1>2, <1>6, <1>7 DEF ListenTrue
  <2> QED
    BY DEF Ready
<1>15. ServedBefore'
  BY <1>2, <1>3, <1>7 DEF ServedBefore
<1>16. Scalars'
  BY <1>2 DEF LoopInv, Scalars
<1> QED
  BY <1>2, <1>13, <1>14, <1>15, <1>16 DEF LoopInv

\* accept() with the lowest free descriptor, or failing.
LEMMA AcceptInv ==
    ASSUME LoopInv, AcceptNewClient
    PROVE  LoopInv'
<1> DEFINE fds == Served(pollFds, "in")
<1>1. /\ phase = "serve" /\ pos \in DOMAIN pollFds /\ pollFds[pos].fd = Listen
      /\ Sound(pollFds, clients, net) /\ DOMAIN clients = Live
      /\ pollFds \in Seq(Entry) /\ pos \in Nat
      /\ "in" \in pollFds[pos].revents
      /\ UNCHANGED <<phase, pos, shutdown, sent, arrived>>
  BY WhileServing DEF AcceptNewClient, Reported
<1>2. Sound(fds, clients, net)
  BY <1>1, ServedSound
<1>3. /\ fds \in Seq(Entry) /\ DOMAIN fds = DOMAIN pollFds
      /\ \A i \in DOMAIN pollFds : /\ fds[i].fd = pollFds[i].fd
                                   /\ fds[i].revents \subseteq pollFds[i].revents
                                   /\ i = pos => "in" \notin fds[i].revents
  BY <1>1, ServedIs
<1>4. backlog > 0 /\ backlog \in Nat
  BY <1>1 DEF LoopInv, ListenTrue, Scalars
<1> HIDE DEF fds
<1>5. ASSUME pollFds' = fds, backlog' \in {backlog, backlog - 1}, UNCHANGED <<clients, net>>
      PROVE  LoopInv'
  <2>1. ServedBefore'
    BY <1>1, <1>3, <1>5 DEF LoopInv, ServedBefore
  <2>2. ListenTrue'
    <3>1. \A i \in DOMAIN fds : fds[i].fd = Listen => i = pos
      BY <1>1, <1>3 DEF Sound, Matched
    <3> QED
      BY <1>3, <1>5, <3>1 DEF ListenTrue
  <2>3. Scalars'
    BY <1>1, <1>4, <1>5 DEF LoopInv, Scalars
  <2>4. Sound(pollFds', clients', net')
    BY <1>2, <1>5
  <2> QED
    BY <1>1, <2>1, <2>2, <2>3, <2>4 DEF LoopInv
<1>6. ASSUME ~(Fd \subseteq Live),
             pollFds' = Append(fds, [fd |-> Min(Fd \ Live), events |-> {"in"}, revents |-> {}]),
             clients' = [f \in Live \cup {Min(Fd \ Live)} |->
                            IF f = Min(Fd \ Live) THEN [in |-> << >>, out |-> << >>] ELSE clients[f]],
             net'     = [f \in Live \cup {Min(Fd \ Live)} |->
                            IF f = Min(Fd \ Live) THEN [peer |-> "open", rcv |-> << >>, snd |-> << >>]
                            ELSE net[f]],
             backlog' = backlog - 1
      PROVE  LoopInv'
  <2> DEFINE fd   == Min(Fd \ Live)
             e    == [fd |-> fd, events |-> {"in"}, revents |-> {}]
             none == [in |-> << >>, out |-> << >>]
             conn == [peer |-> "open", rcv |-> << >>, snd |-> << >>]
  <2>1. /\ pollFds' = Append(fds, e)
        /\ clients' = [f \in Live \cup {fd} |-> IF f = fd THEN none ELSE clients[f]]
        /\ net'     = [f \in Live \cup {fd} |-> IF f = fd THEN conn ELSE net[f]]
        /\ backlog' = backlog - 1
    BY <1>6
  <2>2. Live \in SUBSET Fd
    BY <1>1 DEF Sound, Typed
  <2>3. fd \in Fd \ Live
    BY <1>6, <2>2, FreeDescriptor
  <2>4. none \in Client /\ none.out = << >> /\ conn \in Connection
    BY EmptySeq DEF Client, Connection
  <2>5. e.fd = fd /\ e.revents = {} /\ e \in Entry
    BY <2>3 DEF Entry
  <2> HIDE DEF fd, none, conn
  <2>6. Sound(pollFds', clients', net')
    <3>1. fd \in Fd \ DOMAIN clients
      BY <2>3 DEF Live
    <3>2. Sound(Append(fds, e),
                [f \in DOMAIN clients \cup {fd} |-> IF f = fd THEN none ELSE clients[f]],
                [f \in DOMAIN clients \cup {fd} |-> IF f = fd THEN conn ELSE net[f]])
      BY <1>2, <2>4, <3>1, AppendSound
    <3> QED
      BY <2>1, <3>2 DEF Live
  <2> HIDE DEF e
  <2>7. /\ Len(pollFds') = Len(fds) + 1 /\ pollFds' \in Seq(Entry)
        /\ pollFds'[Len(fds) + 1] = e
        /\ \A i \in 1..Len(fds) : pollFds'[i] = fds[i]
    BY <1>3, <2>1, <2>5, AppendProperties
  <2>8. Len(fds) \in Nat /\ DOMAIN fds = 1..Len(fds) /\ DOMAIN pollFds' = 1..(Len(fds) + 1)
    BY <1>3, <2>7, LenProperties
  <2>9. \A i \in DOMAIN pollFds' : pollFds'[i] = e \/ (i \in DOMAIN fds /\ pollFds'[i] = fds[i])
    BY <2>7, <2>8
  <2>10. ServedBefore'
    BY <1>1, <1>3, <2>5, <2>9 DEF LoopInv, ServedBefore
  <2>11. ListenTrue'
    <3>1. \A i \in DOMAIN fds : fds[i].fd = Listen => i = pos
      BY <1>1, <1>3 DEF Sound, Matched
    <3> QED
      BY <1>3, <2>5, <2>9, <3>1 DEF ListenTrue
  <2>12. Scalars'
    BY <1>1, <1>4, <2>1 DEF LoopInv, Scalars
  <2> QED
    BY <1>1, <2>6, <2>10, <2>11, <2>12 DEF LoopInv
<1> QED
  BY <1>5, <1>6 DEF AcceptNewClient, fds

\* Beginning and rest of what is read or sent.
LEMMA Split ==
    ASSUME NEW s \in Seq(Piece), NEW n \in Nat, n <= Len(s)
    PROVE  SubSeq(s, 1, n) \in Seq(Piece) /\ SubSeq(s, n + 1, Len(s)) \in Seq(Piece)
<1>1. Len(s) \in Nat /\ \A i \in 1..Len(s) : s[i] \in Piece
  BY LenProperties, ElementOfSeq
<1>2. SubSeq(s, 1, n) \in Seq(Piece)
  BY <1>1, SubSeqProperties
<1>3. SubSeq(s, n + 1, Len(s)) \in Seq(Piece)
  BY <1>1, SubSeqProperties
<1> QED
  BY <1>2, <1>3

\* recv() of a chunk, of the end of the stream, or failing.
LEMMA ReadInv ==
    ASSUME LoopInv, NEW fd \in Fd, HandleClientRead(fd)
    PROVE  LoopInv'
<1> DEFINE rcv == net[fd].rcv
           n   == Least(Chunk, Len(rcv))
<1>1. /\ phase = "serve" /\ pos \in DOMAIN pollFds /\ pollFds[pos].fd = fd /\ fd \in Live
      /\ Sound(pollFds, clients, net) /\ DOMAIN clients = Live
      /\ pollFds \in Seq(Entry) /\ pos \in Nat
      /\ UNCHANGED <<phase, shutdown, backlog, sent, arrived>>
  BY WhileServing DEF HandleClientRead
<1>2. CASE n = 0
  <2>1. Disconnect(fd, clients)
    BY <1>2 DEF HandleClientRead
  <2> QED
    BY <1>1, <2>1, DisconnectInv DEF HandleClientRead
<1>3. CASE n # 0
  <2>1. /\ clients' = [clients EXCEPT ![fd].in = clients[fd].in \o SubSeq(rcv, 1, n)]
        /\ net'     = [net EXCEPT ![fd].rcv = SubSeq(rcv, n + 1, Len(rcv))]
        /\ pollFds' = Served(pollFds, "in")
        /\ UNCHANGED pos
    BY <1>3 DEF HandleClientRead
  <2>2. /\ clients[fd] \in Client /\ net[fd] \in Connection
        /\ net \in [DOMAIN clients -> Connection]
    BY <1>1 DEF Sound, Typed
  <2>3. rcv \in Seq(Piece) /\ clients[fd].in \in Seq(Piece)
    BY <2>2 DEF Client, Connection
  <2>4. n \in Nat /\ n <= Len(rcv)
    BY <2>3, LenProperties, SizeAssumption DEF Least
  <2> HIDE DEF n
  <2>5. SubSeq(rcv, 1, n) \in Seq(Piece) /\ SubSeq(rcv, n + 1, Len(rcv)) \in Seq(Piece)
    BY <2>3, <2>4, Split
  <2> DEFINE rest == SubSeq(rcv, n + 1, Len(rcv))
             buf  == clients[fd].in \o SubSeq(rcv, 1, n)
             c    == [net[fd] EXCEPT !.rcv = rest]
  <2>6. buf \in Seq(Piece) /\ rest \in Seq(Piece)
    BY <2>3, <2>5, ConcatProperties
  <2> HIDE DEF buf, rest
  <2>7. Sound(Served(pollFds, "in"), [clients EXCEPT ![fd].in = buf], net)
        /\ DOMAIN [clients EXCEPT ![fd].in = buf] = DOMAIN clients
    BY <1>1, <2>6, ServedSound, InputSound
  <2>8. clients' = [clients EXCEPT ![fd].in = buf]
    BY <2>1 DEF buf
  <2>9. c \in Connection /\ c.snd = net[fd].snd /\ c.peer = net[fd].peer
    BY <2>2, <2>6 DEF Connection
  <2>10. net' = [net EXCEPT ![fd] = c]
    BY <2>1 DEF rest
  <2> HIDE DEF c
  <2>11. net' \in [DOMAIN clients' -> Connection]
         /\ \A f \in DOMAIN clients : net'[f] = IF f = fd THEN c ELSE net[f]
    BY <2>2, <2>7, <2>8, <2>9, <2>10
  <2>12. /\ DOMAIN pollFds' = DOMAIN pollFds
         /\ \A i \in DOMAIN pollFds : /\ pollFds'[i].fd = pollFds[i].fd
                                      /\ pollFds'[i].revents \subseteq pollFds[i].revents
                                      /\ i = pos => "in" \notin pollFds'[i].revents
    BY <1>1, <2>1, ServedIs
  <2>13. FlagsTrue(pollFds', clients', net')
    <3> SUFFICES ASSUME NEW i \in DOMAIN pollFds, pollFds[i].fd \in DOMAIN clients,
                        NEW flag \in pollFds'[i].revents
                 PROVE  Reports(flag, net'[pollFds[i].fd])
      BY <2>7, <2>8, <2>12 DEF FlagsTrue
    <3>1. Reports(flag, net[pollFds[i].fd])
      BY <1>1, <2>12 DEF Sound, FlagsTrue
    <3>2. CASE i = pos
      <4>1. net'[pollFds[i].fd] = c /\ flag # "in"
        BY <1>1, <2>11, <2>12, <3>2
      <4> QED
        BY <1>1, <2>9, <3>1, <3>2, <4>1 DEF Reports
    <3>3. CASE i # pos
      <4>1. pollFds[i].fd # fd
        BY <1>1, <3>3 DEF Sound, Matched
      <4> QED
        BY <2>11, <3>1, <4>1
    <3> QED
      BY <3>2, <3>3
  <2>14. Sound(pollFds', clients', net')
    <3>1. Sound(pollFds', clients', net)
      BY <2>1, <2>7, <2>8
    <3> QED
      BY <3>1, <2>11, <2>13, NetSound
  <2>15. \A j \in DOMAIN pollFds' : \E k \in DOMAIN pollFds :
            /\ j < pos => k < pos
            /\ pollFds'[j].fd = pollFds[k].fd
            /\ pollFds'[j].revents \subseteq pollFds[k].revents
    BY <2>12
  <2> QED
    BY <1>1, <2>1, <2>14, <2>15, WithinRound
<1> QED
  BY <1>2, <1>3

\* One line is taken out of the buffer and executed: it answers its sender,
\* tells the others, or quits.
LEMMA ExtractInv ==
    ASSUME LoopInv, NEW fd \in Fd, ExtractCommand(fd)
    PROVE  LoopInv'
<1> DEFINE buf    == clients[fd].in
           lines  == {j \in DOMAIN buf : buf[j].kind # "part"}
           k      == Min(lines)
           to     == IF buf[k].kind = "echo" THEN {fd} ELSE Live \ {fd}
           rest   == SubSeq(buf, k + 1, Len(buf))
           cl     == [clients EXCEPT ![fd].in = rest]
           told   == Tell(cl, to, buf[k])
           wanted == EnableWrite(pollFds, to)
<1>1. /\ phase = "serve" /\ pos \in DOMAIN pollFds /\ pollFds[pos].fd = fd /\ fd \in Live
      /\ Sound(pollFds, clients, net) /\ DOMAIN clients = Live
      /\ pollFds \in Seq(Entry) /\ pos \in Nat
      /\ UNCHANGED <<phase, pos, shutdown, backlog, sent, arrived>>
  BY WhileServing DEF ExtractCommand
<1>2. clients[fd] \in Client /\ buf \in Seq(Piece)
  BY <1>1 DEF Sound, Typed, Client
<1>3. Len(buf) \in Nat /\ DOMAIN buf = 1..Len(buf)
  BY <1>2, LenProperties
<1>4. k \in 1..Len(buf)
  <2>1. Extracting(fd)
    BY DEF ExtractCommand
  <2>2. lines \in SUBSET Nat /\ lines # {}
    BY <1>3, <2>1 DEF Extracting, HasLine
  <2>3. Min(lines) \in lines
    BY <2>2, MinIsLeast
  <2> QED
    BY <1>3, <2>3
<1>5. buf[k] \in Piece /\ rest \in Seq(Piece)
  <2> HIDE DEF k
  <2>1. k \in Nat /\ k <= Len(buf)
    BY <1>3, <1>4
  <2> QED
    BY <1>2, <1>4, <2>1, Split, ElementOfSeq
<1>6. to \in SUBSET Live
  BY <1>1
<1>7. /\ ~(buf[k].kind = "quit") =>
            pollFds' = wanted /\ clients' = told /\ net' = net
      /\ buf[k].kind = "quit" =>
            /\ pollFds' = RemoveEntry(wanted, pos)
            /\ clients' = [f \in Live \ {fd} |-> told[f]]
            /\ net'     = [f \in Live \ {fd} |-> net[f]]
  BY DEF ExtractCommand
<1> HIDE DEF to, rest, k
<1>8. Sound(pollFds, cl, net) /\ DOMAIN cl = Live
  BY <1>1, <1>5, InputSound DEF Live
<1> HIDE DEF cl
<1>9. Sound(wanted, told, net) /\ DOMAIN told = Live
  BY <1>5, <1>6, <1>8, TellSound DEF Tell
<1>10. /\ wanted \in Seq(Entry) /\ DOMAIN wanted = DOMAIN pollFds /\ Len(wanted) = Len(pollFds)
       /\ \A i \in DOMAIN pollFds : /\ wanted[i].fd = pollFds[i].fd
                                    /\ wanted[i].revents = pollFds[i].revents
  BY <1>1, EnableWriteIs
<1> HIDE DEF wanted, told
<1>11. CASE buf[k].kind # "quit"
  <2>1. Sound(pollFds', clients', net')
    BY <1>7, <1>9, <1>11
  <2>2. \A j \in DOMAIN pollFds' : \E i \in DOMAIN pollFds :
            /\ j < pos => i < pos
            /\ pollFds'[j].fd = pollFds[i].fd
            /\ pollFds'[j].revents \subseteq pollFds[i].revents
    BY <1>7, <1>10, <1>11
  <2> QED
    BY <1>1, <2>1, <2>2, WithinRound
<1>12. CASE buf[k].kind = "quit"
  <2>1. Sound(pollFds', clients', net')
    <3>1. pos \in DOMAIN wanted /\ wanted[pos].fd = fd
      BY <1>1, <1>10
    <3>2. Sound(RemoveEntry(wanted, pos), [f \in DOMAIN told \ {fd} |-> told[f]],
                [f \in DOMAIN told \ {fd} |-> net[f]])
      BY <1>9, <3>1, RemoveSound
    <3> QED
      BY <1>7, <1>9, <1>12, <3>2
  <2>2. /\ DOMAIN pollFds' = 1..(Len(pollFds) - 1)
        /\ \A j \in 1..(Len(pollFds) - 1) :
              pollFds'[j] = IF j = pos THEN wanted[Len(pollFds)] ELSE wanted[j]
    <3>1. wanted \in Seq(Entry) /\ pos \in DOMAIN wanted /\ Len(wanted) = Len(pollFds)
      BY <1>1, <1>10
    <3>2. /\ DOMAIN RemoveEntry(wanted, pos) = 1..(Len(wanted) - 1)
          /\ \A j \in 1..(Len(wanted) - 1) :
                RemoveEntry(wanted, pos)[j] = IF j = pos THEN wanted[Len(wanted)] ELSE wanted[j]
      BY <3>1, RemoveEntryIs
    <3> QED
      BY <1>7, <1>12, <3>1, <3>2
  <2>3. Len(pollFds) \in Nat /\ DOMAIN pollFds = 1..Len(pollFds)
    BY <1>1, LenProperties
  <2>4. ASSUME NEW j \in DOMAIN pollFds'
        PROVE  \E i \in DOMAIN pollFds : (j < pos => i < pos) /\ pollFds'[j] = wanted[i]
    <3>1. CASE j = pos
      <4>1. Len(pollFds) \in DOMAIN pollFds /\ ~(j < pos)
        BY <1>1, <2>3, <3>1
      <4> QED
        BY <2>2, <3>1, <4>1
    <3>2. CASE j # pos
      BY <2>2, <2>3, <3>2
    <3> QED
      BY <3>1, <3>2
  <2> QED
    BY <1>1, <1>10, <2>1, <2>4, WithinRound
<1> QED
  BY <1>11, <1>12

\* When a send is tried there is something to send and room for it, or the
\* peer is gone: EAGAIN cannot disconnect a client that is only slow.
LEMMA RoomWhenReported ==
    ASSUME LoopInv, NEW fd \in Fd, Serving(fd), Reported("out"), clients[fd].out # << >>,
           net[fd].peer # "gone"
    PROVE  LET n == Least(Chunk, Least(Len(clients[fd].out), Room(fd)))
           IN  n \in Nat \ {0} /\ n <= Len(clients[fd].out)
<1>1. Sound(pollFds, clients, net) /\ pos \in DOMAIN pollFds /\ pollFds[pos].fd = fd
      /\ fd \in Live /\ DOMAIN clients = Live
  BY WhileServing, FdAssumption
<1>2. clients[fd].out \in Seq(Piece) /\ net[fd].snd \in Seq(Piece)
  BY <1>1 DEF Sound, Typed, Client, Connection
<1>3. Len(clients[fd].out) \in Nat \ {0} /\ Len(net[fd].snd) \in Nat
  BY <1>2, EmptySeq, LenProperties
<1>4. Window - Len(net[fd].snd) > 0
  <2>1. Reports("out", net[fd])
    BY <1>1 DEF Sound, FlagsTrue, Reported
  <2> QED
    BY <2>1 DEF Reports
<1>5. Room(fd) \in Nat \ {0}
  BY <1>3, <1>4, SizeAssumption DEF Room
<1> QED
  BY <1>3, <1>5, SizeAssumption DEF Least

\* send() of a part of the output, of all of it, or failing.
LEMMA FlushInv ==
    ASSUME LoopInv, NEW fd \in Fd, FlushClientWrite(fd)
    PROVE  LoopInv'
<1> DEFINE out  == clients[fd].out
           n    == Least(Chunk, Least(Len(out), Room(fd)))
           rest == Unsent(out, n)
           snd  == net[fd].snd \o SubSeq(out, 1, n)
           fds  == Served(pollFds, "out")
<1>1. /\ phase = "serve" /\ pos \in DOMAIN pollFds /\ pollFds[pos].fd = fd /\ fd \in Live
      /\ Sound(pollFds, clients, net) /\ DOMAIN clients = Live
      /\ pollFds \in Seq(Entry) /\ pos \in Nat
      /\ Serving(fd) /\ Reported("out")
      /\ UNCHANGED <<phase, shutdown, backlog, sent, arrived>>
  BY WhileServing, FdAssumption DEF FlushClientWrite
<1>2. /\ DOMAIN fds = DOMAIN pollFds
      /\ \A i \in DOMAIN pollFds : /\ fds[i].fd = pollFds[i].fd
                                   /\ fds[i].revents \subseteq pollFds[i].revents
                                   /\ i = pos => "out" \notin fds[i].revents
  BY <1>1, ServedIs
<1>3. CASE out = << >>
  <2>1. pollFds' = fds /\ UNCHANGED <<pos, clients, net>>
    BY <1>3 DEF FlushClientWrite
  <2>2. Sound(pollFds', clients', net')
    BY <1>1, <2>1, ServedSound
  <2> HIDE DEF fds
  <2>3. \A j \in DOMAIN pollFds' : \E k \in DOMAIN pollFds :
            /\ j < pos => k < pos
            /\ pollFds'[j].fd = pollFds[k].fd
            /\ pollFds'[j].revents \subseteq pollFds[k].revents
    BY <1>2, <2>1
  <2> QED
    BY <1>1, <2>1, <2>2, <2>3, WithinRound
<1>4. CASE out # << >> /\ (net[fd].peer = "gone" \/ n = 0)
  <2>1. Disconnect(fd, clients)
    BY <1>4 DEF FlushClientWrite
  <2> QED
    BY <1>1, <2>1, DisconnectInv
<1>5. CASE out # << >> /\ net[fd].peer # "gone" /\ n # 0
  <2>1. /\ net'     = [net EXCEPT ![fd].snd = snd]
        /\ clients' = [clients EXCEPT ![fd].out = rest]
        /\ pollFds' = [fds EXCEPT ![pos].events = IF rest = << >> THEN {"in"} ELSE @]
        /\ UNCHANGED pos
    BY <1>5 DEF FlushClientWrite
  <2>2. n \in Nat \ {0} /\ n <= Len(out)
    BY <1>1, <1>5, RoomWhenReported
  <2>3. out \in Seq(Piece) /\ net[fd].snd \in Seq(Piece)
    BY <1>1 DEF Sound, Typed, Client, Connection
  <2> HIDE DEF n
  <2>4. rest \in Seq(Piece) /\ SubSeq(out, 1, n) \in Seq(Piece)
    BY <2>2, <2>3, Split DEF Unsent
  <2>5. snd \in Seq(Piece)
    BY <2>3, <2>4, ConcatProperties
  <2>6. Sound(fds, clients, net)
    BY <1>1, ServedSound
  <2> HIDE DEF fds, rest, snd
  <2>7. pos \in DOMAIN fds /\ fds[pos].fd = fd /\ "out" \notin fds[pos].revents
        /\ fd \in DOMAIN clients
    BY <1>1, <1>2 DEF Live
  <2>8. Sound(pollFds', clients', net')
    BY <1>5, <2>1, <2>4, <2>5, <2>6, <2>7, FlushSound
  <2>9. /\ DOMAIN pollFds' = DOMAIN fds
        /\ \A i \in DOMAIN fds : /\ pollFds'[i].fd = fds[i].fd
                                 /\ pollFds'[i].revents = fds[i].revents
    <3>1. fds \in Seq(Entry)
      BY <2>6 DEF Sound, Typed
    <3>2. \A i \in DOMAIN fds : fds[i] \in Entry
      BY <3>1, LenProperties, ElementOfSeq
    <3>3. DOMAIN pollFds' = DOMAIN fds
      BY <2>1
    <3>4. \A i \in DOMAIN fds : i # pos => pollFds'[i] = fds[i]
      BY <2>1
    <3>5. pollFds'[pos].fd = fds[pos].fd /\ pollFds'[pos].revents = fds[pos].revents
      BY <2>1, <2>7, <3>2 DEF Entry
    <3> QED
      BY <3>3, <3>4, <3>5
  <2>10. \A j \in DOMAIN pollFds' : \E k \in DOMAIN pollFds :
            /\ j < pos => k < pos
            /\ pollFds'[j].fd = pollFds[k].fd
            /\ pollFds'[j].revents \subseteq pollFds[k].revents
    BY <1>2, <2>9
  <2> QED
    BY <1>1, <2>1, <2>8, <2>10, WithinRound
<1> QED
  BY <1>3, <1>4, <1>5

\* The server's steps together.
LEMMA ServerStepInv ==
    ASSUME LoopInv, ServerStep
    PROVE  LoopInv'
<1>1. CASE Test \/ EnterPoll \/ EndOfRound \/ \E fd \in Fd \cup {Listen} : NextEntry(fd)
  BY <1>1, BetweenRoundsInv
<1>2. CASE PollReturns
  BY <1>2, PollReturnsInv
<1>3. CASE AcceptNewClient
  BY <1>3, AcceptInv
<1>4. ASSUME NEW fd \in Fd, ServeError(fd) \/ HangUp(fd)
      PROVE  LoopInv'
  BY <1>4, DisconnectInv DEF ServeError, HangUp
<1>5. ASSUME NEW fd \in Fd, HandleClientRead(fd)
      PROVE  LoopInv'
  BY <1>5, ReadInv
<1>6. ASSUME NEW fd \in Fd, ExtractCommand(fd)
      PROVE  LoopInv'
  BY <1>6, ExtractInv
<1>7. ASSUME NEW fd \in Fd, FlushClientWrite(fd)
      PROVE  LoopInv'
  BY <1>7, FlushInv
<1> QED
  BY <1>1, <1>2, <1>3, <1>4, <1>5, <1>6, <1>7 DEF ServerStep

-----------------------------------------------------------------------------
(* The steps of the others *)

\* A peer changes its connection, and nothing else the server knows of.
LEMMA PeerChangeInv ==
    ASSUME LoopInv, NEW fd \in Live, NEW c \in Connection,
           net' = [net EXCEPT ![fd] = c],
           UNCHANGED <<phase, pos, pollFds, clients, shutdown, backlog, arrived>>,
           sent' \in Nat,
           c.rcv # << >> \/ net[fd].rcv = << >>,
           Len(c.snd) <= Len(net[fd].snd),
           net[fd].peer # "open" => c.peer # "open",
           net[fd].peer = "gone" => c.peer = "gone"
    PROVE  LoopInv'
<1>1. phase # "stopped" /\ Sound(pollFds, clients, net)
  BY DEF LoopInv, Live
<1>2. Sound(pollFds, clients, net')
  BY <1>1, PeersKeep DEF Live
<1> QED
  BY <1>1, <1>2 DEF LoopInv, Scalars, ServedBefore, ListenTrue

\* A peer writes, reads, closes or breaks: what poll() reported stays true.
LEMMA PeerStepInv ==
    ASSUME LoopInv, NEW fd \in Fd, PeerStep(fd)
    PROVE  LoopInv'
<1>1. fd \in Live
  BY DEF PeerStep, PeerSends, PeerReads, PeerHalfCloses, PeerBreaks
<1>2. UNCHANGED <<phase, pos, pollFds, clients, shutdown, backlog, arrived>>
  BY DEF PeerStep, PeerSends, PeerReads, PeerHalfCloses, PeerBreaks, server
<1>3. Sound(pollFds, clients, net) /\ sent \in Nat
  BY <1>1 DEF LoopInv, Scalars, Live
<1>4. net[fd] \in Connection
  BY <1>1, <1>3 DEF Sound, Typed, Live
<1>5. net[fd].rcv \in Seq(Piece) /\ net[fd].snd \in Seq(Piece)
  BY <1>4 DEF Connection
<1>6. Len(net[fd].snd) \in Nat
  BY <1>5, LenProperties
<1>7. ASSUME NEW kind \in Kind, PeerSends(fd, kind)
      PROVE  LoopInv'
  <2> DEFINE p == [kind |-> kind, id |-> sent + 1]
             c == [net[fd] EXCEPT !.rcv = Append(net[fd].rcv, p)]
  <2>1. p \in Piece
    BY <1>3, KindAssumption DEF Piece
  <2>2. Append(net[fd].rcv, p) \in Seq(Piece) /\ Append(net[fd].rcv, p) # << >>
    BY <1>5, <2>1, AppendProperties
  <2>3. net' = [net EXCEPT ![fd] = c] /\ sent' \in Nat
    BY <1>3, <1>7 DEF PeerSends
  <2>4. c \in Connection /\ c.rcv # << >> /\ c.snd = net[fd].snd /\ c.peer = net[fd].peer
    BY <1>4, <2>2 DEF Connection
  <2> HIDE DEF c
  <2>5. Len(c.snd) <= Len(net[fd].snd)
    BY <1>6, <2>4
  <2> QED
    BY <1>1, <1>2, <2>3, <2>4, <2>5, PeerChangeInv
<1>8. CASE PeerReads(fd)
  <2> DEFINE c == [net[fd] EXCEPT !.snd = Tail(net[fd].snd)]
  <2>1. net' = [net EXCEPT ![fd] = c] /\ net[fd].snd # << >> /\ sent' \in Nat
    BY <1>3, <1>8 DEF PeerReads
  <2>2. Tail(net[fd].snd) \in Seq(Piece) /\ Len(Tail(net[fd].snd)) = Len(net[fd].snd) - 1
    BY <1>5, <2>1, HeadTailProperties
  <2>3. c \in Connection /\ c.rcv = net[fd].rcv /\ c.snd = Tail(net[fd].snd) /\ c.peer = net[fd].peer
    BY <1>4, <2>2 DEF Connection
  <2> HIDE DEF c
  <2>4. Len(c.snd) <= Len(net[fd].snd)
    BY <1>6, <2>2, <2>3
  <2>5. c.rcv # << >> \/ net[fd].rcv = << >>
    BY <2>3
  <2> QED
    BY <1>1, <1>2, <2>1, <2>3, <2>4, <2>5, PeerChangeInv
<1>9. ASSUME NEW peer \in {"half", "gone"}, net[fd].peer = "gone" => peer = "gone",
             net' = [net EXCEPT ![fd].peer = peer], sent' = sent
      PROVE  LoopInv'
  <2> DEFINE c == [net[fd] EXCEPT !.peer = peer]
  <2>1. net' = [net EXCEPT ![fd] = c]
    BY <1>9
  <2>2. c \in Connection /\ c.rcv = net[fd].rcv /\ c.snd = net[fd].snd /\ c.peer = peer
    BY <1>4 DEF Connection
  <2> HIDE DEF c
  <2>3. Len(c.snd) <= Len(net[fd].snd)
    BY <1>6, <2>2
  <2>4. (c.rcv # << >> \/ net[fd].rcv = << >>) /\ c.peer # "open" /\ sent' \in Nat
    BY <1>3, <1>9, <2>2
  <2> QED
    BY <1>1, <1>2, <1>9, <2>1, <2>2, <2>3, <2>4, PeerChangeInv
<1>10. CASE PeerHalfCloses(fd)
  BY <1>9, <1>10 DEF PeerHalfCloses
<1>11. CASE PeerBreaks(fd)
  BY <1>9, <1>11 DEF PeerBreaks
<1> QED
  BY <1>7, <1>8, <1>10, <1>11 DEF PeerStep

\* A signal at any time.
LEMMA SignalInv ==
    ASSUME LoopInv, SignalHandler
    PROVE  LoopInv'
<1>1. CASE phase = "poll"
  BY <1>1, StopInv DEF SignalHandler
<1>2. CASE phase # "poll"
  BY <1>2 DEF SignalHandler, LoopInv, Scalars, ServedBefore, ListenTrue
<1> QED
  BY <1>1, <1>2

\* A peer connects.
LEMMA ConnectInv ==
    ASSUME LoopInv, PeerConnects
    PROVE  LoopInv'
BY DEF PeerConnects, server, LoopInv, Scalars, ServedBefore, ListenTrue

-----------------------------------------------------------------------------
(* Theorems *)

\* The server starts with the listening socket alone.
LEMMA LoopInit ==
    ASSUME Init
    PROVE  LoopInv
<1> DEFINE e == [fd |-> Listen, events |-> {"in"}, revents |-> {}]
<1>1. /\ pollFds = <<e>> /\ clients = [fd \in {} |-> [in |-> << >>, out |-> << >>]]
      /\ net = [fd \in {} |-> [peer |-> "open", rcv |-> << >>, snd |-> << >>]]
      /\ phase = "test" /\ pos = 1 /\ shutdown = FALSE
      /\ backlog = 0 /\ sent = 0 /\ arrived = 0
  BY DEF Init
<1>2. e \in Entry /\ e.fd = Listen /\ e.revents = {}
  BY DEF Entry
<1> HIDE DEF e
<1>3. pollFds \in Seq(Entry) /\ Len(pollFds) = 1 /\ pollFds[1] = e /\ DOMAIN pollFds = 1..1
  BY <1>1, <1>2
<1>4. DOMAIN clients = {} /\ clients \in [DOMAIN clients -> Client]
      /\ net \in [DOMAIN clients -> Connection]
  BY <1>1
<1>5. Sound(pollFds, clients, net)
  <2>1. Typed(pollFds, clients, net)
    BY <1>3, <1>4 DEF Typed
  <2>2. Matched(pollFds, clients)
    BY <1>2, <1>3, <1>4 DEF Matched
  <2>3. Interest(pollFds, clients) /\ FlagsTrue(pollFds, clients, net)
    BY <1>4 DEF Interest, FlagsTrue
  <2> QED
    BY <2>1, <2>2, <2>3 DEF Sound
<1>6. ServedBefore /\ ListenTrue
  BY <1>2, <1>3 DEF ServedBefore, ListenTrue
<1>7. Scalars
  <2>1. phase = "test" /\ pos = 1 /\ shutdown = FALSE
        /\ backlog = 0 /\ sent = 0 /\ arrived = 0
    BY <1>1
  <2>2. pos \in Nat \ {0} /\ backlog \in Nat /\ sent \in Nat /\ arrived \in Nat
    BY <2>1
  <2>3. shutdown \in BOOLEAN
    BY <2>1
  <2> QED
    BY <2>1, <2>2, <2>3 DEF Scalars
<1> QED
  BY <1>1, <1>5, <1>6, <1>7 DEF LoopInv

\* The invariant is inductive.
LEMMA LoopNext ==
    ASSUME LoopInv, [Next]_vars
    PROVE  LoopInv'
<1>1. CASE ServerStep
  BY <1>1, ServerStepInv
<1>2. CASE SignalHandler
  BY <1>2, SignalInv
<1>3. CASE PeerConnects
  BY <1>3, ConnectInv
<1>4. ASSUME NEW fd \in Fd, PeerStep(fd)
      PROVE  LoopInv'
  BY <1>4, PeerStepInv
<1>5. CASE UNCHANGED vars
  BY <1>5 DEF vars, server, LoopInv, Scalars, ServedBefore, ListenTrue
<1> QED
  BY <1>1, <1>2, <1>3, <1>4, <1>5 DEF Next

(* The inductive invariant of the loop (Server::run and what it calls). *)
THEOREM LoopInvariant == Spec => []LoopInv
<1>1. Init => LoopInv
  BY LoopInit
<1>2. LoopInv /\ [Next]_vars => LoopInv'
  BY LoopNext
<1> QED
  BY <1>1, <1>2, PTL DEF Spec

\* The invariant implies those the runs check.
LEMMA LoopInvMeans ==
    ASSUME LoopInv
    PROVE  TypeOK /\ EntriesAreClients /\ WriteInterestExact /\ RoundIsComplete
<1>1. CASE phase = "stopped"
  <2>1. pollFds = << >> /\ DOMAIN pollFds = {} /\ Live = {}
        /\ clients \in [Live -> Client] /\ net \in [Live -> Connection]
    BY <1>1 DEF LoopInv, Live
  <2>2. pollFds \in Seq(Entry)
    BY <2>1, EmptySeq
  <2> QED
    BY <1>1, <2>1, <2>2
       DEF LoopInv, Scalars, TypeOK, EntriesAreClients, WriteInterestExact, RoundIsComplete
<1>2. CASE phase # "stopped"
  <2>1. Typed(pollFds, clients, net) /\ Matched(pollFds, clients) /\ Interest(pollFds, clients)
    BY <1>2 DEF LoopInv, Sound
  <2>2. TypeOK
    BY <2>1 DEF LoopInv, Scalars, Typed, TypeOK, Live
  <2>3. EntriesAreClients
    <3>1. 1 \in DOMAIN pollFds
      BY <2>1, LenProperties, EmptySeq DEF Typed, Matched
    <3>2. {pollFds[i].fd : i \in DOMAIN pollFds} = Live \cup {Listen}
      BY <2>1, <3>1 DEF Matched, Live
    <3> QED
      BY <2>1, <3>2 DEF Matched, EntriesAreClients
  <2>4. WriteInterestExact
    BY <2>1 DEF Interest, WriteInterestExact, Live
  <2>5. RoundIsComplete
    BY DEF LoopInv, ServedBefore, RoundIsComplete
  <2> QED
    BY <2>2, <2>3, <2>4, <2>5
<1> QED
  BY <1>1, <1>2

(* Whatever is read, sent, closed or broken, the state keeps its types.     *)
THEOREM LoopTypeCorrect == Spec => []TypeOK
BY LoopInvariant, LoopInvMeans, PTL

(* _pollFds and _clients agree, although disconnectClient moves entries     *)
(* while run() iterates over them and accept() reuses descriptors.          *)
THEOREM EntriesCorrect == Spec => []EntriesAreClients
BY LoopInvariant, LoopInvMeans, PTL

(* POLLOUT is asked exactly while output waits: after enableWrite, a send   *)
(* of a part or of all, and a disconnection (flushClientWrite).             *)
THEOREM WriteInterestCorrect == Spec => []WriteInterestExact
BY LoopInvariant, LoopInvMeans, PTL

(* A round of run() leaves nothing unserved that poll() reported, for any   *)
(* number of clients disconnected during it.                                *)
THEOREM RoundsComplete == Spec => []RoundIsComplete
BY LoopInvariant, LoopInvMeans, PTL

\* Serving an entry ends a connection whose peer is there only with a QUIT.
LEMMA KeptByServing ==
    ASSUME LoopInv, NEW gone \in Live \ Live', net[gone].peer = "open",
           NEW fd \in Fd,
           ServeError(fd) \/ HangUp(fd) \/ HandleClientRead(fd) \/ ExtractCommand(fd)
               \/ FlushClientWrite(fd)
    PROVE  \E k \in DOMAIN clients[gone].in : clients[gone].in[k].kind = "quit"
<1>1. Serving(fd) /\ fd # Listen
  BY FdAssumption
     DEF ServeError, HangUp, HandleClientRead, ExtractCommand, FlushClientWrite
<1>2. /\ pos \in DOMAIN pollFds /\ pollFds[pos].fd = fd /\ fd \in Live
      /\ Sound(pollFds, clients, net) /\ DOMAIN clients = Live
  BY <1>1, WhileServing
<1>3. \A flag : Reported(flag) => Reports(flag, net[fd])
  BY <1>2 DEF Reported, Sound, FlagsTrue
<1>4. ASSUME Disconnect(fd, clients)
      PROVE  gone = fd
  BY <1>4 DEF Disconnect, Live
<1>5. CASE ServeError(fd)
  <2>1. gone = fd /\ Reports("err", net[fd])
    BY <1>3, <1>4, <1>5 DEF ServeError
  <2> QED
    BY <2>1 DEF Reports
<1>6. CASE HangUp(fd)
  <2>1. gone = fd /\ Reports("hup", net[fd])
    BY <1>3, <1>4, <1>6 DEF HangUp
  <2> QED
    BY <2>1 DEF Reports
<1>7. CASE HandleClientRead(fd)
  <2> DEFINE n == Least(Chunk, Len(net[fd].rcv))
  <2>1. CASE n = 0
    <3>1. gone = fd /\ Reports("in", net[fd])
      BY <1>3, <1>4, <1>7, <2>1 DEF HandleClientRead
    <3>2. net[fd].rcv \in Seq(Piece)
      BY <1>2 DEF Sound, Typed, Connection
    <3>3. net[fd].rcv = << >>
      BY <2>1, <3>2, EmptySeq, LenProperties, SizeAssumption DEF Least
    <3> QED
      BY <3>1, <3>3 DEF Reports
  <2>2. CASE n # 0
    <3>1. DOMAIN clients' = DOMAIN clients
      BY <1>7, <2>2 DEF HandleClientRead
    <3> QED
      BY <3>1 DEF Live
  <2> QED
    BY <2>1, <2>2
<1>8. CASE ExtractCommand(fd)
  <2> DEFINE buf    == clients[fd].in
             lines  == {j \in DOMAIN buf : buf[j].kind # "part"}
             k      == Min(lines)
  <2>1. buf[k].kind = "quit" => DOMAIN clients' = Live \ {fd}
    BY <1>8 DEF ExtractCommand
  <2>2. ~(buf[k].kind = "quit") => DOMAIN clients' = Live
    BY <1>8 DEF ExtractCommand, Tell
  <2>3. buf[k].kind = "quit" /\ gone = fd
    BY <2>1, <2>2 DEF Live
  <2>4. buf \in Seq(Piece)
    BY <1>2 DEF Sound, Typed, Client
  <2>5. lines \in SUBSET Nat /\ lines # {}
    <3>1. Extracting(fd)
      BY <1>8 DEF ExtractCommand
    <3> QED
      BY <2>4, <3>1, LenProperties DEF Extracting, HasLine
  <2>6. k \in lines
    BY <2>5, MinIsLeast
  <2> QED
    BY <2>3, <2>6
<1>9. CASE FlushClientWrite(fd)
  <2> DEFINE out == clients[fd].out
             n   == Least(Chunk, Least(Len(out), Room(fd)))
  <2>1. CASE out = << >>
    BY <1>9, <2>1 DEF FlushClientWrite, Live
  <2>2. CASE out # << >> /\ (net[fd].peer = "gone" \/ n = 0)
    <3>1. gone = fd /\ Reported("out")
      BY <1>4, <1>9, <2>2 DEF FlushClientWrite
    <3>2. net[fd].peer # "gone" /\ n = 0
      BY <2>2, <3>1
    <3> QED
      BY <1>1, <2>2, <3>1, <3>2, RoomWhenReported
  <2>3. CASE out # << >> /\ net[fd].peer # "gone" /\ n # 0
    <3>1. DOMAIN clients' = DOMAIN clients
      BY <1>9, <2>3 DEF FlushClientWrite
    <3> QED
      BY <3>1 DEF Live
  <2> QED
    BY <2>1, <2>2, <2>3
<1> QED
  BY <1>5, <1>6, <1>7, <1>8, <1>9

(* Only a QUIT ends the connection of a peer that is there: send() is never *)
(* tried without room, so that EAGAIN, which flushClientWrite takes for a   *)
(* lost connection, does not occur.                                         *)
THEOREM SlowClientsAreKept == Spec => SlowClientsKept
<1> DEFINE Kept == \A fd \in Live \ Live' :
                      net[fd].peer = "open" =>
                         \/ phase' = "stopped"
                         \/ \E k \in DOMAIN clients[fd].in : clients[fd].in[k].kind = "quit"
<1>1. LoopInv /\ [Next]_vars => [Kept]_vars
  <2> SUFFICES ASSUME LoopInv, Next, NEW gone \in Live \ Live', net[gone].peer = "open",
                      phase' # "stopped"
               PROVE  \E k \in DOMAIN clients[gone].in : clients[gone].in[k].kind = "quit"
    OBVIOUS
  <2>1. ~(UNCHANGED clients) /\ ~Stop
    BY DEF Live, Stop
  <2>2. ~AcceptNewClient
    BY <2>1 DEF AcceptNewClient, Live
  <2>3. ~(Test \/ EnterPoll \/ PollReturns \/ EndOfRound \/ SignalHandler \/ PeerConnects)
    BY <2>1 DEF Test, EnterPoll, PollReturns, EndOfRound, SignalHandler, PeerConnects, server
  <2>4. \A fd : ~NextEntry(fd) /\ ~PeerStep(fd)
    BY <2>1 DEF NextEntry, PeerStep, PeerSends, PeerReads, PeerHalfCloses, PeerBreaks, server
  <2>5. PICK fd \in Fd : ServeError(fd) \/ HangUp(fd) \/ HandleClientRead(fd)
                            \/ ExtractCommand(fd) \/ FlushClientWrite(fd)
    BY <2>2, <2>3, <2>4 DEF Next, ServerStep
  <2> QED
    BY <2>5, KeptByServing
<1>2. SlowClientsKept <=> [][Kept]_vars
  BY DEF SlowClientsKept
<1> QED
  BY <1>1, <1>2, LoopInvariant, PTL DEF Spec

-----------------------------------------------------------------------------
(* The lines of a stream *)

Whole(s, t, F) == Reading(s \o t, F) = Reading(s, F) \o Reading(t, F)

\* What is read off two queues in a row is read off each.
LEMMA ReadingWhole ==
    ASSUME NEW S, NEW W, NEW F, Reads(F, S, W), NEW q \in Seq(S), NEW r \in Seq(S)
    PROVE  Whole(q, r, F)
BY ReadingConcat DEF Whole

LineFun == [piece \in Piece |-> LineOf(piece)]

\* What LinesOf reads off a stream is what Positions says of queues.
LEMMA LinesAreRead ==
    /\ Reads(LineFun, Piece, Piece)
    /\ \A s \in Seq(Piece) : LinesOf(s) = Reading(s, LineFun)
<1>1. \A p \in Piece : LineOf(p) \in Seq(Piece)
  <2> TAKE p \in Piece
  <2> DEFINE one == <<p>>
  <2>1. one \in Seq(Piece)
    OBVIOUS
  <2>2. << >> \in Seq(Piece)
    BY EmptySeq
  <2>3. LineOf(p) = << >> \/ LineOf(p) = one
    BY DEF LineOf
  <2> HIDE DEF one
  <2> QED
    BY <2>1, <2>2, <2>3
<1>2. Reads(LineFun, Piece, Piece)
  BY <1>1 DEF Reads, LineFun
<1>3. ASSUME NEW s \in Seq(Piece)
      PROVE  LinesOf(s) = Reading(s, LineFun)
  <2>1. \A i \in DOMAIN s : s[i] \in Piece
    BY LenProperties, ElementOfSeq
  <2>2. [i \in DOMAIN s |-> LineFun[s[i]]] = [i \in DOMAIN s |-> LineOf(s[i])]
    BY <2>1 DEF LineFun
  <2> QED
    BY <2>2 DEF LinesOf, Reading
<1> QED
  BY <1>2, <1>3

\* What is cut is read as what is whole.
LEMMA LinesOfBoth ==
    ASSUME NEW s \in Seq(Piece), NEW t \in Seq(Piece)
    PROVE  LinesOf(s) \in Seq(Piece) /\ LinesOf(s \o t) = LinesOf(s) \o LinesOf(t)
<1> DEFINE F == LineFun
<1>1. Reads(F, Piece, Piece)
  BY LinesAreRead
<1> HIDE DEF F
<1>2. s \o t \in Seq(Piece)
  BY ConcatProperties
<1>3. Reading(s, F) \in Seq(Piece) /\ Reading(s \o t, F) = Reading(s, F) \o Reading(t, F)
  <2> DEFINE P == Piece
  <2>1. s \in Seq(P) /\ t \in Seq(P) /\ Reads(F, P, P)
    BY <1>1
  <2> HIDE DEF P
  <2>2. Reading(s, F) \in Seq(P)
    BY <2>1, ReadingConcat
  <2>3. Whole(s, t, F)
    BY <2>1, ReadingWhole
  <2> QED
    BY <2>2, <2>3 DEF P, Whole
<1>4. LinesOf(s) = Reading(s, F) /\ LinesOf(t) = Reading(t, F) /\ LinesOf(s \o t) = Reading(s \o t, F)
  BY <1>2, LinesAreRead DEF F
<1> QED
  BY <1>3, <1>4

\* Nothing holds no line.
LEMMA LinesOfNone == LinesOf(<< >>) = << >>
<1>1. << >> \in Seq(Piece)
  BY EmptySeq
<1> DEFINE p == [kind |-> "part", id |-> 0]
<1>2. p \in Piece
  BY DEF Piece
<1> HIDE DEF p
<1>3. Reading(<< >>, LineFun) = << >>
  BY <1>2, LinesAreRead, ReadingOne
<1> QED
  BY <1>1, <1>3, LinesAreRead

\* A piece more is a line more, if it is one.
LEMMA LinesOfMore ==
    ASSUME NEW s \in Seq(Piece), NEW p \in Piece
    PROVE  LinesOf(Append(s, p)) = IF p.kind = "part" THEN LinesOf(s) ELSE Append(LinesOf(s), p)
<1>1. Append(s, p) \in Seq(Piece)
  BY AppendProperties
<1>2. LinesOf(Append(s, p)) = LinesOf(s) \o LineOf(p)
  <2>1. Reading(Append(s, p), LineFun) = Reading(s, LineFun) \o LineFun[p]
    BY LinesAreRead, ReadingEnds
  <2> QED
    BY <1>1, <2>1, LinesAreRead DEF LineFun
<1>3. LinesOf(s) \in Seq(Piece)
  BY LinesOfBoth
<1>4. CASE p.kind = "part"
  <2>1. LinesOf(s) \o << >> = LinesOf(s)
    BY <1>3, ConcatEmptySeq
  <2> QED
    BY <1>2, <1>4, <2>1 DEF LineOf
<1>5. CASE p.kind # "part"
  <2>1. LinesOf(s) \o <<p>> = Append(LinesOf(s), p)
    BY <1>3, AppendIsConcat
  <2> QED
    BY <1>2, <1>5, <2>1 DEF LineOf
<1> QED
  BY <1>4, <1>5

\* The beginning of a stream, and one piece more.
LEMMA Beginning ==
    ASSUME NEW s \in Seq(Piece), NEW n \in 1..Len(s)
    PROVE  /\ SubSeq(s, 1, n - 1) \in Seq(Piece) /\ s[n] \in Piece
           /\ SubSeq(s, 1, n) = Append(SubSeq(s, 1, n - 1), s[n])
           /\ SubSeq(s, n + 1, Len(s)) \in Seq(Piece)
           /\ s = SubSeq(s, 1, n) \o SubSeq(s, n + 1, Len(s))
<1>1. Len(s) \in Nat /\ n \in Nat /\ n <= Len(s) /\ n >= 1 /\ s[n] \in Piece
  BY LenProperties, ElementOfSeq
<1>2. n - 1 \in Nat /\ n - 1 <= Len(s)
  BY <1>1
<1>3. SubSeq(s, 1, n - 1) \in Seq(Piece)
  BY <1>2, Split
<1>4. SubSeq(s, n + 1, Len(s)) \in Seq(Piece)
  BY <1>1, Split
<1>5. SubSeq(s, 1, n) = Append(SubSeq(s, 1, n - 1), s[n])
  BY <1>1, SubSeqRecursiveSecond
<1>6. s = SubSeq(s, 1, n) \o SubSeq(s, n + 1, Len(s))
  BY <1>1, ConcatAdjacentSubSeq, SubSeqFull
<1> QED
  BY <1>1, <1>3, <1>4, <1>5, <1>6

Regrouped(a, b, c) == a \o (b \o c) = (a \o b) \o c

\* Moving a cut in a stream does not change the stream.
LEMMA Regrouping ==
    ASSUME NEW S, NEW a \in Seq(S), NEW b \in Seq(S), NEW c \in Seq(S)
    PROVE  Regrouped(a, b, c)
BY ConcatAssociative DEF Regrouped

\* What is moved from the front of s to the end of a, recv() and send() alike.
LEMMA Moved ==
    ASSUME NEW a \in Seq(Piece), NEW s \in Seq(Piece), NEW n \in 1..Len(s)
    PROVE  a \o s = (a \o SubSeq(s, 1, n)) \o SubSeq(s, n + 1, Len(s))
<1> DEFINE b == SubSeq(s, 1, n)
           c == SubSeq(s, n + 1, Len(s))
<1>1. n \in Nat /\ n <= Len(s) /\ s = b \o c
  BY Beginning, LenProperties
<1>2. b \in Seq(Piece) /\ c \in Seq(Piece)
  BY <1>1, Split
<1> HIDE DEF b, c
<1>3. Regrouped(a, b, c)
  BY <1>2, Regrouping
<1>4. a \o s = (a \o b) \o c
  BY <1>1, <1>3 DEF Regrouped
<1> QED
  BY <1>4 DEF b, c

\* A stream of parts only holds no line, however long it is.
LEMMA PartsAreNoLines ==
    ASSUME NEW s \in Seq(Piece), NEW m \in Nat, m <= Len(s),
           \A j \in 1..m : s[j].kind = "part"
    PROVE  LinesOf(SubSeq(s, 1, m)) = << >>
<1> DEFINE Wrong == {n \in Nat : n <= m /\ LinesOf(SubSeq(s, 1, n)) # << >>}
<1>1. SUFFICES ASSUME Wrong # {} PROVE FALSE
  OBVIOUS
<1>2. PICK n \in Wrong : \A x \in Wrong : n <= x
  <2>1. Wrong \in SUBSET Nat
    OBVIOUS
  <2> QED
    BY <1>1, <2>1, MinIsLeast
<1>3. Len(s) \in Nat /\ n \in Nat /\ n <= m
  BY <1>2, LenProperties
<1>4. CASE n = 0
  <2>1. SubSeq(s, 1, 0) = << >>
    BY SubSeqEmpty
  <2> QED
    BY <1>2, <1>4, <2>1, LinesOfNone
<1>5. CASE n # 0
  <2>1. n \in 1..Len(s) /\ n \in 1..m /\ n - 1 \in Nat /\ n - 1 <= m
    BY <1>3, <1>5
  <2>2. SubSeq(s, 1, n - 1) \in Seq(Piece) /\ s[n] \in Piece
        /\ SubSeq(s, 1, n) = Append(SubSeq(s, 1, n - 1), s[n])
    BY <2>1, Beginning
  <2>3. LinesOf(SubSeq(s, 1, n)) = LinesOf(SubSeq(s, 1, n - 1))
    BY <2>1, <2>2, LinesOfMore
  <2>4. n - 1 \in Wrong
    BY <1>2, <2>1, <2>3
  <2>5. n <= n - 1
    BY <1>2, <2>4
  <2> QED
    BY <1>3, <2>5
<1> QED
  BY <1>4, <1>5

\* A buffer in which extractCommands finds no line holds none.
LEMMA NoLine ==
    ASSUME NEW s \in Seq(Piece), ~HasLine(s)
    PROVE  LinesOf(s) = << >>
<1>1. Len(s) \in Nat /\ DOMAIN s = 1..Len(s) /\ SubSeq(s, 1, Len(s)) = s
  BY LenProperties, SubSeqFull
<1>2. \A j \in 1..Len(s) : s[j].kind = "part"
  BY <1>1 DEF HasLine
<1>3. LinesOf(SubSeq(s, 1, Len(s))) = << >>
  BY <1>1, <1>2, PartsAreNoLines
<1> QED
  BY <1>1, <1>3

\* extractCommands takes the first of the lines.
LEMMA FirstLine ==
    ASSUME NEW s \in Seq(Piece), HasLine(s),
           NEW k, k = Min({j \in DOMAIN s : s[j].kind # "part"})
    PROVE  /\ k \in 1..Len(s) /\ s[k] \in Piece /\ s[k].kind # "part"
           /\ SubSeq(s, k + 1, Len(s)) \in Seq(Piece)
           /\ LinesOf(s) = <<s[k]>> \o LinesOf(SubSeq(s, k + 1, Len(s)))
<1> DEFINE T == {j \in DOMAIN s : s[j].kind # "part"}
<1>1. Len(s) \in Nat /\ DOMAIN s = 1..Len(s)
  BY LenProperties
<1>2. T \in SUBSET Nat /\ T # {}
  BY <1>1 DEF HasLine
<1>3. k \in T /\ \A x \in T : k <= x
  BY <1>2, MinIsLeast
<1>4. k \in 1..Len(s) /\ s[k].kind # "part" /\ \A j \in 1..(k - 1) : s[j].kind = "part"
  <2>1. k \in 1..Len(s) /\ s[k].kind # "part"
    BY <1>1, <1>3
  <2> SUFFICES ASSUME NEW j \in 1..(k - 1) PROVE s[j].kind = "part"
    BY <2>1
  <2>2. j \in DOMAIN s /\ ~(k <= j)
    BY <1>1, <2>1
  <2> QED
    BY <1>3, <2>2
<1> HIDE DEF T
<1> DEFINE pre  == SubSeq(s, 1, k - 1)
           rest == SubSeq(s, k + 1, Len(s))
           upto == SubSeq(s, 1, k)
<1>5. /\ pre \in Seq(Piece) /\ s[k] \in Piece /\ upto = Append(pre, s[k])
      /\ rest \in Seq(Piece) /\ s = upto \o rest
  BY <1>4, Beginning
<1>6. LinesOf(pre) = << >>
  <2>1. k - 1 \in Nat /\ k - 1 <= Len(s)
    BY <1>1, <1>4
  <2> QED
    BY <1>4, <2>1, PartsAreNoLines
<1> HIDE DEF pre, rest, upto
<1>7. LinesOf(upto) = <<s[k]>> /\ upto \in Seq(Piece)
  <2>1. LinesOf(upto) = Append(LinesOf(pre), s[k])
    BY <1>4, <1>5, LinesOfMore
  <2>2. Append(<< >>, s[k]) = <<s[k]>>
    OBVIOUS
  <2> QED
    BY <1>5, <1>6, <2>1, <2>2, AppendProperties
<1>8. LinesOf(upto \o rest) = LinesOf(upto) \o LinesOf(rest)
  BY <1>5, <1>7, LinesOfBoth
<1>9. LinesOf(s) = <<s[k]>> \o LinesOf(rest)
  BY <1>5, <1>7, <1>8
<1> QED
  BY <1>4, <1>5, <1>9 DEF rest

-----------------------------------------------------------------------------
(* What the refinement needs of the loop *)

\* Only the client that is served has complete lines in its buffer, and only
\* after its recv(): so what is read is read behind lines all executed.
Extracted ==
    \A fd \in Live : HasLine(clients[fd].in) => Serving(fd) /\ ~Reported("in")

\* When a peer that has closed its side only is hung up on, what it sent has
\* been read: POLLIN is reported with POLLHUP, and one recv() takes all.
HupDrained(revents, c) ==
    "hup" \in revents =>
        \/ c.peer = "gone"
        \/ /\ TRUE \in HangUpOnFin /\ c.peer # "open"
           /\ "in" \in revents \/ c.rcv = << >>

Drained ==
    \A i \in DOMAIN pollFds :
        pollFds[i].fd \in Live => HupDrained(pollFds[i].revents, net[pollFds[i].fd])

Bounded ==
    /\ sent <= MaxPieces
    /\ \A fd \in Live : Len(net[fd].rcv) <= sent

RefInv == LoopInv /\ Extracted /\ Drained /\ Bounded

\* What the invariants of the loop say of the types.
LEMMA Connections ==
    ASSUME LoopInv
    PROVE  /\ DOMAIN clients = Live /\ Live \subseteq Fd
           /\ clients \in [Live -> Client] /\ net \in [Live -> Connection]
           /\ pollFds \in Seq(Entry) /\ sent \in Nat
<1>1. CASE phase = "stopped"
  <2>1. pollFds = << >> /\ Live = {} /\ clients \in [Live -> Client] /\ net \in [Live -> Connection]
    BY <1>1 DEF LoopInv, Live
  <2> QED
    BY <2>1, EmptySeq DEF LoopInv, Scalars, Live
<1>2. CASE phase # "stopped"
  BY <1>2 DEF LoopInv, Scalars, Sound, Typed, Live
<1> QED
  BY <1>1, <1>2

\* Buffers, streams and the numbers of what is in them.
LEMMA Buffers ==
    ASSUME LoopInv, NEW fd \in Live
    PROVE  /\ clients[fd] \in Client /\ net[fd] \in Connection
           /\ clients[fd].in \in Seq(Piece) /\ clients[fd].out \in Seq(Piece)
           /\ net[fd].rcv \in Seq(Piece) /\ net[fd].snd \in Seq(Piece)
           /\ net[fd].peer \in {"open", "half", "gone"}
BY Connections DEF Client, Connection

\* Two clients are not served at once.
LEMMA OthersExtracted ==
    ASSUME LoopInv, Extracted, NEW fd \in Fd \cup {Listen}, Serving(fd)
    PROVE  \A f \in Live : f # fd => ~HasLine(clients[f].in)
BY DEF Extracted, Serving

\* Nobody is served before poll() has returned.
LEMMA NoneExtracting ==
    ASSUME LoopInv, Extracted, phase # "serve" \/ pos \notin DOMAIN pollFds
    PROVE  \A f \in Live : ~HasLine(clients[f].in)
BY DEF Extracted, Serving

\* When no buffer holds a line, none is left behind.
LEMMA NoneIsFine ==
    ASSUME \A f \in Live' : ~HasLine(clients'[f].in)
    PROVE  Extracted'
BY DEF Extracted

\* Entries that are kept keep what is reported, and connections their data.
LEMMA KeptDrained ==
    ASSUME Drained, Bounded, sent' = sent, Live' \subseteq Live,
           \A f \in Live' : net'[f].peer = net[f].peer /\ net'[f].rcv = net[f].rcv,
           \A j \in DOMAIN pollFds' : \E k \in DOMAIN pollFds :
               /\ pollFds'[j].fd = pollFds[k].fd
               /\ "hup" \in pollFds'[j].revents => "hup" \in pollFds[k].revents
               /\ pollFds[k].fd \in Live /\ "in" \in pollFds[k].revents
                      => "in" \in pollFds'[j].revents
    PROVE  Drained' /\ Bounded'
<1>1. Bounded'
  BY DEF Bounded
<1>2. Drained'
  <2> SUFFICES ASSUME NEW j \in DOMAIN pollFds', pollFds'[j].fd \in Live'
               PROVE  HupDrained(pollFds'[j].revents, net'[pollFds'[j].fd])
    BY DEF Drained
  <2>1. PICK k \in DOMAIN pollFds :
               /\ pollFds'[j].fd = pollFds[k].fd
               /\ "hup" \in pollFds'[j].revents => "hup" \in pollFds[k].revents
               /\ pollFds[k].fd \in Live /\ "in" \in pollFds[k].revents
                      => "in" \in pollFds'[j].revents
    OBVIOUS
  <2>2. pollFds[k].fd \in Live /\ HupDrained(pollFds[k].revents, net[pollFds[k].fd])
    BY <2>1 DEF Drained
  <2> QED
    BY <2>1, <2>2 DEF HupDrained
<1> QED
  BY <1>1, <1>2

\* The end of run() drops all connections.
LEMMA StopDrained ==
    ASSUME Stop, UNCHANGED sent, Bounded
    PROVE  Extracted' /\ Drained' /\ Bounded'
<1>1. pollFds' = << >> /\ DOMAIN pollFds' = {} /\ Live' = {}
  BY DEF Stop, Live
<1> QED
  BY <1>1 DEF Extracted, Drained, Bounded

\* Between two rounds nobody has lines, and nothing is read.
LEMMA BetweenRoundsDrained ==
    ASSUME RefInv, Test \/ EnterPoll \/ EndOfRound \/ \E fd \in Fd \cup {Listen} : NextEntry(fd)
    PROVE  Extracted' /\ Drained' /\ Bounded'
<1>1. CASE Test /\ Stop
  BY <1>1, StopDrained DEF Test, RefInv
<1>2. CASE ~Stop
  <2>1. UNCHANGED <<pollFds, clients, net, sent>>
    BY <1>2 DEF Test, EnterPoll, EndOfRound, NextEntry
  <2>2. Drained' /\ Bounded'
    BY <2>1 DEF RefInv, Drained, Bounded, Live
  <2>3. \A f \in Live : ~HasLine(clients[f].in)
    <3>1. CASE Test \/ EnterPoll \/ EndOfRound
      BY <3>1, NoneExtracting DEF Test, EnterPoll, EndOfRound, RefInv
    <3>2. ASSUME NEW fd \in Fd \cup {Listen}, NextEntry(fd)
          PROVE  \A f \in Live : ~HasLine(clients[f].in)
      <4>1. Serving(fd) /\ (fd \in Live => ~HasLine(clients[fd].in))
        BY <3>2 DEF NextEntry, Extracting
      <4> QED
        BY <4>1, OthersExtracted DEF RefInv
    <3> QED
      BY <3>1, <3>2
  <2>4. Extracted'
    BY <2>1, <2>3, NoneIsFine DEF Live
  <2> QED
    BY <2>2, <2>4
<1>3. CASE Stop /\ ~Test
  <2>1. phase' = "stopped" /\ phase' # "stopped"
    BY <1>3 DEF Stop, EnterPoll, EndOfRound, NextEntry, Serving
  <2> QED
    BY <2>1
<1> QED
  BY <1>1, <1>2, <1>3

\* poll() reports POLLHUP with POLLIN, unless the peer is gone.
LEMMA PollReturnsDrained ==
    ASSUME RefInv, PollReturns
    PROVE  Extracted' /\ Drained' /\ Bounded'
<1>1. PICK hangUp \in HangUpOnFin :
         pollFds' = [i \in DOMAIN pollFds |->
                        [pollFds[i] EXCEPT !.revents = Ready(pollFds[i], hangUp)]]
  BY DEF PollReturns
<1>2. phase = "poll" /\ UNCHANGED <<clients, net, sent>>
  BY DEF PollReturns
<1>3. Extracted'
  <2>1. \A f \in Live : ~HasLine(clients[f].in)
    BY <1>2, NoneExtracting DEF RefInv
  <2> QED
    BY <1>2, <2>1, NoneIsFine DEF Live
<1>4. Bounded'
  BY <1>2 DEF RefInv, Bounded, Live
<1>5. Drained'
  <2> SUFFICES ASSUME NEW i \in DOMAIN pollFds', pollFds'[i].fd \in Live'
               PROVE  HupDrained(pollFds'[i].revents, net'[pollFds'[i].fd])
    BY DEF Drained
  <2>1. i \in DOMAIN pollFds /\ pollFds[i] \in Entry
    BY <1>1, Connections, LenProperties, ElementOfSeq DEF RefInv
  <2> DEFINE r == Ready(pollFds[i], hangUp)
  <2>2. pollFds'[i] = [pollFds[i] EXCEPT !.revents = r]
    BY <1>1, <2>1
  <2> HIDE DEF r
  <2>3. pollFds'[i].fd = pollFds[i].fd /\ pollFds'[i].revents = r
    BY <2>1, <2>2 DEF Entry
  <2>4. pollFds[i].fd \in Live /\ pollFds[i].fd # Listen
    BY <1>2, <2>3, Connections, FdAssumption DEF Live, RefInv
  <2>5. HupDrained(r, net[pollFds[i].fd])
    BY <2>4 DEF r, Ready, HupDrained
  <2> QED
    BY <1>2, <2>3, <2>5
<1> QED
  BY <1>3, <1>4, <1>5

\* A new connection has sent nothing yet.
LEMMA AcceptDrained ==
    ASSUME RefInv, AcceptNewClient
    PROVE  Extracted' /\ Drained' /\ Bounded'
<1> DEFINE fds == Served(pollFds, "in")
<1>1. /\ Serving(Listen) /\ pollFds \in Seq(Entry) /\ sent' = sent /\ LoopInv
      /\ Extracted /\ Drained /\ Bounded
  BY Connections DEF AcceptNewClient, RefInv
<1>2. /\ fds \in Seq(Entry) /\ DOMAIN fds = DOMAIN pollFds
      /\ \A i \in DOMAIN pollFds : /\ fds[i].fd = pollFds[i].fd
                                   /\ fds[i].revents \subseteq pollFds[i].revents
                                   /\ i # pos => fds[i] = pollFds[i]
  <2>1. \A i \in DOMAIN pollFds : i # pos => fds[i] = pollFds[i]
    BY DEF Served
  <2> QED
    BY <1>1, <2>1, ServedIs
<1>3. \A f \in Live : ~HasLine(clients[f].in)
  <2>1. Listen \notin Live
    BY <1>1, Connections, FdAssumption
  <2> QED
    BY <1>1, <2>1, OthersExtracted
<1>4. \A i \in DOMAIN fds : fds[i].fd \in Live => HupDrained(fds[i].revents, net[fds[i].fd])
  <2> TAKE i \in DOMAIN fds
  <2>1. CASE i = pos
    <3>1. fds[i].fd = Listen
      BY <1>1, <1>2, <2>1 DEF Serving
    <3> QED
      BY <3>1, <1>1, Connections, FdAssumption
  <2>2. CASE i # pos
    BY <1>1, <1>2, <2>2 DEF Drained
  <2> QED
    BY <2>1, <2>2
<1> HIDE DEF fds
<1>5. ASSUME pollFds' = fds, UNCHANGED <<clients, net>>
      PROVE  Extracted' /\ Drained' /\ Bounded'
  <2>1. Drained' /\ Bounded'
    BY <1>1, <1>4, <1>5 DEF Drained, Bounded, Live
  <2> QED
    BY <1>3, <1>5, <2>1, NoneIsFine DEF Live
<1>6. ASSUME NEW fd \in Fd \ Live,
             pollFds' = Append(fds, [fd |-> fd, events |-> {"in"}, revents |-> {}]),
             clients' = [f \in Live \cup {fd} |->
                            IF f = fd THEN [in |-> << >>, out |-> << >>] ELSE clients[f]],
             net'     = [f \in Live \cup {fd} |->
                            IF f = fd THEN [peer |-> "open", rcv |-> << >>, snd |-> << >>]
                            ELSE net[f]]
      PROVE  Extracted' /\ Drained' /\ Bounded'
  <2>1. Live' = Live \cup {fd}
    BY <1>6 DEF Live
  <2>2. Extracted'
    <3>1. ~HasLine(clients'[fd].in)
      BY <1>6 DEF HasLine
    <3>2. \A f \in Live : clients'[f] = clients[f]
      BY <1>6
    <3> QED
      BY <1>3, <2>1, <3>1, <3>2, NoneIsFine
  <2>3. Bounded'
    <3>1. Len(net'[fd].rcv) = 0 /\ sent \in Nat
      BY <1>1, <1>6, Connections
    <3>2. \A f \in Live : net'[f] = net[f]
      BY <1>6
    <3> QED
      BY <1>1, <2>1, <3>1, <3>2 DEF Bounded
  <2>4. Drained'
    <3> DEFINE e == [fd |-> fd, events |-> {"in"}, revents |-> {}]
    <3>1. e.fd = fd /\ e.revents = {} /\ e \in Entry
      BY <1>6 DEF Entry
    <3>2. pollFds' = Append(fds, e)
      BY <1>6
    <3> HIDE DEF e
    <3>3. \A i \in DOMAIN pollFds' : pollFds'[i] = e \/ (i \in DOMAIN fds /\ pollFds'[i] = fds[i])
      <4>1. /\ Len(pollFds') = Len(fds) + 1 /\ pollFds' \in Seq(Entry)
            /\ pollFds'[Len(fds) + 1] = e
            /\ \A i \in 1..Len(fds) : pollFds'[i] = fds[i]
        BY <1>2, <3>1, <3>2, AppendProperties
      <4>2. Len(fds) \in Nat /\ DOMAIN fds = 1..Len(fds) /\ DOMAIN pollFds' = 1..(Len(fds) + 1)
        BY <1>2, <4>1, LenProperties
      <4> QED
        BY <4>1, <4>2
    <3>4. \A f \in Live : net'[f] = net[f]
      BY <1>6
    <3>5. ASSUME NEW i \in DOMAIN pollFds', pollFds'[i].fd \in Live'
          PROVE  HupDrained(pollFds'[i].revents, net'[pollFds'[i].fd])
      <4>1. CASE pollFds'[i] = e
        BY <3>1, <4>1 DEF HupDrained
      <4>2. CASE i \in DOMAIN fds /\ pollFds'[i] = fds[i]
        <5>1. fds[i].fd # fd
          <6>1. fds[i].fd = pollFds[i].fd /\ i \in DOMAIN pollFds
            BY <1>2, <4>2
          <6>2. pollFds[i].fd \in Live \cup {Listen}
            BY <1>1, <6>1, WhileServing DEF Sound, Matched
          <6> QED
            BY <1>6, <6>1, <6>2, FdAssumption
        <5> QED
          BY <1>4, <2>1, <3>4, <3>5, <4>2, <5>1
      <4> QED
        BY <3>3, <4>1, <4>2
    <3> QED
      BY <3>5 DEF Drained
  <2> QED
    BY <2>2, <2>3, <2>4
<1>7. ~(Fd \subseteq Live) => Min(Fd \ Live) \in Fd \ Live
  <2>1. Live \in SUBSET Fd
    BY <1>1, Connections
  <2> QED
    BY <2>1, FreeDescriptor
<1> QED
  BY <1>5, <1>6, <1>7 DEF AcceptNewClient, fds

\* Of the entries one goes, and the others are what they were.
LEMMA RemovedEntries ==
    ASSUME NEW fds \in Seq(Entry), NEW i \in DOMAIN fds
    PROVE  \A j \in DOMAIN RemoveEntry(fds, i) : \E k \in DOMAIN fds :
              RemoveEntry(fds, i)[j] = fds[k]
<1>1. Len(fds) \in Nat /\ DOMAIN fds = 1..Len(fds)
  BY LenProperties
<1>2. /\ DOMAIN RemoveEntry(fds, i) = 1..(Len(fds) - 1)
      /\ \A j \in 1..(Len(fds) - 1) :
            RemoveEntry(fds, i)[j] = IF j = i THEN fds[Len(fds)] ELSE fds[j]
  BY RemoveEntryIs
<1> DEFINE left == RemoveEntry(fds, i)
<1>3. DOMAIN left = 1..(Len(fds) - 1)
      /\ \A j \in 1..(Len(fds) - 1) : left[j] = IF j = i THEN fds[Len(fds)] ELSE fds[j]
  BY <1>2
<1> HIDE DEF left
<1>4. ASSUME NEW j \in DOMAIN left
      PROVE  \E k \in DOMAIN fds : left[j] = fds[k]
  <2>1. j \in DOMAIN fds /\ Len(fds) \in DOMAIN fds
    BY <1>1, <1>3
  <2> QED
    BY <1>3, <2>1
<1> QED
  BY <1>4 DEF left

\* disconnectClient leaves the other buffers as they are.
LEMMA DisconnectDrained ==
    ASSUME RefInv, NEW fd \in Fd, Serving(fd), Disconnect(fd, clients), sent' = sent
    PROVE  Extracted' /\ Drained' /\ Bounded'
<1>1. /\ pos \in DOMAIN pollFds /\ pollFds \in Seq(Entry)
      /\ LoopInv /\ Extracted /\ Drained /\ Bounded
  BY Connections DEF Serving, RefInv
<1>2. /\ pollFds' = RemoveEntry(pollFds, pos)
      /\ Live' = Live \ {fd}
      /\ \A f \in Live' : clients'[f] = clients[f] /\ net'[f] = net[f]
  BY DEF Disconnect, Live
<1>3. Extracted'
  BY <1>1, <1>2, OthersExtracted, NoneIsFine
<1>4. \A j \in DOMAIN pollFds' : \E k \in DOMAIN pollFds : pollFds'[j] = pollFds[k]
  BY <1>1, <1>2, RemovedEntries
<1>5. Drained' /\ Bounded'
  <2>1. \A j \in DOMAIN pollFds' : \E k \in DOMAIN pollFds :
           /\ pollFds'[j].fd = pollFds[k].fd
           /\ "hup" \in pollFds'[j].revents => "hup" \in pollFds[k].revents
           /\ pollFds[k].fd \in Live /\ "in" \in pollFds[k].revents
                  => "in" \in pollFds'[j].revents
    BY <1>4
  <2>2. Live' \subseteq Live
    BY <1>2
  <2>3. \A f \in Live' : net'[f].peer = net[f].peer /\ net'[f].rcv = net[f].rcv
    BY <1>2
  <2> QED
    BY <1>1, <2>1, <2>2, <2>3, KeptDrained
<1> QED
  BY <1>3, <1>5

\* What a client sends and does not wait for fits one recv(); or poll()
\* reports POLLHUP only when both directions are closed, as on Linux.
OneRecvSuffices == HangUpOnFin = {FALSE} \/ MaxPieces <= Chunk

\* Nobody else is touched: entries are those there were, but for what is
\* reported of fd, and so are the connections.
LEMMA ServedDrained ==
    ASSUME RefInv, NEW fd \in Fd, Serving(fd), sent' = sent, Live' = Live,
           DOMAIN pollFds' = DOMAIN pollFds,
           \A i \in DOMAIN pollFds : pollFds'[i].fd = pollFds[i].fd,
           \A i \in DOMAIN pollFds : i # pos => pollFds'[i].revents = pollFds[i].revents,
           \A f \in Live : f # fd => net'[f] = net[f],
           Len(net'[fd].rcv) <= Len(net[fd].rcv),
           HupDrained(pollFds'[pos].revents, net'[fd])
    PROVE  Drained' /\ Bounded'
<1>1. /\ pos \in DOMAIN pollFds /\ pollFds[pos].fd = fd /\ fd \in Live
      /\ LoopInv /\ Drained /\ Bounded /\ Sound(pollFds, clients, net)
  BY WhileServing, FdAssumption DEF RefInv
<1>2. Bounded'
  <2>1. Len(net[fd].rcv) \in Nat /\ sent \in Nat /\ Len(net[fd].rcv) <= sent
    BY <1>1, Buffers, Connections, LenProperties DEF Bounded
  <2>2. CASE Len(net'[fd].rcv) <= sent
    BY <1>1, <2>2 DEF Bounded
  <2>3. Len(net'[fd].rcv) <= sent
    BY <2>1
  <2> QED
    BY <2>2, <2>3
<1>3. Drained'
  <2> SUFFICES ASSUME NEW i \in DOMAIN pollFds, pollFds[i].fd \in Live
               PROVE  HupDrained(pollFds'[i].revents, net'[pollFds[i].fd])
    BY DEF Drained
  <2>1. CASE i = pos
    BY <1>1, <2>1
  <2>2. CASE i # pos
    <3>1. pollFds[i].fd # fd
      BY <1>1, <2>2 DEF Sound, Matched
    <3> QED
      BY <1>1, <2>2, <3>1 DEF Drained
  <2> QED
    BY <2>1, <2>2
<1> QED
  BY <1>2, <1>3

\* A recv() reads all that a peer which has closed had sent: this is where the
\* hypothesis on the size of a chunk is needed.
LEMMA ReadDrained ==
    ASSUME RefInv, OneRecvSuffices, NEW fd \in Fd, HandleClientRead(fd)
    PROVE  Extracted' /\ Drained' /\ Bounded'
<1> DEFINE rcv == net[fd].rcv
           n   == Least(Chunk, Len(rcv))
<1>1. /\ Serving(fd) /\ pos \in DOMAIN pollFds /\ pollFds[pos].fd = fd /\ fd \in Live
      /\ LoopInv /\ Extracted /\ Drained /\ Bounded /\ sent' = sent /\ phase' = phase
  BY WhileServing, FdAssumption DEF RefInv, HandleClientRead
<1>2. CASE n = 0
  <2>1. Disconnect(fd, clients)
    BY <1>2 DEF HandleClientRead
  <2> QED
    BY <1>1, <2>1, DisconnectDrained
<1>3. CASE n # 0
  <2>1. /\ clients' = [clients EXCEPT ![fd].in = clients[fd].in \o SubSeq(rcv, 1, n)]
        /\ net'     = [net EXCEPT ![fd].rcv = SubSeq(rcv, n + 1, Len(rcv))]
        /\ pollFds' = Served(pollFds, "in")
        /\ pos' = pos
    BY <1>3 DEF HandleClientRead
  <2>2. rcv \in Seq(Piece) /\ Len(rcv) \in Nat /\ net[fd] \in Connection /\ sent \in Nat
        /\ pollFds \in Seq(Entry) /\ net \in [Live -> Connection] /\ clients \in [Live -> Client]
    BY <1>1, Buffers, Connections, LenProperties
  <2>3. n \in Nat /\ n <= Len(rcv) /\ (Len(rcv) <= Chunk => n = Len(rcv))
    BY <2>2, SizeAssumption DEF Least
  <2> HIDE DEF n
  <2> DEFINE rest == SubSeq(rcv, n + 1, Len(rcv))
  <2>4. Len(rest) \in Nat /\ Len(rest) <= Len(rcv) /\ (n = Len(rcv) => rest = << >>)
    <3>1. \A j \in n+1..Len(rcv) : rcv[j] \in Piece
      BY <2>2, <2>3, ElementOfSeq
    <3>2. Len(rest) = IF n + 1 <= Len(rcv) THEN Len(rcv) - (n + 1) + 1 ELSE 0
      BY <2>2, <2>3, <3>1, SubSeqProperties
    <3>3. n = Len(rcv) => rest = << >>
      BY <2>2, <2>3, SubSeqEmpty
    <3> QED
      BY <2>2, <2>3, <3>2, <3>3
  <2> HIDE DEF rest
  <2>5. /\ net'[fd].rcv = rest /\ net'[fd].peer = net[fd].peer
        /\ \A f \in Live : f # fd => net'[f] = net[f]
    BY <1>1, <2>1, <2>2 DEF rest, Connection
  <2>6. /\ Live' = Live
        /\ \A f \in Live : f # fd => clients'[f] = clients[f]
    BY <2>1 DEF Live
  <2>7. /\ DOMAIN pollFds' = DOMAIN pollFds
        /\ \A i \in DOMAIN pollFds : /\ pollFds'[i].fd = pollFds[i].fd
                                     /\ pollFds'[i].revents \subseteq pollFds[i].revents
                                     /\ i = pos => "in" \notin pollFds'[i].revents
                                     /\ i # pos => pollFds'[i] = pollFds[i]
    <3>1. \A i \in DOMAIN pollFds : i # pos => pollFds'[i] = pollFds[i]
      BY <2>1 DEF Served
    <3> QED
      BY <2>1, <2>2, <3>1, ServedIs
  <2>8. Extracted'
    <3> SUFFICES ASSUME NEW f \in Live, HasLine(clients'[f].in)
                 PROVE  f = fd
      BY <1>1, <2>1, <2>6, <2>7 DEF Extracted, Serving, Reported
    <3> QED
      BY <1>1, <2>6, OthersExtracted
  <2>9. HupDrained(pollFds'[pos].revents, net'[fd])
    <3> SUFFICES ASSUME "hup" \in pollFds'[pos].revents, net[fd].peer # "gone"
                 PROVE  TRUE \in HangUpOnFin /\ net[fd].peer # "open" /\ rest = << >>
      BY <2>5 DEF HupDrained
    <3>1. TRUE \in HangUpOnFin /\ net[fd].peer # "open"
      BY <1>1, <2>7 DEF Drained, HupDrained
    <3>2. MaxPieces <= Chunk
      BY <3>1 DEF OneRecvSuffices
    <3>3. Len(rcv) <= sent /\ sent <= MaxPieces
      BY <1>1 DEF Bounded
    <3>4. Len(rcv) <= Chunk
      BY <2>2, <3>2, <3>3, SizeAssumption, BoundAssumption
    <3> QED
      BY <2>3, <2>4, <3>1, <3>4
  <2>10. Drained' /\ Bounded'
    <3>1. Len(net'[fd].rcv) <= Len(net[fd].rcv)
      BY <2>4, <2>5
    <3> QED
      BY <1>1, <2>5, <2>6, <2>7, <2>9, <3>1, ServedDrained
  <2> QED
    BY <2>8, <2>10
<1> QED
  BY <1>2, <1>3

\* Executing a line takes one off its buffer and adds none to another.
LEMMA ExtractDrained ==
    ASSUME RefInv, NEW fd \in Fd, ExtractCommand(fd)
    PROVE  Extracted' /\ Drained' /\ Bounded'
<1> DEFINE buf    == clients[fd].in
           k      == Min({j \in DOMAIN buf : buf[j].kind # "part"})
           to     == IF buf[k].kind = "echo" THEN {fd} ELSE Live \ {fd}
           rest   == SubSeq(buf, k + 1, Len(buf))
           cl     == [clients EXCEPT ![fd].in = rest]
           told   == Tell(cl, to, buf[k])
           wanted == EnableWrite(pollFds, to)
<1>1. /\ Serving(fd) /\ pos \in DOMAIN pollFds /\ pollFds[pos].fd = fd /\ fd \in Live
      /\ LoopInv /\ Extracted /\ Drained /\ Bounded /\ sent' = sent
      /\ phase' = phase /\ pos' = pos /\ HasLine(buf)
      /\ pollFds \in Seq(Entry) /\ clients \in [Live -> Client]
  BY WhileServing, FdAssumption, Connections DEF RefInv, ExtractCommand, Extracting
<1>2. /\ ~(buf[k].kind = "quit") =>
            pollFds' = wanted /\ clients' = told /\ net' = net
      /\ buf[k].kind = "quit" =>
            /\ pollFds' = RemoveEntry(wanted, pos)
            /\ clients' = [f \in Live \ {fd} |-> told[f]]
            /\ net'     = [f \in Live \ {fd} |-> net[f]]
  BY DEF ExtractCommand
<1> HIDE DEF to, rest, k
<1>3. \A f \in Live : f # fd => told[f].in = clients[f].in
  <2> SUFFICES ASSUME NEW f \in Live, f # fd PROVE told[f].in = clients[f].in
    OBVIOUS
  <2>1. cl[f] = clients[f] /\ cl[f] \in Client
    BY <1>1
  <2> HIDE DEF cl
  <2>2. told[f].in = cl[f].in
    BY <2>1 DEF Tell, Client
  <2> QED
    BY <2>1, <2>2
<1>4. DOMAIN told = Live
  BY DEF Tell
<1>5. /\ wanted \in Seq(Entry) /\ DOMAIN wanted = DOMAIN pollFds
      /\ \A i \in DOMAIN pollFds : /\ wanted[i].fd = pollFds[i].fd
                                   /\ wanted[i].revents = pollFds[i].revents
  BY <1>1, EnableWriteIs
<1>6. "in" \notin pollFds[pos].revents
  BY <1>1 DEF Extracted, Reported
<1> HIDE DEF wanted, told
<1>7. /\ Live' \subseteq Live
      /\ \A f \in Live' : net'[f] = net[f]
      /\ \A f \in Live' : f # fd => clients'[f].in = clients[f].in
      /\ buf[k].kind = "quit" => fd \notin Live'
  BY <1>2, <1>3, <1>4 DEF Live
<1>8. Extracted'
  <2> SUFFICES ASSUME NEW f \in Live', HasLine(clients'[f].in)
               PROVE  Serving(f)' /\ ~Reported("in")'
    BY DEF Extracted
  <2>1. f = fd
    BY <1>1, <1>7, OthersExtracted
  <2>2. pollFds' = wanted
    BY <1>2, <1>7, <2>1
  <2> QED
    BY <1>1, <1>5, <1>6, <2>1, <2>2 DEF Serving, Reported
<1>9. \A j \in DOMAIN pollFds' : \E i \in DOMAIN pollFds :
         pollFds'[j].fd = pollFds[i].fd /\ pollFds'[j].revents = pollFds[i].revents
  <2>1. CASE buf[k].kind = "quit"
    <3>1. \A j \in DOMAIN pollFds' : \E i \in DOMAIN wanted : pollFds'[j] = wanted[i]
      BY <1>1, <1>2, <1>5, <2>1, RemovedEntries
    <3> QED
      BY <1>5, <3>1
  <2>2. CASE buf[k].kind # "quit"
    BY <1>2, <1>5, <2>2
  <2> QED
    BY <2>1, <2>2
<1>10. Drained' /\ Bounded'
  <2>1. \A j \in DOMAIN pollFds' : \E i \in DOMAIN pollFds :
           /\ pollFds'[j].fd = pollFds[i].fd
           /\ "hup" \in pollFds'[j].revents => "hup" \in pollFds[i].revents
           /\ pollFds[i].fd \in Live /\ "in" \in pollFds[i].revents
                  => "in" \in pollFds'[j].revents
    BY <1>9
  <2>2. \A f \in Live' : net'[f].peer = net[f].peer /\ net'[f].rcv = net[f].rcv
    BY <1>7
  <2> QED
    BY <1>1, <1>7, <2>1, <2>2, KeptDrained
<1> QED
  BY <1>8, <1>10

\* send() reads nothing.
LEMMA FlushDrained ==
    ASSUME RefInv, NEW fd \in Fd, FlushClientWrite(fd)
    PROVE  Extracted' /\ Drained' /\ Bounded'
<1> DEFINE out  == clients[fd].out
           n    == Least(Chunk, Least(Len(out), Room(fd)))
           rest == Unsent(out, n)
           fds  == Served(pollFds, "out")
<1>1. /\ Serving(fd) /\ pos \in DOMAIN pollFds /\ pollFds[pos].fd = fd /\ fd \in Live
      /\ LoopInv /\ Extracted /\ Drained /\ Bounded /\ sent' = sent /\ phase' = phase
      /\ pollFds \in Seq(Entry) /\ clients \in [Live -> Client] /\ net \in [Live -> Connection]
  BY WhileServing, FdAssumption, Connections DEF RefInv, FlushClientWrite
<1>2. /\ fds \in Seq(Entry) /\ DOMAIN fds = DOMAIN pollFds
      /\ \A i \in DOMAIN pollFds : /\ fds[i].fd = pollFds[i].fd
                                   /\ fds[i].revents = pollFds[i].revents \ {"out"} \/ i # pos
                                   /\ i # pos => fds[i] = pollFds[i]
  <2>1. \A i \in DOMAIN pollFds : i # pos => fds[i] = pollFds[i]
    BY DEF Served
  <2>2. fds[pos].revents = pollFds[pos].revents \ {"out"}
    <3>1. pollFds[pos] \in Entry
      BY <1>1, LenProperties, ElementOfSeq
    <3> DEFINE e == [pollFds[pos] EXCEPT !.revents = @ \ {"out"}]
    <3>2. e.revents = pollFds[pos].revents \ {"out"}
      BY <3>1 DEF Entry
    <3>3. fds[pos] = e
      BY <1>1 DEF Served
    <3> HIDE DEF e
    <3> QED
      BY <3>2, <3>3
  <2> QED
    BY <1>1, <2>1, <2>2, ServedIs
<1> HIDE DEF fds
<1>3. \A f \in Live : ~HasLine(clients[f].in)
  BY <1>1, OthersExtracted DEF FlushClientWrite, Extracting
<1>4. ASSUME DOMAIN pollFds' = DOMAIN fds, Live' = Live,
             \A i \in DOMAIN fds : /\ pollFds'[i].fd = fds[i].fd
                                    /\ pollFds'[i].revents = fds[i].revents,
             \A f \in Live : /\ clients'[f].in = clients[f].in
                             /\ net'[f].rcv = net[f].rcv /\ net'[f].peer = net[f].peer
      PROVE  Extracted' /\ Drained' /\ Bounded'
  <2>1. Extracted'
    BY <1>3, <1>4, NoneIsFine
  <2>2. \A j \in DOMAIN pollFds' : \E i \in DOMAIN pollFds :
           /\ pollFds'[j].fd = pollFds[i].fd
           /\ "hup" \in pollFds'[j].revents => "hup" \in pollFds[i].revents
           /\ pollFds[i].fd \in Live /\ "in" \in pollFds[i].revents
                  => "in" \in pollFds'[j].revents
    BY <1>2, <1>4
  <2>3. \A f \in Live' : net'[f].peer = net[f].peer /\ net'[f].rcv = net[f].rcv
    BY <1>4
  <2> QED
    BY <1>1, <1>4, <2>1, <2>2, <2>3, KeptDrained
<1>5. CASE out = << >>
  <2>1. pollFds' = fds /\ UNCHANGED <<clients, net>>
    BY <1>5 DEF FlushClientWrite, fds
  <2> QED
    BY <1>2, <1>4, <2>1 DEF Live
<1>6. CASE out # << >> /\ (net[fd].peer = "gone" \/ n = 0)
  <2>1. Disconnect(fd, clients)
    BY <1>6 DEF FlushClientWrite
  <2> QED
    BY <1>1, <2>1, DisconnectDrained
<1>7. CASE out # << >> /\ net[fd].peer # "gone" /\ n # 0
  <2>1. /\ net'     = [net EXCEPT ![fd].snd = net[fd].snd \o SubSeq(out, 1, n)]
        /\ clients' = [clients EXCEPT ![fd].out = rest]
        /\ pollFds' = [fds EXCEPT ![pos].events = IF rest = << >> THEN {"in"} ELSE @]
    BY <1>7 DEF FlushClientWrite, fds
  <2> HIDE DEF n, rest
  <2> DEFINE snd == net[fd].snd \o SubSeq(out, 1, n)
  <2>2. Live' = Live
    BY <2>1 DEF Live
  <2>3. net' = [net EXCEPT ![fd].snd = snd]
    BY <2>1
  <2> HIDE DEF snd
  <2>4. \A f \in Live : /\ clients'[f].in = clients[f].in
                        /\ net'[f].rcv = net[f].rcv /\ net'[f].peer = net[f].peer
    BY <1>1, <2>1, <2>3 DEF Client, Connection
  <2>5. \A i \in DOMAIN fds : fds[i] \in Entry
    BY <1>2, LenProperties, ElementOfSeq
  <2>6. /\ DOMAIN pollFds' = DOMAIN fds
        /\ \A i \in DOMAIN fds : /\ pollFds'[i].fd = fds[i].fd
                                 /\ pollFds'[i].revents = fds[i].revents
    <3>1. DOMAIN pollFds' = DOMAIN fds
      BY <2>1
    <3>2. \A i \in DOMAIN fds : i # pos => pollFds'[i] = fds[i]
      BY <2>1
    <3>3. pollFds'[pos].fd = fds[pos].fd /\ pollFds'[pos].revents = fds[pos].revents
      BY <1>1, <1>2, <2>1, <2>5 DEF Entry
    <3> QED
      BY <3>1, <3>2, <3>3
  <2> QED
    BY <1>4, <2>2, <2>4, <2>6
<1> QED
  BY <1>5, <1>6, <1>7

\* Peers send only while they are open, and so nothing after a hang-up.
LEMMA PeersDrained ==
    ASSUME RefInv, NEW fd \in Fd, PeerStep(fd)
    PROVE  Extracted' /\ Drained' /\ Bounded'
<1>1. /\ LoopInv /\ Extracted /\ Drained /\ Bounded
      /\ clients \in [Live -> Client] /\ net \in [Live -> Connection] /\ sent \in Nat
  BY Connections DEF RefInv
<1>2. /\ fd \in Live
      /\ UNCHANGED <<phase, pos, pollFds, clients>>
  BY DEF PeerStep, PeerSends, PeerReads, PeerHalfCloses, PeerBreaks, server
<1>3. Extracted'
  BY <1>1, <1>2 DEF Extracted, Serving, Reported, Live
<1>4. /\ net[fd].rcv \in Seq(Piece) /\ Len(net[fd].rcv) \in Nat /\ net[fd] \in Connection
  BY <1>1, <1>2, Buffers, LenProperties
<1>5. ASSUME NEW kind \in Kind, PeerSends(fd, kind)
      PROVE  Extracted' /\ Drained' /\ Bounded'
  <2> DEFINE p == [kind |-> kind, id |-> sent + 1]
             r == Append(net[fd].rcv, p)
  <2>1. p \in Piece
    BY <1>1, KindAssumption DEF Piece
  <2>2. /\ net' = [net EXCEPT ![fd].rcv = r]
        /\ net[fd].peer = "open" /\ sent' = sent + 1 /\ sent < MaxPieces
    BY <1>5 DEF PeerSends
  <2>3. Len(r) = Len(net[fd].rcv) + 1
    BY <1>4, <2>1, AppendProperties
  <2> HIDE DEF r
  <2>4. /\ net'[fd].rcv = r /\ net'[fd].peer = "open"
        /\ \A f \in Live : f # fd => net'[f] = net[f]
    BY <1>1, <1>2, <1>4, <2>2 DEF Connection
  <2>5. \A f \in Live : Len(net[f].rcv) \in Nat /\ Len(net[f].rcv) <= sent
    BY <1>1, Buffers, LenProperties DEF Bounded
  <2>6. Bounded'
    <3>1. sent + 1 <= MaxPieces
      BY <1>1, <2>2, BoundAssumption
    <3>2. \A f \in Live : Len(net'[f].rcv) <= sent + 1
      <4> TAKE f \in Live
      <4>1. CASE f = fd
        BY <1>1, <2>3, <2>4, <2>5, <4>1
      <4>2. CASE f # fd
        BY <1>1, <2>4, <2>5, <4>2
      <4> QED
        BY <4>1, <4>2
    <3> QED
      BY <1>2, <2>2, <3>1, <3>2 DEF Bounded, Live
  <2>7. Drained'
    <3> SUFFICES ASSUME NEW i \in DOMAIN pollFds, pollFds[i].fd \in Live
                 PROVE  HupDrained(pollFds[i].revents, net'[pollFds[i].fd])
      BY <1>2 DEF Drained, Live
    <3>1. HupDrained(pollFds[i].revents, net[pollFds[i].fd])
      BY <1>1 DEF Drained
    <3> QED
      BY <2>2, <2>4, <3>1 DEF HupDrained
  <2> QED
    BY <1>3, <2>6, <2>7
<1>6. ASSUME \A f \in Live : /\ net'[f].rcv = net[f].rcv
                             /\ net[f].peer # "open" => net'[f].peer # "open"
                             /\ net[f].peer = "gone" => net'[f].peer = "gone",
             sent' = sent
      PROVE  Extracted' /\ Drained' /\ Bounded'
  BY <1>1, <1>2, <1>3, <1>6 DEF Drained, Bounded, HupDrained, Live
<1>7. CASE PeerReads(fd)
  <2> DEFINE rest == Tail(net[fd].snd)
  <2>1. net' = [net EXCEPT ![fd].snd = rest] /\ sent' = sent
    BY <1>7 DEF PeerReads
  <2> HIDE DEF rest
  <2>2. \A f \in Live : net'[f].rcv = net[f].rcv /\ net'[f].peer = net[f].peer
    BY <1>1, <2>1 DEF Connection
  <2> QED
    BY <1>6, <2>1, <2>2
<1>8. ASSUME NEW peer \in {"half", "gone"}, net[fd].peer = "gone" => peer = "gone",
             net' = [net EXCEPT ![fd].peer = peer], sent' = sent
      PROVE  Extracted' /\ Drained' /\ Bounded'
  <2>1. \A f \in Live : /\ net'[f].rcv = net[f].rcv
                        /\ net'[f].peer = IF f = fd THEN peer ELSE net[f].peer
    BY <1>1, <1>8 DEF Connection
  <2> QED
    BY <1>6, <1>8, <2>1
<1>9. CASE PeerHalfCloses(fd)
  BY <1>8, <1>9 DEF PeerHalfCloses
<1>10. CASE PeerBreaks(fd)
  BY <1>8, <1>10 DEF PeerBreaks
<1> QED
  BY <1>5, <1>7, <1>9, <1>10 DEF PeerStep

\* What the refinement needs holds at the start.
LEMMA RefInit ==
    ASSUME Init
    PROVE  RefInv
<1>1. LoopInv
  BY LoopInit
<1>2. Live = {} /\ sent = 0 /\ MaxPieces \in Nat
  BY BoundAssumption DEF Init, Live
<1>3. sent <= MaxPieces
  BY <1>2
<1> QED
  BY <1>1, <1>2, <1>3 DEF RefInv, Extracted, Drained, Bounded

\* What the refinement needs is kept by every step.
LEMMA RefNext ==
    ASSUME OneRecvSuffices, RefInv, [Next]_vars
    PROVE  RefInv'
<1>1. LoopInv'
  BY LoopNext DEF RefInv
<1>2. CASE UNCHANGED <<phase, pos, pollFds, clients, net, sent>>
  BY <1>1, <1>2 DEF RefInv, Extracted, Drained, Bounded, Serving, Reported, Live
<1>3. CASE Test \/ EnterPoll \/ EndOfRound \/ \E fd \in Fd \cup {Listen} : NextEntry(fd)
  BY <1>1, <1>3, BetweenRoundsDrained DEF RefInv
<1>4. CASE PollReturns
  BY <1>1, <1>4, PollReturnsDrained DEF RefInv
<1>5. CASE AcceptNewClient
  BY <1>1, <1>5, AcceptDrained DEF RefInv
<1>6. ASSUME NEW fd \in Fd, ServeError(fd) \/ HangUp(fd)
      PROVE  RefInv'
  BY <1>1, <1>6, DisconnectDrained DEF RefInv, ServeError, HangUp
<1>7. ASSUME NEW fd \in Fd, HandleClientRead(fd)
      PROVE  RefInv'
  BY <1>1, <1>7, ReadDrained DEF RefInv
<1>8. ASSUME NEW fd \in Fd, ExtractCommand(fd)
      PROVE  RefInv'
  BY <1>1, <1>8, ExtractDrained DEF RefInv
<1>9. ASSUME NEW fd \in Fd, FlushClientWrite(fd)
      PROVE  RefInv'
  BY <1>1, <1>9, FlushDrained DEF RefInv
<1>10. ASSUME NEW fd \in Fd, PeerStep(fd)
       PROVE  RefInv'
  BY <1>1, <1>10, PeersDrained DEF RefInv
<1>11. CASE SignalHandler
  <2>1. CASE phase = "poll"
    BY <1>1, <1>11, <2>1, StopDrained DEF SignalHandler, RefInv
  <2>2. CASE phase # "poll"
    BY <1>2, <1>11, <2>2 DEF SignalHandler
  <2> QED
    BY <2>1, <2>2
<1>12. CASE PeerConnects \/ UNCHANGED vars
  BY <1>2, <1>12 DEF PeerConnects, server, vars
<1> QED
  BY <1>3, <1>4, <1>5, <1>6, <1>7, <1>8, <1>9, <1>10, <1>11, <1>12 DEF Next, ServerStep

-----------------------------------------------------------------------------
(* The refinement: what a step is to LineServer *)

Same(fd) ==
    /\ net'[fd].peer = net[fd].peer
    /\ Unexecuted(fd)' = Unexecuted(fd)
    /\ Unread(fd)' = Unread(fd)

Running == phase # "stopped"

\* A connection of which neither end moves looks the same to LineServer.
LEMMA UntouchedIsSame ==
    ASSUME NEW fd, clients'[fd] = clients[fd], net'[fd] = net[fd]
    PROVE  Same(fd)
BY DEF Same, Unexecuted, Unread

\* If no connection looks different, it is a stuttering step.
LEMMA StutterIs ==
    ASSUME Live' = Live, Running' = Running, \A f \in Live : Same(f)
    PROVE  UNCHANGED Lines!vars
BY DEF Lines!vars, Same, Running

\* The end of run() is LineServer's.
LEMMA StopIs ==
    ASSUME Running, ~Running', Live' = {}
    PROVE  Lines!Stop
BY DEF Lines!Stop, Lines!Empty, Running

\* A connection with empty queues appears.
LEMMA OpenIs ==
    ASSUME NEW fd \in Fd \ Live, Running, Running', Live' = Live \cup {fd},
           \A f \in Live : Same(f),
           net'[fd].peer = "open", Unexecuted(fd)' = << >>, Unread(fd)' = << >>
    PROVE  Lines!Open(fd)
BY DEF Lines!Open, Lines!Connected, Same, Running

\* A connection disappears after its peer, and with no line left if the peer
\* waits for answers.
LEMMA CloseIs ==
    ASSUME NEW fd \in Live, Live' = Live \ {fd}, Running' = Running, \A f \in Live' : Same(f),
           net[fd].peer # "open", net[fd].peer = "half" => Unexecuted(fd) = << >>
    PROVE  Lines!Close(fd)
BY DEF Lines!Close, Lines!Without, Lines!Connected, Same, Running

\* A peer shuts its direction down.
LEMMA FinishIs ==
    ASSUME NEW fd \in Live, Live' = Live, Running' = Running,
           \A f \in Live : Unexecuted(f)' = Unexecuted(f) /\ Unread(f)' = Unread(f),
           \A f \in Live : f # fd => net'[f].peer = net[f].peer,
           net[fd].peer = "open", net'[fd].peer = "half"
    PROVE  Lines!Finish(fd)
BY DEF Lines!Finish, Lines!Connected, Running

\* A peer goes.
LEMMA GoIs ==
    ASSUME NEW fd \in Live, Live' = Live, Running' = Running,
           \A f \in Live : Unexecuted(f)' = Unexecuted(f) /\ Unread(f)' = Unread(f),
           \A f \in Live : f # fd => net'[f].peer = net[f].peer,
           net[fd].peer # "gone", net'[fd].peer = "gone"
    PROVE  Lines!Go(fd)
BY DEF Lines!Go, Lines!Connected, Running

\* A line appears at the end of a queue.
LEMMA SendIs ==
    ASSUME NEW fd \in Live, NEW line, Live' = Live, Running' = Running,
           \A f \in Live : net'[f].peer = net[f].peer /\ Unread(f)' = Unread(f),
           \A f \in Live : f # fd => Unexecuted(f)' = Unexecuted(f),
           net[fd].peer = "open", Unexecuted(fd)' = Append(Unexecuted(fd), line)
    PROVE  Lines!Send(fd, line)
BY DEF Lines!Send, Lines!Connected, Running

\* A message is taken from the front of the mail.
LEMMA TakeIs ==
    ASSUME NEW fd \in Live, Live' = Live, Running' = Running,
           \A f \in Live : net'[f].peer = net[f].peer /\ Unexecuted(f)' = Unexecuted(f),
           \A f \in Live : f # fd => Unread(f)' = Unread(f),
           net[fd].peer # "gone", Unread(fd) # << >>, Unread(fd)' = Tail(Unread(fd))
    PROVE  Lines!Take(fd)
BY DEF Lines!Take, Lines!Connected, Running

\* The line of fd is told to those in to.
ToldOf(line, to, f) ==
    Unread(f)' = IF f \in to THEN Append(Unread(f), line) ELSE Unread(f)

\* A line is executed that answers its sender.
LEMMA EchoIs ==
    ASSUME NEW fd \in Live, NEW line, line.kind = "echo",
           Unexecuted(fd) # << >>, Head(Unexecuted(fd)) = line,
           Unexecuted(fd)' = Tail(Unexecuted(fd)),
           Live' = Live, Running' = Running,
           \A f \in Live : net'[f].peer = net[f].peer /\ ToldOf(line, {fd}, f),
           \A f \in Live : f # fd => Unexecuted(f)' = Unexecuted(f)
    PROVE  Lines!Execute(fd)
<1>1. Lines!Echo(fd)
  BY DEF Lines!Echo, ToldOf, Running
<1> QED
  BY <1>1 DEF Lines!Execute, Lines!Connected

\* A line is executed that tells everyone else.
LEMMA CastIs ==
    ASSUME NEW fd \in Live, NEW line, line.kind = "cast",
           Unexecuted(fd) # << >>, Head(Unexecuted(fd)) = line,
           Unexecuted(fd)' = Tail(Unexecuted(fd)),
           Live' = Live, Running' = Running,
           \A f \in Live : net'[f].peer = net[f].peer /\ ToldOf(line, Live \ {fd}, f),
           \A f \in Live : f # fd => Unexecuted(f)' = Unexecuted(f)
    PROVE  Lines!Execute(fd)
<1>1. Lines!Cast(fd)
  BY DEF Lines!Cast, Lines!Told, Lines!Connected, ToldOf, Running
<1> QED
  BY <1>1 DEF Lines!Execute, Lines!Connected

\* A line is executed that ends its connection.
LEMMA QuitIs ==
    ASSUME NEW fd \in Live, NEW line, line.kind = "quit",
           Unexecuted(fd) # << >>, Head(Unexecuted(fd)) = line,
           Live' = Live \ {fd}, Running' = Running,
           \A f \in Live' : net'[f].peer = net[f].peer /\ ToldOf(line, Live \ {fd}, f),
           \A f \in Live' : Unexecuted(f)' = Unexecuted(f)
    PROVE  Lines!Execute(fd)
<1>1. Lines!Quit(fd)
  BY DEF Lines!Quit, Lines!Without, Lines!Told, Lines!Connected, ToldOf, Running
<1> QED
  BY <1>1 DEF Lines!Execute, Lines!Connected

-----------------------------------------------------------------------------
(* The refinement: step by step *)

LinesStep == [Lines!Next]_(Lines!vars)

\* The steps of run() around the handlers are none of LineServer's.
LEMMA BetweenRoundsRefines ==
    ASSUME RefInv, \/ Test \/ EnterPoll \/ EndOfRound \/ PollReturns
                   \/ \E fd \in Fd \cup {Listen} : NextEntry(fd)
    PROVE  LinesStep
<1>1. CASE Test /\ Stop
  <2>1. Lines!Stop
    BY <1>1, StopIs DEF Test, Stop, Running, Live
  <2> QED
    BY <2>1 DEF LinesStep, Lines!Next
<1>2. CASE ~(Test /\ Stop)
  <2>1. UNCHANGED <<clients, net>> /\ Running' = Running
    BY <1>2 DEF Test, EnterPoll, EndOfRound, PollReturns, NextEntry, Serving, Running
  <2>2. Live' = Live /\ \A f \in Live : Same(f)
    BY <2>1, UntouchedIsSame DEF Live
  <2> QED
    BY <2>1, <2>2, StutterIs DEF LinesStep
<1> QED
  BY <1>1, <1>2

\* accept() opens a connection, or nothing happens.
LEMMA AcceptRefines ==
    ASSUME RefInv, AcceptNewClient
    PROVE  LinesStep
<1>1. Running /\ Running' /\ Live \in SUBSET Fd
  BY Connections DEF AcceptNewClient, Serving, Running, RefInv
<1>2. CASE UNCHANGED <<clients, net>>
  <2>1. Live' = Live /\ \A f \in Live : Same(f)
    BY <1>2, UntouchedIsSame DEF Live
  <2> QED
    BY <1>1, <2>1, StutterIs DEF LinesStep
<1>3. ASSUME NEW fd \in Fd \ Live,
             clients' = [f \in Live \cup {fd} |->
                            IF f = fd THEN [in |-> << >>, out |-> << >>] ELSE clients[f]],
             net'     = [f \in Live \cup {fd} |->
                            IF f = fd THEN [peer |-> "open", rcv |-> << >>, snd |-> << >>]
                            ELSE net[f]]
      PROVE  LinesStep
  <2>1. Live' = Live \cup {fd}
    BY <1>3 DEF Live
  <2>2. \A f \in Live : clients'[f] = clients[f] /\ net'[f] = net[f]
    BY <1>3
  <2>3. /\ clients'[fd].in = << >> /\ clients'[fd].out = << >>
        /\ net'[fd].rcv = << >> /\ net'[fd].snd = << >> /\ net'[fd].peer = "open"
    BY <1>3
  <2>4. << >> \o << >> = << >>
    OBVIOUS
  <2>5. Unexecuted(fd)' = << >> /\ Unread(fd)' = << >>
    BY <2>3, <2>4, LinesOfNone DEF Unexecuted, Unread
  <2>6. \A f \in Live : Same(f)
    BY <2>2, UntouchedIsSame
  <2>7. Lines!Open(fd)
    BY <1>1, <1>3, <2>1, <2>3, <2>5, <2>6, OpenIs
  <2> QED
    BY <2>7 DEF LinesStep, Lines!Next
<1>4. ~(Fd \subseteq Live) => Min(Fd \ Live) \in Fd \ Live
  BY <1>1, FreeDescriptor
<1> QED
  BY <1>2, <1>3, <1>4 DEF AcceptNewClient

\* A connection is closed that has ended, with nothing left to execute.
LEMMA DisconnectRefines ==
    ASSUME RefInv, NEW fd \in Live, Disconnect(fd, clients), phase' = phase,
           net[fd].peer # "open", net[fd].peer = "half" => Unexecuted(fd) = << >>
    PROVE  LinesStep
<1>1. Live' = Live \ {fd} /\ Running' = Running /\ fd \in Fd
  BY Connections DEF Disconnect, Live, Running, RefInv
<1>2. \A f \in Live' : clients'[f] = clients[f] /\ net'[f] = net[f]
  BY DEF Disconnect, Live
<1>3. Lines!Close(fd)
  BY <1>1, <1>2, UntouchedIsSame, CloseIs
<1> QED
  BY <1>1, <1>3 DEF LinesStep, Lines!Next

\* Nothing received, nothing on its way: nothing to execute.
LEMMA NothingLeft ==
    ASSUME LoopInv, NEW fd \in Live, ~HasLine(clients[fd].in), net[fd].rcv = << >>
    PROVE  Unexecuted(fd) = << >>
<1>1. clients[fd].in \in Seq(Piece)
  BY Buffers
<1>2. clients[fd].in \o << >> = clients[fd].in
  BY <1>1, ConcatEmptySeq
<1> QED
  BY <1>1, <1>2, NoLine DEF Unexecuted

\* POLLERR and POLLHUP: the first means a reset, the second comes last, when
\* all that the peer sent before it closed has been read and executed.
LEMMA HangUpRefines ==
    ASSUME RefInv, NEW fd \in Fd, ServeError(fd) \/ HangUp(fd)
    PROVE  LinesStep
<1>1. /\ Serving(fd) /\ Disconnect(fd, clients) /\ phase' = phase
  BY DEF ServeError, HangUp
<1>2. /\ pos \in DOMAIN pollFds /\ pollFds[pos].fd = fd /\ fd \in Live
      /\ LoopInv /\ Sound(pollFds, clients, net)
      /\ HupDrained(pollFds[pos].revents, net[fd])
  BY <1>1, WhileServing, FdAssumption DEF RefInv, Drained
<1>3. \A flag : Reported(flag) => Reports(flag, net[fd])
  BY <1>2 DEF Reported, Sound, FlagsTrue, Live
<1>4. net[fd].peer # "open"
  BY <1>3 DEF ServeError, HangUp, Reports
<1>5. net[fd].peer = "half" => Unexecuted(fd) = << >>
  <2> SUFFICES ASSUME net[fd].peer = "half" PROVE Unexecuted(fd) = << >>
    OBVIOUS
  <2>1. HangUp(fd)
    BY <1>3 DEF ServeError, Reports
  <2>2. net[fd].rcv = << >> /\ ~HasLine(clients[fd].in)
    BY <1>2, <2>1 DEF HangUp, Reported, Extracting, HupDrained
  <2> QED
    BY <1>2, <2>2, NothingLeft
<1> QED
  BY <1>1, <1>2, <1>4, <1>5, DisconnectRefines

\* recv() moves what is on its way into the buffer; 0 means the end.
LEMMA ReadRefines ==
    ASSUME RefInv, NEW fd \in Fd, HandleClientRead(fd)
    PROVE  LinesStep
<1> DEFINE rcv == net[fd].rcv
           buf == clients[fd].in
           n   == Least(Chunk, Len(rcv))
<1>1. /\ Serving(fd) /\ fd \in Live /\ LoopInv /\ Reported("in") /\ phase' = phase
      /\ Reports("in", net[fd]) /\ ~HasLine(buf)
  <2>1. Serving(fd) /\ fd \in Live /\ LoopInv /\ Reported("in") /\ phase' = phase
    BY WhileServing, FdAssumption DEF RefInv, HandleClientRead
  <2>2. Reports("in", net[fd])
    BY <2>1, WhileServing, FdAssumption DEF Reported, Sound, FlagsTrue, Live
  <2> QED
    BY <2>1, <2>2 DEF RefInv, Extracted
<1>2. /\ rcv \in Seq(Piece) /\ Len(rcv) \in Nat /\ net[fd] \in Connection /\ buf \in Seq(Piece)
      /\ net \in [Live -> Connection] /\ clients \in [Live -> Client]
  BY <1>1, Buffers, Connections, LenProperties
<1>3. CASE n = 0
  <2>1. Disconnect(fd, clients)
    BY <1>3 DEF HandleClientRead
  <2>2. rcv = << >>
    BY <1>2, <1>3, EmptySeq, SizeAssumption DEF Least
  <2>3. Unexecuted(fd) = << >> /\ net[fd].peer # "open"
    BY <1>1, <2>2, NothingLeft DEF Reports
  <2> QED
    BY <1>1, <2>1, <2>3, DisconnectRefines
<1>4. CASE n # 0
  <2> DEFINE now  == SubSeq(rcv, 1, n)
             rest == SubSeq(rcv, n + 1, Len(rcv))
             more == buf \o now
  <2>1. /\ clients' = [clients EXCEPT ![fd].in = more]
        /\ net'     = [net EXCEPT ![fd].rcv = rest]
    BY <1>4 DEF HandleClientRead
  <2>2. n \in Nat /\ n <= Len(rcv) /\ n >= 1
    BY <1>2, <1>4, SizeAssumption DEF Least
  <2> HIDE DEF n
  <2>3. n \in 1..Len(rcv)
    BY <1>2, <2>2
  <2>4. buf \o rcv = more \o rest
    BY <1>2, <2>3, Moved
  <2> HIDE DEF now, rest, more
  <2>5. /\ clients'[fd].in = more /\ clients'[fd].out = clients[fd].out
        /\ net'[fd].rcv = rest /\ net'[fd].snd = net[fd].snd /\ net'[fd].peer = net[fd].peer
        /\ \A f \in Live : f # fd => clients'[f] = clients[f] /\ net'[f] = net[f]
        /\ Live' = Live
    BY <1>1, <1>2, <2>1 DEF Client, Connection, Live
  <2>6. Same(fd)
    BY <2>4, <2>5 DEF Same, Unexecuted, Unread
  <2>7. \A f \in Live : Same(f)
    BY <2>5, <2>6, UntouchedIsSame
  <2>8. Running' = Running
    BY <1>1 DEF Running
  <2> QED
    BY <2>5, <2>7, <2>8, StutterIs DEF LinesStep
<1> QED
  BY <1>3, <1>4

\* send() moves what waits in the buffer into the kernel.
LEMMA FlushRefines ==
    ASSUME RefInv, NEW fd \in Fd, FlushClientWrite(fd)
    PROVE  LinesStep
<1> DEFINE out  == clients[fd].out
           sndq == net[fd].snd
           n    == Least(Chunk, Least(Len(out), Room(fd)))
<1>1. /\ Serving(fd) /\ fd \in Live /\ LoopInv /\ Reported("out") /\ phase' = phase
  BY WhileServing, FdAssumption DEF RefInv, FlushClientWrite
<1>2. /\ out \in Seq(Piece) /\ Len(out) \in Nat /\ net[fd] \in Connection /\ sndq \in Seq(Piece)
      /\ net \in [Live -> Connection] /\ clients \in [Live -> Client]
  BY <1>1, Buffers, Connections, LenProperties
<1>3. Running' = Running
  BY <1>1 DEF Running
<1>4. CASE out = << >>
  <2>1. UNCHANGED <<clients, net>>
    BY <1>4 DEF FlushClientWrite
  <2> QED
    BY <1>3, <2>1, UntouchedIsSame, StutterIs DEF LinesStep, Live
<1>5. CASE out # << >> /\ (net[fd].peer = "gone" \/ n = 0)
  <2>1. Disconnect(fd, clients)
    BY <1>5 DEF FlushClientWrite
  <2>2. net[fd].peer = "gone"
    BY <1>1, <1>5, RoomWhenReported
  <2> QED
    BY <1>1, <2>1, <2>2, DisconnectRefines
<1>6. CASE out # << >> /\ net[fd].peer # "gone" /\ n # 0
  <2> DEFINE now  == SubSeq(out, 1, n)
             rest == Unsent(out, n)
             more == sndq \o now
  <2>1. /\ net'     = [net EXCEPT ![fd].snd = more]
        /\ clients' = [clients EXCEPT ![fd].out = rest]
    BY <1>6 DEF FlushClientWrite
  <2>2. n \in Nat \ {0} /\ n <= Len(out)
    BY <1>1, <1>6, RoomWhenReported
  <2> HIDE DEF n
  <2>3. n \in 1..Len(out)
    BY <1>2, <2>2
  <2>4. sndq \o out = more \o rest
    BY <1>2, <2>3, Moved DEF Unsent
  <2> HIDE DEF now, rest, more
  <2>5. /\ clients'[fd].in = clients[fd].in /\ clients'[fd].out = rest
        /\ net'[fd].snd = more /\ net'[fd].rcv = net[fd].rcv /\ net'[fd].peer = net[fd].peer
        /\ \A f \in Live : f # fd => clients'[f] = clients[f] /\ net'[f] = net[f]
        /\ Live' = Live
    BY <1>1, <1>2, <2>1 DEF Client, Connection, Live
  <2>6. Same(fd)
    BY <2>4, <2>5 DEF Same, Unexecuted, Unread
  <2>7. \A f \in Live : Same(f)
    BY <2>5, <2>6, UntouchedIsSame
  <2> QED
    BY <1>3, <2>5, <2>7, StutterIs DEF LinesStep
<1> QED
  BY <1>4, <1>5, <1>6

\* What comes first of the lines, and what is left of them.
Leads(s, p, more) == s # << >> /\ Head(s) = p /\ Tail(s) = more

\* The front of a sequence that is given as an element and a rest.
LEMMA FrontOf ==
    ASSUME NEW S, NEW p \in S, NEW more \in Seq(S), NEW s, s = <<p>> \o more
    PROVE  Leads(s, p, more)
<1> DEFINE one == <<p>>
<1>1. one \in Seq(S) /\ Len(one) = 1 /\ one[1] = p
  OBVIOUS
<1> HIDE DEF one
<1>2. /\ s \in Seq(S) /\ Len(s) = 1 + Len(more)
      /\ \A i \in 1..1+Len(more) : s[i] = IF i <= 1 THEN one[i] ELSE more[i - 1]
  <2>1. s = one \o more
    BY DEF one
  <2> QED
    BY <1>1, <2>1, ConcatProperties
<1>3. Len(more) \in Nat
  BY LenProperties
<1>4. s # << >> /\ s[1] = p
  BY <1>1, <1>2, <1>3, EmptySeq
<1>5. Head(s) = p /\ Tail(s) \in Seq(S) /\ Len(Tail(s)) = Len(more)
      /\ \A i \in 1..Len(Tail(s)) : Tail(s)[i] = s[i + 1]
  BY <1>2, <1>3, <1>4, HeadTailProperties
<1>6. \A i \in 1..Len(more) : Tail(s)[i] = more[i]
  <2> TAKE i \in 1..Len(more)
  <2>1. i + 1 \in 1..1+Len(more) /\ ~(i + 1 <= 1) /\ (i + 1) - 1 = i
    BY <1>3
  <2> QED
    BY <1>2, <1>5, <2>1
<1>7. Tail(s) = more
  BY <1>5, <1>6, SeqEqual
<1> QED
  BY <1>4, <1>5, <1>7 DEF Leads

\* A line that is told waits behind all that waited.
LEMMA AppendedBehind ==
    ASSUME NEW a \in Seq(Piece), NEW b \in Seq(Piece), NEW p \in Piece
    PROVE  a \o Append(b, p) = Append(a \o b, p)
<1> DEFINE one == <<p>>
<1>1. one \in Seq(Piece)
  OBVIOUS
<1>2. Append(b, p) = b \o one
  BY AppendIsConcat
<1>3. a \o b \in Seq(Piece)
  BY ConcatProperties
<1>4. Append(a \o b, p) = (a \o b) \o one
  BY <1>3, AppendIsConcat
<1> HIDE DEF one
<1>5. Regrouped(a, b, one)
  BY <1>1, Regrouping
<1> QED
  BY <1>2, <1>4, <1>5 DEF Regrouped

\* One round of extractCommands is the execution of one line.
LEMMA ExtractRefines ==
    ASSUME RefInv, NEW fd \in Fd, ExtractCommand(fd)
    PROVE  LinesStep
<1> DEFINE buf  == clients[fd].in
           k    == Min({j \in DOMAIN buf : buf[j].kind # "part"})
           line == buf[k]
           to   == IF line.kind = "echo" THEN {fd} ELSE Live \ {fd}
           rest == SubSeq(buf, k + 1, Len(buf))
           cl   == [clients EXCEPT ![fd].in = rest]
           told == Tell(cl, to, line)
           left == LinesOf(rest \o net[fd].rcv)
<1>1. /\ fd \in Live /\ LoopInv /\ HasLine(buf) /\ phase' = phase
      /\ clients \in [Live -> Client] /\ Live \subseteq Fd
  BY WhileServing, FdAssumption, Connections DEF RefInv, ExtractCommand, Extracting
<1>2. /\ line.kind # "quit" => clients' = told /\ net' = net
      /\ line.kind = "quit" => /\ clients' = [f \in Live \ {fd} |-> told[f]]
                               /\ net'     = [f \in Live \ {fd} |-> net[f]]
  BY DEF ExtractCommand
<1>3. buf \in Seq(Piece) /\ net[fd].rcv \in Seq(Piece)
  BY <1>1, Buffers
<1>4. /\ line \in Piece /\ line.kind # "part" /\ rest \in Seq(Piece)
      /\ LinesOf(buf) = <<line>> \o LinesOf(rest)
  BY <1>1, <1>3, FirstLine
<1> HIDE DEF k, line, rest
<1>5. Leads(Unexecuted(fd), line, left)
  <2> DEFINE a == <<line>>
             b == LinesOf(rest)
             c == LinesOf(net[fd].rcv)
             s == Unexecuted(fd)
  <2>1. a \in Seq(Piece) /\ b \in Seq(Piece) /\ c \in Seq(Piece)
    BY <1>3, <1>4, LinesOfBoth
  <2>2. s = LinesOf(buf) \o c
    BY <1>3, LinesOfBoth DEF Unexecuted
  <2>3. left = b \o c
    BY <1>3, <1>4, LinesOfBoth
  <2>4. LinesOf(buf) = a \o b
    BY <1>4
  <2>5. left \in Seq(Piece)
    <3>1. b \o c \in Seq(Piece)
      BY <2>1, ConcatProperties
    <3> QED
      BY <2>3, <3>1
  <2> HIDE DEF a, b, c, s, left
  <2>6. Regrouped(a, b, c)
    BY <2>1, Regrouping
  <2>7. s = a \o left
    BY <2>2, <2>3, <2>4, <2>6 DEF Regrouped
  <2>8. s = <<line>> \o left
    BY <2>7 DEF a
  <2>9. Leads(s, line, left)
    BY <1>4, <2>5, <2>8, FrontOf
  <2> QED
    BY <2>9 DEF s
<1>6. /\ Unexecuted(fd) # << >> /\ Head(Unexecuted(fd)) = line
      /\ Tail(Unexecuted(fd)) = left
  BY <1>5 DEF Leads
<1>7. /\ DOMAIN told = Live
      /\ told[fd].in = rest
      /\ \A f \in Live : f # fd => told[f].in = clients[f].in
      /\ \A f \in Live : told[f].out = IF f \in to THEN Append(clients[f].out, line)
                                       ELSE clients[f].out
  <2>1. \A f \in Live : cl[f] \in Client /\ cl[f].out = clients[f].out
                        /\ cl[f].in = IF f = fd THEN rest ELSE clients[f].in
    BY <1>1, <1>4 DEF Client
  <2> HIDE DEF cl, to
  <2>2. \A f \in Live : told[f].in = cl[f].in
    BY <2>1 DEF Tell, Client
  <2>3. \A f \in Live : told[f].out = IF f \in to THEN Append(cl[f].out, line) ELSE cl[f].out
    BY <2>1 DEF Tell, Client
  <2>4. DOMAIN told = Live
    BY DEF Tell
  <2> QED
    BY <1>1, <2>1, <2>2, <2>3, <2>4
<1> HIDE DEF to, told, left
<1>8. ASSUME NEW f \in Live, f \in Live', clients'[f] = told[f], net'[f] = net[f]
      PROVE  /\ net'[f].peer = net[f].peer
             /\ ToldOf(line, to, f)
             /\ f # fd => Unexecuted(f)' = Unexecuted(f)
             /\ f = fd => Unexecuted(f)' = left
  <2>1. clients[f].out \in Seq(Piece) /\ net[f].snd \in Seq(Piece)
    BY <1>1, Buffers
  <2>2. ToldOf(line, to, f)
    <3>1. CASE f \in to
      <4>1. clients'[f].out = Append(clients[f].out, line)
        BY <1>7, <1>8, <3>1
      <4>2. net[f].snd \o Append(clients[f].out, line) = Append(net[f].snd \o clients[f].out, line)
        BY <1>4, <2>1, AppendedBehind
      <4> QED
        BY <1>8, <3>1, <4>1, <4>2 DEF ToldOf, Unread
    <3>2. CASE f \notin to
      BY <1>7, <1>8, <3>2 DEF ToldOf, Unread
    <3> QED
      BY <3>1, <3>2
  <2> QED
    BY <1>7, <1>8, <2>2 DEF Unexecuted, left
<1>9. Running' = Running
  BY <1>1 DEF Running
<1>10. Lines!Execute(fd)
  <2>1. CASE line.kind = "quit"
    <3>1. Live' = Live \ {fd} /\ \A f \in Live' : clients'[f] = told[f] /\ net'[f] = net[f]
      BY <1>2, <2>1 DEF Live
    <3>2. to = Live \ {fd}
      BY <2>1 DEF to
    <3>3. \A f \in Live' : /\ net'[f].peer = net[f].peer
                           /\ ToldOf(line, Live \ {fd}, f)
                           /\ Unexecuted(f)' = Unexecuted(f)
      BY <1>8, <3>1, <3>2
    <3> QED
      BY <1>1, <1>6, <1>9, <2>1, <3>1, <3>3, QuitIs
  <2>2. CASE line.kind # "quit"
    <3>1. Live' = Live /\ \A f \in Live' : clients'[f] = told[f] /\ net'[f] = net[f]
      BY <1>2, <1>7, <2>2 DEF Live
    <3>2. /\ \A f \in Live : net'[f].peer = net[f].peer /\ ToldOf(line, to, f)
          /\ \A f \in Live : f # fd => Unexecuted(f)' = Unexecuted(f)
          /\ Unexecuted(fd)' = Tail(Unexecuted(fd))
      BY <1>1, <1>6, <1>8, <3>1
    <3>3. CASE line.kind = "echo"
      <4>1. to = {fd}
        BY <3>3 DEF to
      <4> QED
        BY <1>1, <1>6, <1>9, <3>1, <3>2, <3>3, <4>1, EchoIs
    <3>4. CASE line.kind # "echo"
      <4>1. to = Live \ {fd} /\ line.kind = "cast"
        BY <1>4, <2>2, <3>4 DEF to, Piece
      <4> QED
        BY <1>1, <1>6, <1>9, <3>1, <3>2, <4>1, CastIs
    <3> QED
      BY <3>3, <3>4
  <2> QED
    BY <2>1, <2>2
<1> QED
  BY <1>1, <1>10 DEF LinesStep, Lines!Next

\* A part of a line is no step of LineServer, its end is.
LEMMA PeersRefine ==
    ASSUME RefInv, NEW fd \in Fd, PeerStep(fd)
    PROVE  LinesStep
<1>1. /\ LoopInv /\ sent \in Nat /\ fd \in Live
      /\ clients \in [Live -> Client] /\ net \in [Live -> Connection]
      /\ UNCHANGED <<phase, clients>>
  BY Connections
     DEF RefInv, PeerStep, PeerSends, PeerReads, PeerHalfCloses, PeerBreaks, server
<1>2. /\ clients[fd].in \in Seq(Piece) /\ clients[fd].out \in Seq(Piece)
      /\ net[fd].rcv \in Seq(Piece) /\ net[fd].snd \in Seq(Piece) /\ net[fd] \in Connection
  BY <1>1, Buffers
<1>3. Live' = Live /\ Running' = Running
  BY <1>1 DEF Live, Running
<1>4. ASSUME NEW kind \in Kind, PeerSends(fd, kind)
      PROVE  LinesStep
  <2> DEFINE p == [kind |-> kind, id |-> sent + 1]
             r == Append(net[fd].rcv, p)
  <2>1. net' = [net EXCEPT ![fd].rcv = r] /\ net[fd].peer = "open" /\ sent < MaxPieces
    BY <1>4 DEF PeerSends
  <2>2. p \in Piece /\ p.kind = kind /\ p.id = sent + 1
    BY <1>1, KindAssumption DEF Piece
  <2>3. kind # "part" => p \in [kind : Kind \ {"part"}, id : 1..MaxPieces]
    BY <1>1, <2>1, BoundAssumption
  <2>4. clients[fd].in \o r = Append(clients[fd].in \o net[fd].rcv, p)
    BY <1>2, <2>2, AppendedBehind
  <2> HIDE DEF p, r
  <2>5. /\ net'[fd].rcv = r /\ net'[fd].snd = net[fd].snd /\ net'[fd].peer = net[fd].peer
        /\ \A f \in Live : f # fd => net'[f] = net[f]
    BY <1>1, <1>2, <2>1 DEF Connection
  <2>6. Unexecuted(fd)' = IF kind = "part" THEN Unexecuted(fd) ELSE Append(Unexecuted(fd), p)
    <3> DEFINE whole == clients[fd].in \o net[fd].rcv
    <3>1. whole \in Seq(Piece)
      BY <1>2, ConcatProperties
    <3> HIDE DEF whole
    <3>2. LinesOf(Append(whole, p)) =
             IF p.kind = "part" THEN LinesOf(whole) ELSE Append(LinesOf(whole), p)
      BY <2>2, <3>1, LinesOfMore
    <3> QED
      BY <1>1, <2>2, <2>4, <2>5, <3>2 DEF Unexecuted, whole
  <2>7. Unread(fd)' = Unread(fd)
    BY <1>1, <2>5 DEF Unread
  <2>8. \A f \in Live : f # fd => Same(f)
    BY <1>1, <2>5, UntouchedIsSame
  <2>9. CASE kind = "part"
    <3>1. \A f \in Live : Same(f)
      BY <2>5, <2>6, <2>7, <2>8, <2>9 DEF Same
    <3> QED
      BY <1>3, <3>1, StutterIs DEF LinesStep
  <2>10. CASE kind # "part"
    <3>1. /\ \A f \in Live : net'[f].peer = net[f].peer /\ Unread(f)' = Unread(f)
          /\ \A f \in Live : f # fd => Unexecuted(f)' = Unexecuted(f)
      BY <2>5, <2>7, <2>8 DEF Same
    <3>2. Unexecuted(fd)' = Append(Unexecuted(fd), p)
      BY <2>6, <2>10
    <3>3. Lines!Send(fd, p)
      BY <1>1, <1>3, <2>1, <3>1, <3>2, SendIs
    <3> QED
      BY <2>3, <2>10, <3>3 DEF LinesStep, Lines!Next
  <2> QED
    BY <2>9, <2>10
<1>5. CASE PeerReads(fd)
  <2> DEFINE rest == Tail(net[fd].snd)
  <2>1. net' = [net EXCEPT ![fd].snd = rest] /\ net[fd].peer # "gone" /\ net[fd].snd # << >>
    BY <1>5 DEF PeerReads
  <2>2. /\ Unread(fd) # << >>
        /\ Tail(Unread(fd)) = rest \o clients[fd].out
    <3> DEFINE x == Head(net[fd].snd)
               out == clients[fd].out
    <3>1. x \in Piece /\ rest \in Seq(Piece)
      BY <1>2, <2>1, HeadTailProperties
    <3>2. net[fd].snd = <<x>> \o rest
      <4>1. 1 \in 1..Len(net[fd].snd) /\ Len(net[fd].snd) \in 1..Len(net[fd].snd)
        BY <1>2, <2>1, LenProperties, EmptySeq
      <4>2. SubSeq(net[fd].snd, 1, Len(net[fd].snd))
              = <<net[fd].snd[1]>> \o SubSeq(net[fd].snd, 1+1, Len(net[fd].snd))
        BY <1>2, <4>1, SubSeqRecursiveFirst
      <4>3. /\ SubSeq(net[fd].snd, 1, Len(net[fd].snd)) = net[fd].snd
            /\ rest = SubSeq(net[fd].snd, 2, Len(net[fd].snd)) /\ x = net[fd].snd[1]
        BY <1>2, <2>1, SubSeqFull, TailIsSubSeq
      <4> QED
        BY <4>2, <4>3
    <3> HIDE DEF x, rest
    <3> DEFINE one  == <<x>>
               more == rest \o out
    <3>3. one \in Seq(Piece) /\ out \in Seq(Piece)
      BY <1>2, <3>1
    <3>4. more \in Seq(Piece)
      BY <3>1, <3>3, ConcatProperties
    <3>5. net[fd].snd = one \o rest
      BY <3>2
    <3> HIDE DEF one, out
    <3>6. Regrouped(one, rest, out)
      BY <3>1, <3>3, Regrouping
    <3>7. Unread(fd) = one \o more
      BY <3>5, <3>6 DEF Regrouped, Unread, out
    <3> HIDE DEF more
    <3>8. Leads(Unread(fd), x, more)
      BY <3>1, <3>4, <3>7, FrontOf DEF one
    <3> QED
      BY <3>8 DEF Leads, more, out
  <2> HIDE DEF rest
  <2>3. /\ net'[fd].snd = rest /\ net'[fd].rcv = net[fd].rcv /\ net'[fd].peer = net[fd].peer
        /\ \A f \in Live : f # fd => net'[f] = net[f]
    BY <1>1, <1>2, <2>1 DEF Connection
  <2>4. Unexecuted(fd)' = Unexecuted(fd) /\ Unread(fd)' = Tail(Unread(fd))
    BY <1>1, <2>2, <2>3 DEF Unexecuted, Unread
  <2>5. \A f \in Live : f # fd => Same(f)
    BY <1>1, <2>3, UntouchedIsSame
  <2>6. /\ \A f \in Live : net'[f].peer = net[f].peer /\ Unexecuted(f)' = Unexecuted(f)
        /\ \A f \in Live : f # fd => Unread(f)' = Unread(f)
    BY <2>3, <2>4, <2>5 DEF Same
  <2>7. Lines!Take(fd)
    BY <1>1, <1>3, <2>1, <2>2, <2>4, <2>6, TakeIs
  <2> QED
    BY <2>7 DEF LinesStep, Lines!Next
<1>6. ASSUME NEW peer, net' = [net EXCEPT ![fd].peer = peer]
      PROVE  /\ net'[fd].peer = peer
             /\ \A f \in Live : Unexecuted(f)' = Unexecuted(f) /\ Unread(f)' = Unread(f)
             /\ \A f \in Live : f # fd => net'[f].peer = net[f].peer
  <2>1. \A f \in Live : /\ net'[f].rcv = net[f].rcv /\ net'[f].snd = net[f].snd
                        /\ net'[f].peer = IF f = fd THEN peer ELSE net[f].peer
    BY <1>1, <1>6 DEF Connection
  <2> QED
    BY <1>1, <2>1 DEF Unexecuted, Unread
<1>7. CASE PeerHalfCloses(fd)
  <2>1. net[fd].peer = "open" /\ net' = [net EXCEPT ![fd].peer = "half"]
    BY <1>7 DEF PeerHalfCloses
  <2>2. Lines!Finish(fd)
    BY <1>1, <1>3, <1>6, <2>1, FinishIs
  <2> QED
    BY <2>2 DEF LinesStep, Lines!Next
<1>8. CASE PeerBreaks(fd)
  <2>1. net[fd].peer # "gone" /\ net' = [net EXCEPT ![fd].peer = "gone"]
    BY <1>8 DEF PeerBreaks
  <2>2. Lines!Go(fd)
    BY <1>1, <1>3, <1>6, <2>1, GoIs
  <2> QED
    BY <2>2 DEF LinesStep, Lines!Next
<1> QED
  BY <1>4, <1>5, <1>7, <1>8 DEF PeerStep

\* A signal is no step of LineServer.
LEMMA SignalRefines ==
    ASSUME RefInv, SignalHandler
    PROVE  LinesStep
<1>1. CASE phase = "poll"
  <2>1. Lines!Stop
    BY <1>1, StopIs DEF SignalHandler, Stop, Running, Live
  <2> QED
    BY <2>1 DEF LinesStep, Lines!Next
<1>2. CASE phase # "poll"
  BY <1>2, UntouchedIsSame, StutterIs DEF SignalHandler, LinesStep, Running, Live
<1> QED
  BY <1>1, <1>2

\* Every step of the loop is one of LineServer, or none.
LEMMA NextRefines ==
    ASSUME RefInv, [Next]_vars
    PROVE  LinesStep
<1>1. CASE \/ Test \/ EnterPoll \/ EndOfRound \/ PollReturns
           \/ \E fd \in Fd \cup {Listen} : NextEntry(fd)
  BY <1>1, BetweenRoundsRefines
<1>2. CASE AcceptNewClient
  BY <1>2, AcceptRefines
<1>3. ASSUME NEW fd \in Fd, ServeError(fd) \/ HangUp(fd)
      PROVE  LinesStep
  BY <1>3, HangUpRefines
<1>4. ASSUME NEW fd \in Fd, HandleClientRead(fd)
      PROVE  LinesStep
  BY <1>4, ReadRefines
<1>5. ASSUME NEW fd \in Fd, ExtractCommand(fd)
      PROVE  LinesStep
  BY <1>5, ExtractRefines
<1>6. ASSUME NEW fd \in Fd, FlushClientWrite(fd)
      PROVE  LinesStep
  BY <1>6, FlushRefines
<1>7. ASSUME NEW fd \in Fd, PeerStep(fd)
      PROVE  LinesStep
  BY <1>7, PeersRefine
<1>8. CASE SignalHandler
  BY <1>8, SignalRefines
<1>9. CASE PeerConnects \/ UNCHANGED vars
  <2>1. UNCHANGED <<phase, clients, net>>
    BY <1>9 DEF PeerConnects, vars, server
  <2> QED
    BY <2>1, UntouchedIsSame, StutterIs DEF LinesStep, Running, Live
<1> QED
  BY <1>1, <1>2, <1>3, <1>4, <1>5, <1>6, <1>7, <1>8, <1>9 DEF Next, ServerStep

\* The loop starts as LineServer does.
LEMMA InitRefines == Init => Lines!Init
BY DEF Init, Lines!Init, Lines!Empty, Live

(* The loop implements LineServer: however lines are cut by recv(), output  *)
(* by send(), and entries moved in _pollFds, every step is a stutter or one *)
(* step of a server that takes whole lines, one at a time and in order, and *)
(* neither loses nor repeats nor reorders what it tells (Server::run).      *)
THEOREM LoopImplementsLines ==
    ASSUME OneRecvSuffices
    PROVE  Spec => LineServerSteps
<1>1. Init => RefInv
  BY RefInit
<1>2. RefInv /\ [Next]_vars => RefInv'
  BY RefNext
<1>3. RefInv /\ [Next]_vars => [Lines!Next]_(Lines!vars)
  BY NextRefines DEF LinesStep
<1>4. Init => Lines!Init
  BY InitRefines
<1> QED
  BY <1>1, <1>2, <1>3, <1>4, PTL DEF Spec, LineServerSteps

=============================================================================
