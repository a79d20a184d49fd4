----------------------------- MODULE LineServer -----------------------------
(***************************************************************************)
(* What the event loop promises, without poll(), buffers, chunks or        *)
(* partial sends: every connection has a queue of complete lines it sent   *)
(* and a queue of messages it has not read yet.  The server takes the      *)
(* lines of a connection one at a time, in order; what a line says is      *)
(* appended to the mail of its own connection, or of all others.  A        *)
(* connection ends by QUIT, when its peer has finished and everything it   *)
(* sent has been executed, or when its peer has gone; nothing else is      *)
(* ever lost.                                                              *)
(***************************************************************************)
EXTENDS Naturals, Sequences

CONSTANTS
    Fd,         \* descriptors of connections
    Line,       \* lines, each sent at most once
    Stalled     \* descriptors whose peers need never read

VARIABLES
    up,         \* the state of the peer of each connection: "open", "half" or "gone"
    todo,       \* the lines of each connection that have not been executed
    mail,       \* the lines each connection has been told of and has not read
    running     \* the server has not stopped

vars == <<up, todo, mail, running>>

Connected == DOMAIN up

Empty == [fd \in {} |-> << >>]

Init ==
    /\ up      = Empty
    /\ todo    = Empty
    /\ mail    = Empty
    /\ running = TRUE

Without(f, fd) == [g \in DOMAIN f \ {fd} |-> f[g]]

-----------------------------------------------------------------------------
(* The peers *)

Open(fd) ==
    /\ running
    /\ fd \in Fd \ Connected
    /\ up'   = [g \in Connected \cup {fd} |-> IF g = fd THEN "open" ELSE up[g]]
    /\ todo' = [g \in Connected \cup {fd} |-> IF g = fd THEN << >> ELSE todo[g]]
    /\ mail' = [g \in Connected \cup {fd} |-> IF g = fd THEN << >> ELSE mail[g]]
    /\ UNCHANGED running

Send(fd, line) ==
    /\ fd \in Connected
    /\ up[fd] = "open"
    /\ todo' = [todo EXCEPT ![fd] = Append(@, line)]
    /\ UNCHANGED <<up, mail, running>>

Finish(fd) ==
    /\ fd \in Connected
    /\ up[fd] = "open"
    /\ up' = [up EXCEPT ![fd] = "half"]
    /\ UNCHANGED <<todo, mail, running>>

Go(fd) ==
    /\ fd \in Connected
    /\ up[fd] # "gone"
    /\ up' = [up EXCEPT ![fd] = "gone"]
    /\ UNCHANGED <<todo, mail, running>>

\* A peer that has gone reads nothing any more.
Take(fd) ==
    /\ fd \in Connected
    /\ up[fd] # "gone"
    /\ mail[fd] # << >>
    /\ mail' = [mail EXCEPT ![fd] = Tail(@)]
    /\ UNCHANGED <<up, todo, running>>

-----------------------------------------------------------------------------
(* The server *)

\* PING and every command that is answered with a reply.
Echo(fd) ==
    /\ mail' = [mail EXCEPT ![fd] = Append(@, Head(todo[fd]))]
    /\ todo' = [todo EXCEPT ![fd] = Tail(@)]
    /\ UNCHANGED <<up, running>>

Told(fd) == [g \in Connected |-> IF g = fd THEN mail[g] ELSE Append(mail[g], Head(todo[fd]))]

\* A message to a channel.
Cast(fd) ==
    /\ mail' = Told(fd)
    /\ todo' = [todo EXCEPT ![fd] = Tail(@)]
    /\ UNCHANGED <<up, running>>

\* QUIT is announced to the others and ends the connection, with the lines
\* that follow it and the mail that waits.
Quit(fd) ==
    /\ mail' = Without(Told(fd), fd)
    /\ todo' = Without(todo, fd)
    /\ up'   = Without(up, fd)
    /\ UNCHANGED running

Execute(fd) ==
    /\ fd \in Connected
    /\ todo[fd] # << >>
    /\ CASE Head(todo[fd]).kind = "echo" -> Echo(fd)
         [] Head(todo[fd]).kind = "cast" -> Cast(fd)
         [] Head(todo[fd]).kind = "quit" -> Quit(fd)

Close(fd) ==
    /\ fd \in Connected
    /\ up[fd] # "open"
    /\ up[fd] = "half" => todo[fd] = << >>
    /\ up'   = Without(up, fd)
    /\ todo' = Without(todo, fd)
    /\ mail' = Without(mail, fd)
    /\ UNCHANGED running

\* All connections are closed.
Stop ==
    /\ running
    /\ running' = FALSE
    /\ up'   = Empty
    /\ todo' = Empty
    /\ mail' = Empty

Next ==
    \/ Stop
    \/ \E fd \in Fd :
          \/ Open(fd) \/ Finish(fd) \/ Go(fd) \/ Take(fd)
          \/ \E line \in Line : Send(fd, line)
          \/ Execute(fd) \/ Close(fd)

\* The server serves every connection; a peer that is not stalled reads.
Fairness ==
    \A fd \in Fd :
        /\ WF_vars(Execute(fd))
        /\ WF_vars(Close(fd))
        /\ fd \notin Stalled => WF_vars(Take(fd))

Spec == Init /\ [][Next]_vars /\ Fairness
=============================================================================
