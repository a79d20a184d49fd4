--------------------------- MODULE MCInputStream ---------------------------
(* Streams for TLC. *)
EXTENDS InputStream

Chars == {"q", "a", ":", Space, "\r", "\n"}

UpperOf == [c \in Chars \cup {"Q", "A"} |->
               CASE c = "q" -> "Q" [] c = "a" -> "A" [] OTHER -> c]

QuitWord == <<"Q">>

\* Streams of two short lines, and lines of every kind.
LineStreams == SeqOf({"q", "a", "\r", "\n"}, 5)
ParsedLines == {Append(line, "\n") : line \in SeqOf({"a", ":", Space}, 5)}
Streams == LineStreams \cup ParsedLines

=============================================================================
