------------------------------- MODULE MCBot -------------------------------
(* Instances of Bot for TLC. *)
EXTENDS Bot

Alice       == {"alice"}
TwoRooms    == {"#general", "#bot"}
EveryTarget == TwoRooms \cup {Ircbot}

Chat == {"!ping", "!users", "!channels", "hi", "with 900 inside"}
=============================================================================
