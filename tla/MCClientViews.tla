--------------------------- MODULE MCClientViews ---------------------------
(* Bounds of ClientViews for TLC; the constants have the values of         *)
(* MCIrcServer.                                                            *)
EXTENDS ClientViews, MCIrcServer

\* BoundedSpec with the announcements.
BoundedTold == InitViews /\ [][NextTold /\ TopicsRestricted]_viewVars
=============================================================================
