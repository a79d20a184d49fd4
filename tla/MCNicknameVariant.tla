------------------------- MODULE MCNicknameVariant -------------------------
(* Nicknames for TLC: all short ones. *)
EXTENDS NicknameVariant

\* A nickname does not begin with a digit (isValidNickname).
Valid(S) == {n \in S : n # << >> /\ n[1] # "1"}

UpToThree == Valid(SeqOf({"a", "b", "_"}, 3))
WithDigit == Valid(SeqOf({"a", "_", "1"}, 3))
ShortNames == UpToThree \cup WithDigit
=============================================================================
