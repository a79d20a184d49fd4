--------------------------- MODULE NicknameVariant ---------------------------
(***************************************************************************)
(* isNicknameVariant of src/Registration.cpp: which nickname the server    *)
(* takes for an automatic retry of one it has refused.  One client that is *)
(* not registered asks for nicknames that other clients hold; the core     *)
(* (Registration) abstracts the comparison by the relation VariantOf.      *)
(*                                                                         *)
(* A nickname is a sequence of characters, of which only two classes       *)
(* matter: those stripNickSuffix strips, and the others.                   *)
(***************************************************************************)
EXTENDS Naturals, FiniteSets, SequencesExt

CONSTANTS
    Name,       \* the nicknames asked for, as sequences of characters
    Suffix,     \* the characters '_' and '0'..'9'
    Stem,       \* how much of a long nickname a variant must share: 8
    Full,       \* the length at which irssi stops appending: 9
    MaxRefused, \* bound: nicknames refused to the client
    MaxRetries  \* bound: automatic retries in a row

ASSUME NameAssumption  == \A n \in Name : n \in Seq(Range(n)) /\ n # << >>
ASSUME SizeAssumption  == Stem \in Nat \ {0} /\ Full \in Nat /\ Stem < Full
ASSUME SuffixAssumption == {"_", "1"} \subseteq Suffix
ASSUME BoundAssumption == MaxRefused \in Nat /\ MaxRetries \in Nat

VARIABLE rejected   \* _rejectedNicknames

-----------------------------------------------------------------------------
(* The comparison *)

\* stripNickSuffix
Stripped(nick) ==
    SubSeq(nick, 1, Max({0} \cup {i \in DOMAIN nick : nick[i] \notin Suffix}))

Least(m, n) == IF m < n THEN m ELSE n

\* Mutants of IsRetryOf: the whole stem must be there, however long; the
\* nickname that was refused counts as its own variant.
IsRetryOfWhole(nick, refused) ==
    /\ nick # refused
    /\ Stripped(nick) # << >> /\ Stripped(refused) # << >>
    /\ Len(Stripped(nick)) >= Len(Stripped(refused))
    /\ IsPrefix(Stripped(nick), Stripped(refused))

IsRetryOfItself(nick, refused) ==
    /\ Stripped(nick) # << >> /\ Stripped(refused) # << >>
    /\ Len(Stripped(nick)) >= Least(Len(Stripped(refused)), Stem)
    /\ IsPrefix(Stripped(nick), Stripped(refused))

\* One iteration of the loop of isNicknameVariant: what is left of nick is
\* long enough, and is a prefix of what is left of the refused nickname.
IsRetryOf(nick, refused) ==
    /\ nick # refused
    /\ Stripped(nick) # << >> /\ Stripped(refused) # << >>
    /\ Len(Stripped(nick)) >= Least(Len(Stripped(refused)), Stem)
    /\ IsPrefix(Stripped(nick), Stripped(refused))

IsNicknameVariant(nick, refused) == \E r \in refused : IsRetryOf(nick, r)

-----------------------------------------------------------------------------
(* One unregistered client and NICK *)

Init == rejected = {}

\* handleNick for a nickname another client holds: a variant is refused
\* before it is looked up and is not remembered.
NickInUse(nick) ==
    /\ ~IsNicknameVariant(nick, rejected)
    /\ Cardinality(rejected \cup {nick}) <= MaxRefused
    /\ rejected' = rejected \cup {nick}

Next == \E nick \in Name : NickInUse(nick)

Spec == Init /\ [][Next]_rejected

-----------------------------------------------------------------------------
(* irssi, as the comment above isNicknameVariant describes it *)

\* It appends '_' or, to a nickname that is Full, puts a digit at the end of
\* what is left when it truncates it.
Retry(nick) ==
    IF Len(nick) < Full THEN Append(nick, "_") ELSE Append(SubSeq(nick, 1, Full - 1), "1")

RetriesOf(nick) ==
    LET chain[i \in 0..MaxRetries] == IF i = 0 THEN nick ELSE Retry(chain[i - 1])
    IN  {chain[i] : i \in 1..MaxRetries} \ {nick}

-----------------------------------------------------------------------------
(* Properties *)

\* The retries irssi makes of a refused nickname, one after the other, are
\* taken for what they are, if the nickname has more than '_' and digits and,
\* when irssi truncates it, what is left does not end in them.
RetriesCaught ==
    \A n \in rejected :
        /\ Stripped(n) # << >>
        /\ Len(Stripped(n)) < Full \/ n[Full - 1] \notin Suffix
        => \A v \in RetriesOf(n) : IsNicknameVariant(v, rejected)

\* A client may ask again for a nickname it was refused, and gets it when it
\* has become free: whatever else it was refused meanwhile does not bar it.
\* So much holds of nicknames that have, without suffix, up to Stem characters.
RefusedMayRetry ==
    \A n \in rejected :
        (\A r \in rejected : Len(Stripped(r)) <= Stem) => ~IsNicknameVariant(n, rejected)
=============================================================================
