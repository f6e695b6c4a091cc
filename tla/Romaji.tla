------------------------------ MODULE Romaji ------------------------------
(***************************************************************************)
(* The conversion of letters to kana (kotoha-core, romaji): a buffer of      *)
(* letters that may still become a rule, and what one more letter does to    *)
(* it.  A result is a record of the buffer left and the kana produced.       *)
(***************************************************************************)
EXTENDS RomajiRules, Naturals, SequencesExt

\* The trie: what is neither a key nor the beginning of one is not found.
RuleKeys == DOMAIN RULES

LongestKey == 4

Beginnings == {SubSeq(key, 1, Len(key) - n) : key \in RuleKeys, n \in 1..LongestKey}

IsMatch(buffer) == buffer \in RuleKeys

IsPartial(buffer) == buffer \in Beginnings /\ ~ IsMatch(buffer)

\* What the conversion rests on.  Keys are short, none begins another, so a key
\* is taken as soon as it is complete; a vowel is a key and ends what it is in,
\* so that nothing waits for a letter behind it.
ASSUME RulesAssumption ==
    /\ \A key \in RuleKeys :
         /\ key \in Seq(STRING) /\ Len(key) \in 1..LongestKey
         /\ RULES[key] \in Seq(Seq(STRING)) /\ RULES[key] # <<>>
    /\ RuleKeys \cap Beginnings = {}
    /\ {SmallTsu, Hatsuon} \cup {<<v>> : v \in Vowels} \subseteq RuleKeys
    /\ \A b \in Beginnings \ {<<>>} : Last(b) \notin Vowels

SokuonConsonants ==
    {"k", "g", "s", "z", "j", "t", "d", "c", "h", "f", "b", "p", "m", "y", "r", "w", "v"}

\* After these, an n may still become a kana with what follows it.
NContinuations == Vowels \cup {"y", "n", "'"}

\* What the first letter of a buffer that is not found is worth: the first of
\* two equal consonants a small tsu, an n before another consonant a hatsuon.
Rescued(buffer) ==
    IF Len(buffer) < 2 THEN <<>>
    ELSE IF buffer[1] = buffer[2] /\ buffer[1] \in SokuonConsonants THEN <<SmallTsu>>
    ELSE IF buffer[1] = "n" /\ buffer[2] \notin NContinuations THEN <<Hatsuon>>
    ELSE <<>>

Texts == Seq(STRING)

Machines == [buffer : Texts, kana : Seq(Texts)]

Nothing == [buffer |-> <<>>, kana |-> <<>>]

\* One round of settle and of normalize: a whole key is taken, a beginning is
\* left alone, and of anything else the first letter goes.
Settle(m) ==
    IF IsMatch(m.buffer) THEN [buffer |-> <<>>, kana |-> m.kana \o RULES[m.buffer]]
    ELSE IF IsPartial(m.buffer) THEN m
    ELSE [buffer |-> Tail(m.buffer), kana |-> m.kana \o Rescued(m.buffer)]

\* Mutant: one round is taken to be enough.
NormalizeOnce(m) == Settle(m)

\* normalize: rounds until nothing changes, each of which takes a letter away.
Rounds[m \in Machines] == IF IsPartial(m.buffer) THEN m ELSE Rounds[Settle(m)]

Normalize(m) == Rounds[m]

\* push: the letter behind the others, and one round.
Push(m, letter) == Settle([m EXCEPT !.buffer = Append(@, letter)])

\* Mutant: the batch path normalizes at the end only, as before ISSUE #29.
PushOnly(m, letter) == Push(m, letter)

\* A letter of a whole text: push, and normalize for what it leaves.
TakeLetter(m, letter) == Normalize(Push(m, letter))

\* convert: a whole text, letter by letter from an empty buffer.
Letters[text \in Texts] ==
    IF text = <<>> THEN Nothing ELSE TakeLetter(Letters[Front(text)], Last(text))

Convert(text) == Normalize(Letters[text])

\* flush: what can be saved, a lone n as hatsuon; other letters stay letters.
Flush(buffer) ==
    LET m == Normalize([buffer |-> buffer, kana |-> <<>>])
    IN  IF m.buffer = <<"n">> THEN Append(m.kana, Hatsuon)
        ELSE m.kana \o [i \in DOMAIN m.buffer |-> <<m.buffer[i]>>]

\* A text that would be left alone: nothing comes of it without another letter.
IsStable(buffer) == Convert(buffer) = [buffer |-> buffer, kana |-> <<>>]
=============================================================================
