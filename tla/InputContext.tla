--------------------------- MODULE InputContext ---------------------------
(***************************************************************************)
(* The input context (kotoha-core, input): letters become kana in Hiragana   *)
(* and pass through in Direct, which a capital enters for one commit and a   *)
(* toggle for good.  The text in the direct buffer is known by its bytes.    *)
(***************************************************************************)
EXTENDS Romaji

CONSTANTS
    Chars,              \* what may be typed
    Capitals,           \* the ASCII capitals among it
    Utf8Len,            \* the bytes of each
    MaxDirectBytes,     \* MAX_DIRECT_BUFFER_BYTES
    MaxTyped            \* bound of the letters typed between two commits

ASSUME TextAssumption ==
    /\ Chars \subseteq STRING
    /\ Utf8Len \in [Chars -> 1..4]
    /\ Capitals \subseteq {c \in Chars : Utf8Len[c] = 1}
    /\ MaxDirectBytes \in Nat
    /\ MaxTyped \in Nat

VARIABLES
    mode,       \* Hiragana or Direct
    origin,     \* Sticky, or Transient until the next commit
    pending,    \* the letters the converter holds
    direct,     \* the bytes in the direct buffer
    step,       \* what the last call answered
    typed,      \* history: the letters since Hiragana began with nothing held
    shown       \* history: the kana they gave

contextVars == <<mode, origin, pending, direct, step>>

historyVars == <<typed, shown>>

vars == <<contextVars, historyVars>>

IsAscii(c) == Utf8Len[c] = 1

Init ==
    /\ mode = "Hiragana" /\ origin = "Sticky"
    /\ pending = <<>> /\ direct = 0
    /\ step = "None"
    /\ typed = <<>> /\ shown = <<>>

NothingTyped == typed' = <<>> /\ shown' = <<>>

\* Mutant: the residue of a push is left where it is.
TakenUnsettled(c) ==
    LET held == [buffer |-> pending, kana |-> <<>>]
    IN  IF IsAscii(c) THEN Push(held, c) ELSE held

\* push and normalize_pending; other than ASCII is rejected by push.
Taken(c) ==
    LET held == [buffer |-> pending, kana |-> <<>>]
    IN  Normalize(IF IsAscii(c) THEN Push(held, c) ELSE held)

\* input_char in Hiragana: kana, or the letter held, or a letter dropped.
TypeHiragana(c) ==
    LET taken == Taken(c)
        kept == taken.buffer = Append(pending, c)
    IN  /\ mode = "Hiragana" /\ c \notin Capitals
        /\ Len(typed) < MaxTyped
        /\ pending' = taken.buffer
        /\ step' = IF taken.kana # <<>> THEN "Committed" ELSE IF kept THEN "Preedit" ELSE "Invalid"
        /\ typed' = IF IsAscii(c) THEN Append(typed, c) ELSE typed
        /\ shown' = shown \o taken.kana
        /\ UNCHANGED <<mode, origin, direct>>

\* Mutant: the buffer is looked at before the char is counted.
FitsBefore(c) == direct < MaxDirectBytes

Fits(c) == direct + Utf8Len[c] <= MaxDirectBytes

Absorb(c) ==
    IF Fits(c)
    THEN direct' = direct + Utf8Len[c] /\ step' = "Preedit"
    ELSE direct' = direct /\ step' = "BufferFull"

\* input_char in Direct.
TypeDirect(c) ==
    /\ mode = "Direct"
    /\ Absorb(c)
    /\ UNCHANGED <<mode, origin, pending, historyVars>>

\* Mutant: the letters held are left in the converter.
ShiftKeepsPending(c) ==
    /\ mode = "Hiragana" /\ c \in Capitals
    /\ mode' = "Direct" /\ origin' = "Transient"
    /\ Absorb(c)
    /\ UNCHANGED pending
    /\ NothingTyped

\* input_char of a capital in Hiragana: the converter is reset on the way.
Shift(c) ==
    /\ mode = "Hiragana" /\ c \in Capitals
    /\ mode' = "Direct" /\ origin' = "Transient"
    /\ Absorb(c)
    /\ pending' = <<>>
    /\ NothingTyped

\* The end of a commit and of a cancel: the buffer of the mode is emptied, and
\* a transient Direct goes back to Hiragana with a converter that is reset.
Finish ==
    /\ mode' = IF origin = "Transient" THEN "Hiragana" ELSE mode
    /\ origin' = "Sticky"
    /\ pending' = IF mode = "Hiragana" \/ origin = "Transient" THEN <<>> ELSE pending
    /\ direct' = IF mode = "Direct" THEN 0 ELSE direct
    /\ NothingTyped

\* commit, and the end of a line of kotoha-romaji: what is held is handed over.
Commit ==
    /\ Finish
    /\ step' = IF mode = "Direct" THEN "Passed"
               ELSE IF Flush(pending) = <<>> THEN "None" ELSE "Flushed"

\* cancel.
Cancel == Finish /\ step' = "None"

\* toggle_mode, without the promotion that new() leaves off: both buffers go.
ToggleMode ==
    /\ mode' = IF mode = "Hiragana" THEN "Direct" ELSE "Hiragana"
    /\ origin' = "Sticky"
    /\ pending' = <<>>
    /\ direct' = IF mode = "Direct" THEN 0 ELSE direct
    /\ step' = "None"
    /\ NothingTyped

\* set_mode: only another mode empties the buffer of the one it leaves.
SetMode(m) ==
    /\ mode' = m /\ origin' = "Sticky"
    /\ pending' = IF mode = "Hiragana" /\ m # mode THEN <<>> ELSE pending
    /\ direct' = IF mode = "Direct" /\ m # mode THEN 0 ELSE direct
    /\ step' = "None"
    /\ IF m = mode THEN UNCHANGED historyVars ELSE NothingTyped

\* reset.
Reset ==
    /\ mode' = "Hiragana" /\ origin' = "Sticky"
    /\ pending' = <<>> /\ direct' = 0
    /\ step' = "None"
    /\ NothingTyped

Next ==
    \/ \E c \in Chars : TypeHiragana(c) \/ Shift(c) \/ TypeDirect(c)
    \/ \E m \in {"Hiragana", "Direct"} : SetMode(m)
    \/ Commit
    \/ Cancel
    \/ ToggleMode
    \/ Reset

Spec == Init /\ [][Next]_vars

-----------------------------------------------------------------------------

Steps == {"None", "Preedit", "Committed", "Invalid", "BufferFull", "Passed", "Flushed"}

\* What an InputContext may be: Hiragana is never transient, and only the buffer
\* of the mode is in use, the direct one within its limit whatever the length in
\* bytes of the last char.  Whichever way a mode was left, no letters wait in its
\* buffer to come out later, in the wrong mode (invariants of InputContext).
TypeOK ==
    /\ <<mode, origin>> \in {<<"Hiragana", "Sticky">>, <<"Direct", "Transient">>, <<"Direct", "Sticky">>}
    /\ direct \in 0..MaxDirectBytes
    /\ mode = "Hiragana" => direct = 0
    /\ mode = "Direct" => pending = <<>>
    /\ step \in Steps

\* What is held may still become a rule, and nothing comes of it by itself:
\* converting it again gives it back, whatever was typed and dropped before
\* (ISSUE #23, StateMachine::normalize).
PendingIsStable == IsStable(pending)

\* Letter by letter or as a whole text, the same letters give the same kana and
\* leave the same letters: the reading that kotoha-dict stores for a word in
\* letters is the one the user gets by typing them (ISSUE #29).
TypedAsBatch ==
    mode = "Hiragana" => Convert(typed) = [buffer |-> pending, kana |-> shown]

\* A vowel always ends in kana at once, after any letters, valid or not: no
\* residue of letters swallows it.
VowelsAlwaysLand ==
    [][Len(typed') > Len(typed) /\ Last(typed') \in Vowels
         => pending' = <<>> /\ shown' # shown /\ step' = "Committed"]_vars
=============================================================================
