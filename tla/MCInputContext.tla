-------------------------- MODULE MCInputContext --------------------------
(***************************************************************************)
(* Letters that reach every branch of the conversion: vowels, letters that   *)
(* double, the n and what may follow it, glides, the keys of four letters, a *)
(* mark, a letter in no key, a capital, and chars of 3 and 4 bytes.          *)
(***************************************************************************)
EXTENDS InputContext

MCLetters ==
    {"a", "i", "u", "k", "s", "t", "c", "h", "n", "y", "w", "x", "l", "j", "f", "b", "'", "!", "q"}

MCCapitals == {"A"}

MCChars == MCLetters \cup MCCapitals \cup {"kana", "sign"}

MCUtf8Len ==
    [c \in MCChars |-> CASE c = "kana" -> 3 [] c = "sign" -> 4 [] OTHER -> 1]
=============================================================================
