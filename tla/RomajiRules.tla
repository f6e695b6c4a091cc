---------------------------- MODULE RomajiRules ----------------------------
(***************************************************************************)
(* The table of kotoha-core's romaji rules (RULES): what each sequence of    *)
(* letters stands for.  A kana is named by the shortest letters that spell   *)
(* it, the small ones with an x, so most rules map a key to itself.          *)
(***************************************************************************)
EXTENDS Sequences, TLC

Vowels == {"a", "i", "u", "e", "o"}

\* The keys made of these letters and one vowel.
Keys(letters, vowels) == {letters \o <<v>> : v \in vowels}

KeyRow(letter) == Keys(<<letter>>, Vowels)

\* Its vowel, the last letter of the key.
VowelOf(key) == key[Len(key)]

SmallTsu == <<"x", "t", "u">>

Hatsuon == <<"n", "n">>

Gojuon ==
    Keys(<<>>, Vowels) \cup KeyRow("k") \cup KeyRow("s") \cup KeyRow("t")
        \cup KeyRow("n") \cup KeyRow("h") \cup KeyRow("m") \cup KeyRow("r")
        \cup Keys(<<"y">>, {"a", "u", "o"}) \cup Keys(<<"w">>, {"a", "o", "i", "e"})

Dakuten == KeyRow("g") \cup KeyRow("z") \cup KeyRow("d") \cup KeyRow("b")

Handakuten == KeyRow("p")

SmallKana ==
    KeyRow("x") \cup Keys(<<"x", "y">>, {"a", "u", "o"})
        \cup {SmallTsu, <<"x", "w", "a">>}

Marks == {<<m>> : m \in {"-", ",", ".", "?", "!", "[", "]", "/"}}

Themselves ==
    [key \in Gojuon \cup Dakuten \cup Handakuten \cup SmallKana \cup Marks
                \cup {Hatsuon, <<"v", "u">>} |-> <<key>>]

\* Other spellings of one kana.
Spelled(key, kana) == key :> <<kana>>

HepburnKana ==
    Spelled(<<"s", "h", "i">>, <<"s", "i">>) @@ Spelled(<<"c", "h", "i">>, <<"t", "i">>)
        @@ Spelled(<<"t", "s", "u">>, <<"t", "u">>) @@ Spelled(<<"f", "u">>, <<"h", "u">>)
        @@ Spelled(<<"j", "i">>, <<"z", "i">>)

\* The explicit escapes with l, for the small kana with x.
Escapes ==
    [key \in {<<"l">> \o Tail(k) : k \in SmallKana} |-> << <<"x">> \o Tail(key) >>]
        @@ Spelled(<<"l", "t", "s", "u">>, SmallTsu)
        @@ Spelled(<<"x", "t", "s", "u">>, SmallTsu)

HatsuonSpellings == Spelled(<<"n", "'">>, Hatsuon) @@ Spelled(<<"x", "n">>, Hatsuon)

\* A kana of the i or e row and a small y kana, or a small vowel before i and e.
Glide(vowel) == IF vowel \in {"i", "e"} THEN <<"x", vowel>> ELSE <<"x", "y", vowel>>

YoonOf(letters, vowels, kana) ==
    [key \in Keys(letters, vowels) |-> <<kana, Glide(VowelOf(key))>>]

\* The letter takes the kana of its i row.
YoonRow(letter) == YoonOf(<<letter, "y">>, Vowels, <<letter, "i">>)

Yoon ==
    YoonRow("k") @@ YoonRow("s") @@ YoonRow("t") @@ YoonRow("n") @@ YoonRow("h")
        @@ YoonRow("m") @@ YoonRow("r") @@ YoonRow("g") @@ YoonRow("z") @@ YoonRow("d")
        @@ YoonRow("b") @@ YoonRow("p")
        @@ YoonOf(<<"s", "h">>, Vowels \ {"i"}, <<"s", "i">>)
        @@ YoonOf(<<"c", "h">>, Vowels \ {"i"}, <<"t", "i">>)
        @@ YoonOf(<<"j">>, Vowels \ {"i"}, <<"z", "i">>)
        @@ YoonOf(<<"j", "y">>, Vowels, <<"z", "i">>)
        @@ YoonOf(<<"c", "y">>, Vowels, <<"t", "i">>)

\* Sounds of loanwords: a kana and a small vowel, or a small y kana.
SmallVowel(letters, vowels, kana) ==
    [key \in Keys(letters, vowels) |-> <<kana, <<"x", VowelOf(key)>> >>]

Loanwords ==
    SmallVowel(<<"f">>, Vowels \ {"u"}, <<"h", "u">>)
        @@ YoonOf(<<"f", "y">>, {"a", "u", "o"}, <<"h", "u">>)
        @@ YoonOf(<<"t", "h">>, Vowels, <<"t", "e">>)
        @@ YoonOf(<<"d", "h">>, Vowels, <<"d", "e">>)
        @@ SmallVowel(<<"v">>, Vowels \ {"u"}, <<"v", "u">>)
        @@ SmallVowel(<<"t", "s">>, Vowels \ {"u"}, <<"t", "u">>)
        @@ SmallVowel(<<"k", "w">>, Vowels \ {"u"}, <<"k", "u">>)
        @@ SmallVowel(<<"g", "w">>, Vowels \ {"u"}, <<"g", "u">>)
        @@ SmallVowel(<<"w", "h">>, Vowels \ {"u"}, <<"u">>)

RULES == Themselves @@ HepburnKana @@ Escapes @@ HatsuonSpellings @@ Yoon @@ Loanwords
=============================================================================
