----------------------------- MODULE UserVocab -----------------------------
(***************************************************************************)
(* The table user_vocab (SqliteUserVocabStore): the checks and the insert of *)
(* a new word are three statements under the mutex of the process, which     *)
(* other processes do not see.                                               *)
(***************************************************************************)
EXTENDS Database

CONSTANTS
    Words,          \* pairs of a surface and a reading
    VocabMaxRows    \* USER_VOCAB_MAX_ROWS

ASSUME VocabAssumption == Words # {} /\ VocabMaxRows \in Nat \ {0}

VARIABLES
    vocab,      \* the rows: an id and its word
    lastId,     \* sqlite_sequence: the greatest id ever given
    word,       \* the word each process adds
    known       \* history: every row there ever was, as a list may have shown it

vocabVars == <<vocab, lastId, word, known>>

VocabRows == [id : Nat \ {0}, word : Words]

InVocab(w) == \E r \in vocab : r.word = w

VocabInit ==
    /\ vocab = {}
    /\ lastId = 0
    /\ word = [p \in Processes |-> CHOOSE w \in Words : TRUE]
    /\ known = {}

\* insert: the word is there already, DuplicateEntry.
AddFindsDuplicate(p, w) ==
    /\ at[p] = "idle"
    /\ InVocab(w)
    /\ UNCHANGED <<at, vocabVars>>

\* insert, its first statement.
Add(p, w) ==
    /\ at[p] = "idle"
    /\ ~ InVocab(w)
    /\ word' = [word EXCEPT ![p] = w]
    /\ Goes(p, "quota")
    /\ UNCHANGED <<vocab, lastId, known>>

\* Mutant: one row more than the quota is let through.
QuotaOffByOne(p) ==
    /\ at[p] = "quota"
    /\ Goes(p, IF Cardinality(vocab) > VocabMaxRows THEN "idle" ELSE "inserting")
    /\ UNCHANGED vocabVars

\* Its second: a row at offset max - 1 means QuotaExceeded.
ChecksQuota(p) ==
    /\ at[p] = "quota"
    /\ Goes(p, IF Cardinality(vocab) >= VocabMaxRows THEN "idle" ELSE "inserting")
    /\ UNCHANGED vocabVars

\* Mutant: INTEGER PRIMARY KEY alone gives the greatest id in use plus one.
FirstFreeId ==
    CHOOSE i \in 1..(lastId + 1) :
        /\ \A r \in vocab : r.id < i
        /\ i = 1 \/ \E r \in vocab : r.id = i - 1

\* AUTOINCREMENT: greater than any id before it, rows removed since included.
\* (Inserts that fail may leave gaps; only the order of ids is of use here.)
NewId == lastId + 1

\* The row with the word that p adds.
Row(p) == [id |-> NewId, word |-> word[p]]

\* Its third.  UNIQUE(surface, reading) rejects a word added meanwhile.
Inserts(p) ==
    /\ at[p] = "inserting"
    /\ Goes(p, "idle")
    /\ IF InVocab(word[p])
       THEN UNCHANGED <<vocab, lastId, known>>
       ELSE /\ vocab' = vocab \cup {Row(p)}
            /\ known' = known \cup {Row(p)}
            /\ lastId' = NewId
    /\ UNCHANGED word

\* delete_by_id, with an id that some list showed; without a row, NotFound.
RemoveById(p, id) ==
    /\ at[p] = "idle"
    /\ vocab' = {r \in vocab : r.id # id}
    /\ UNCHANGED <<at, lastId, word, known>>

\* delete_by_surface_reading.
RemoveWord(p, w) ==
    /\ at[p] = "idle"
    /\ vocab' = {r \in vocab : r.word # w}
    /\ UNCHANGED <<at, lastId, word, known>>

-----------------------------------------------------------------------------

VocabTypeOK ==
    /\ vocab \subseteq VocabRows
    /\ lastId \in Nat
    /\ word \in [Processes -> Words]
    /\ known \subseteq VocabRows

\* The quota is exceeded at most by the processes that add at the same time,
\* beyond the first (insert's check and its INSERT are under a mutex of the
\* process only).
QuotaHolds == Cardinality(vocab) <= VocabMaxRows + Cardinality(Clis) - 1

\* An id that a list showed never comes to name another word, whatever was
\* removed and added meanwhile by other processes: remove <id> takes the word
\* the user saw or none (AUTOINCREMENT, delete_by_id).
IdsAreForever == \A r, s \in known : r.id = s.id => r = s
=============================================================================
