------------------------------ MODULE Storage ------------------------------
(***************************************************************************)
(* kotoha-storage as its users see it: the engine and the command lines at   *)
(* work on one file, statement by statement, any of them ending at any time. *)
(***************************************************************************)
EXTENDS UserVocab, LearningCache

CONSTANT MaxCalls   \* bound of the calls made to the two stores

ASSUME CallsAssumption == MaxCalls \in Nat

VARIABLE calls      \* how many were made

vars == <<databaseVars, vocabVars, cacheVars, calls>>

Init == DatabaseInit /\ VocabInit /\ CacheInit /\ calls = 0

Called == calls < MaxCalls /\ calls' = calls + 1

\* Database::open by any process.
Opening(p) ==
    /\ Open(p) \/ Collides(p) \/ Creates(p) \/ SetVersion(p)
    /\ UNCHANGED <<vocabVars, cacheVars, calls>>

VocabCall(p) ==
    /\ \/ \E w \in Words : Add(p, w) \/ AddFindsDuplicate(p, w) \/ RemoveWord(p, w)
       \/ \E r \in known : RemoveById(p, r.id)
    /\ Called
    /\ UNCHANGED <<created, version, migration, ran, cacheVars>>

VocabStatement(p) ==
    /\ ChecksQuota(p) \/ Inserts(p)
    /\ UNCHANGED <<created, version, migration, ran, cacheVars, calls>>

CacheCall ==
    /\ (\E k \in Picks : RecordChoice(k)) \/ (\E n \in EvictLimits : EvictLru(n))
    /\ Called
    /\ UNCHANGED <<created, version, migration, ran, vocabVars>>

CacheStatement ==
    /\ Upsert \/ Counts \/ Evicts
    /\ UNCHANGED <<created, version, migration, ran, vocabVars, calls>>

\* SQLITE_BUSY after the busy timeout, a full disk: the call returns an error.
StatementFails(p) ==
    /\ Connected(p) /\ at[p] # "idle"
    /\ Goes(p, "idle")
    /\ IF p = Engine THEN CallLapses ELSE UNCHANGED cacheVars
    /\ UNCHANGED <<created, version, migration, ran, vocabVars, calls>>

\* A command line that has done its work, a crash, an open that failed.
ProcessEnds(p) ==
    /\ Ends(p)
    /\ IF p = Engine THEN CallLapses ELSE UNCHANGED cacheVars
    /\ UNCHANGED <<vocabVars, calls>>

ClockMoves ==
    /\ Ticks \/ StepsBack
    /\ UNCHANGED <<databaseVars, vocabVars, calls>>

Next ==
    \/ \E p \in Processes : Opening(p) \/ StatementFails(p) \/ ProcessEnds(p)
    \/ \E p \in Clis : VocabCall(p) \/ VocabStatement(p)
    \/ CacheCall
    \/ CacheStatement
    \/ ClockMoves

Spec == Init /\ [][Next]_vars

-----------------------------------------------------------------------------

\* The types of the file, of its tables and of the places of the processes.
TypeOK == DatabaseTypeOK /\ VocabTypeOK /\ CacheTypeOK /\ calls \in Nat

\* A version in the file means that everything of that version and of those
\* before it is there, whoever created it and whoever died meanwhile
\* (apply_migrations: the version is set after the statements).
SchemaMatchesVersion == SchemaOf(version) \subseteq created

\* Who holds a connection finds the whole schema: no statement of the stores
\* meets a missing table (Database::open).
ConnectedFindSchema == \A p \in Processes : Connected(p) => created = SchemaOf(LatestVersion)

\* The version in the file never goes back, although a slow process may set
\* the one it has been working for.
VersionNeverFalls == [][version' >= version]_version

\* Kept, in every step: what record_choice recorded is there when it returns.
RecordedIsKept == [][Kept]_vars

\* An open is never turned away because another process opens the file at the
\* same time, or did and died on the way (docs/adr/0015, C2 and R1).
OpenNeverCollides == [][\A p \in Processes : ~ Collides(p)]_vars
=============================================================================
