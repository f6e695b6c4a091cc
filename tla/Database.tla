------------------------------ MODULE Database ------------------------------
(***************************************************************************)
(* The file kotoha.db and the processes that open it: the engine (kotoha-   *)
(* bin) and the command line (kotoha-dict), each with one connection behind *)
(* a mutex.  SQLite, which is external, runs one statement at a time and    *)
(* commits it by itself; nothing of the crate is in a larger transaction.   *)
(* So a statement is a step here, and a process may end between any two.    *)
(***************************************************************************)
EXTENDS Naturals, Sequences, FiniteSets

CONSTANTS
    Engine,     \* the process that records choices
    Clis        \* the processes that add and remove words

ASSUME ProcessesAssumption == IsFiniteSet(Clis) /\ Clis # {} /\ Engine \notin Clis

Processes == {Engine} \cup Clis

VARIABLES
    created,    \* the tables and indexes in the file
    version,    \* PRAGMA user_version
    at,         \* where each process stands
    migration,  \* the migration a process applies
    ran         \* how many of its statements have run

databaseVars == <<created, version, at, migration, ran>>

\* v001_initial.sql and v002_learning_cache_index.sql: what each statement
\* creates, in their order.  None says IF NOT EXISTS.
Migrations ==
    << <<"user_vocab", "idx_user_vocab_reading", "learning_cache", "idx_learning_cache_kana">>,
       <<"idx_learning_cache_last_used">> >>

LatestVersion == Len(Migrations)

Places == {"closed", "migrating", "bumping", "idle",
           "quota", "inserting", "stamped", "counting", "evicting"}

\* A process that has the connection and is not in the middle of opening it.
Connected(p) == at[p] \notin {"closed", "migrating", "bumping"}

Goes(p, place) == at' = [at EXCEPT ![p] = place]

DatabaseInit ==
    /\ created = {}
    /\ version = 0
    /\ at = [p \in Processes |-> "closed"]
    /\ migration = [p \in Processes |-> 0]
    /\ ran = [p \in Processes |-> 0]

\* Mutant: the loop goes one version too far.
AppliesFrom(p, v) ==
    /\ Goes(p, IF v <= LatestVersion THEN "migrating" ELSE "idle")
    /\ migration' = [migration EXCEPT ![p] = IF v <= LatestVersion THEN v + 1 ELSE 0]
    /\ ran' = [ran EXCEPT ![p] = 0]

\* Enters the loop of apply_migrations with the versions above v.
AppliesAfter(p, v) ==
    /\ Goes(p, IF v < LatestVersion THEN "migrating" ELSE "idle")
    /\ migration' = [migration EXCEPT ![p] = IF v < LatestVersion THEN v + 1 ELSE 0]
    /\ ran' = [ran EXCEPT ![p] = 0]

\* Database::open up to the version it reads.
Open(p) ==
    /\ at[p] = "closed"
    /\ AppliesAfter(p, version)
    /\ UNCHANGED <<created, version>>

NextObject(p) == Migrations[migration[p]][ran[p] + 1]

\* Mutant: execute_batch goes on after a statement that failed.
CollidesAndGoesOn(p) ==
    /\ at[p] = "migrating"
    /\ NextObject(p) \in created
    /\ Goes(p, "bumping")
    /\ UNCHANGED <<created, version, migration, ran>>

\* The statement finds its table or index in the file: the open fails.
Collides(p) ==
    /\ at[p] = "migrating"
    /\ NextObject(p) \in created
    /\ Goes(p, "closed")
    /\ migration' = [migration EXCEPT ![p] = 0]
    /\ ran' = [ran EXCEPT ![p] = 0]
    /\ UNCHANGED <<created, version>>

\* Mutant: CREATE ... IF NOT EXISTS.
CreatesIfMissing(p) ==
    /\ at[p] = "migrating"
    /\ created' = created \cup {NextObject(p)}
    /\ ran' = [ran EXCEPT ![p] = @ + 1]
    /\ Goes(p, IF ran[p] + 1 = Len(Migrations[migration[p]]) THEN "bumping" ELSE "migrating")
    /\ UNCHANGED <<version, migration>>

Creates(p) ==
    /\ at[p] = "migrating"
    /\ NextObject(p) \notin created
    /\ created' = created \cup {NextObject(p)}
    /\ ran' = [ran EXCEPT ![p] = @ + 1]
    /\ Goes(p, IF ran[p] + 1 = Len(Migrations[migration[p]]) THEN "bumping" ELSE "migrating")
    /\ UNCHANGED <<version, migration>>

\* PRAGMA user_version, a statement of its own, and on to the next migration.
SetVersion(p) ==
    /\ at[p] = "bumping"
    /\ version' = migration[p]
    /\ AppliesAfter(p, migration[p])
    /\ UNCHANGED created

\* The process exits, is killed, or gives up an open that failed.
Ends(p) ==
    /\ at[p] # "closed"
    /\ Goes(p, "closed")
    /\ migration' = [migration EXCEPT ![p] = 0]
    /\ ran' = [ran EXCEPT ![p] = 0]
    /\ UNCHANGED <<created, version>>

-----------------------------------------------------------------------------

\* The objects the migrations up to v create.
SchemaOf(v) == UNION {{Migrations[i][j] : j \in 1..Len(Migrations[i])} : i \in 1..v}

DatabaseTypeOK ==
    /\ created \subseteq SchemaOf(LatestVersion)
    /\ version \in 0..LatestVersion
    /\ at \in [Processes -> Places]
    /\ migration \in [Processes -> 0..LatestVersion]
    /\ ran \in [Processes -> Nat]
    /\ \A p \in Processes : at[p] \in {"migrating", "bumping"} =>
          migration[p] \in 1..LatestVersion /\ ran[p] \in 0..Len(Migrations[migration[p]])
=============================================================================
