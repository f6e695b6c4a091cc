---------------------------- MODULE StorageProofs ----------------------------
(***************************************************************************)
(* For any number of command lines, words, choices and any limits: the       *)
(* schema is there for whoever is connected, ids are for ever, the quota is  *)
(* exceeded by races only, and the cache keeps its limit and what it has     *)
(* just recorded.                                                            *)
(***************************************************************************)
EXTENDS Storage, FiniteSetTheorems, TLAPS

-----------------------------------------------------------------------------
(***************************************************************************)
(* The migrations.                                                          *)
(***************************************************************************)

LEMMA MigrationFacts ==
    /\ LatestVersion = 2
    /\ \A m \in 1..LatestVersion : Len(Migrations[m]) \in Nat \ {0}
<1>1. LatestVersion = 2
  BY DEF LatestVersion, Migrations
<1>2. Len(Migrations[1]) = 4 /\ Len(Migrations[2]) = 1
  BY DEF Migrations
<1>3. QED
  BY <1>1, <1>2

\* The schema of a version is the one before it and the version's own objects.
LEMMA SchemaGrows ==
    /\ SchemaOf(0) = {}
    /\ \A m \in 1..LatestVersion : \A o :
          o \in SchemaOf(m) <=>
             o \in SchemaOf(m - 1) \/ \E j \in 1..Len(Migrations[m]) : o = Migrations[m][j]
    /\ \A v, w \in 0..LatestVersion : v <= w => SchemaOf(v) \subseteq SchemaOf(w)
<1>1. \A v, o : o \in SchemaOf(v) <=>
          \E i \in 1..v : \E j \in 1..Len(Migrations[i]) : o = Migrations[i][j]
  BY DEF SchemaOf
<1>2. SchemaOf(0) = {}
  BY <1>1
<1>3. ASSUME NEW v \in 0..LatestVersion, NEW w \in 0..LatestVersion, v <= w
      PROVE  SchemaOf(v) \subseteq SchemaOf(w)
  <2>1. 1..v \subseteq 1..w
    BY <1>3, MigrationFacts
  <2>2. QED
    BY <1>1, <2>1
<1>4. ASSUME NEW m \in 1..LatestVersion, NEW o
      PROVE  o \in SchemaOf(m) <=>
                o \in SchemaOf(m - 1) \/ \E j \in 1..Len(Migrations[m]) : o = Migrations[m][j]
  <2>1. 1..m = 1..(m - 1) \cup {m}
    BY MigrationFacts
  <2>2. QED
    BY <1>1, <2>1
<1>5. QED
  BY <1>2, <1>3, <1>4

\* A process that has created part of a migration.
Begun(p) == at[p] \in {"migrating", "bumping"} /\ ran[p] # 0

Opens(p) == at[p] \in {"migrating", "bumping"}

SchemaInv ==
    /\ SchemaMatchesVersion
    /\ \A p \in Processes :
          /\ at[p] = "bumping" => ran[p] = Len(Migrations[migration[p]])
          /\ at[p] = "migrating" => ran[p] < Len(Migrations[migration[p]])
          /\ Opens(p) => /\ version >= migration[p] - 1
                         /\ \A j \in 1..ran[p] : Migrations[migration[p]][j] \in created
          /\ Begun(p) => version = migration[p] - 1
          /\ Connected(p) => version = LatestVersion
    /\ \A p, q \in Processes : Begun(p) /\ Begun(q) => p = q

\* Whatever does not touch the file keeps the invariant, processes that end
\* and calls to the stores included.
LEMMA SchemaStays ==
    ASSUME DatabaseTypeOK, SchemaInv, UNCHANGED <<created, version>>,
           \A p \in Processes :
              \/ at'[p] = at[p] /\ migration'[p] = migration[p] /\ ran'[p] = ran[p]
              \/ at'[p] = "closed"
              \/ Connected(p) /\ at'[p] \notin {"closed", "migrating", "bumping"}
    PROVE  SchemaInv'
<1>1. SchemaMatchesVersion'
  BY DEF SchemaInv, SchemaMatchesVersion, SchemaOf, Migrations
<1>2. \A p \in Processes : Begun(p)' =>
          Begun(p) /\ migration'[p] = migration[p] /\ ran'[p] = ran[p]
  BY DEF Begun
<1>3. ASSUME NEW p \in Processes
      PROVE  /\ (at[p] = "bumping" => ran[p] = Len(Migrations[migration[p]]))'
             /\ (at[p] = "migrating" => ran[p] < Len(Migrations[migration[p]]))'
             /\ (Opens(p) => /\ version >= migration[p] - 1
                             /\ \A j \in 1..ran[p] : Migrations[migration[p]][j] \in created)'
             /\ (Connected(p) => version = LatestVersion)'
  <2>1. CASE at'[p] = at[p] /\ migration'[p] = migration[p] /\ ran'[p] = ran[p]
    BY <2>1 DEF SchemaInv, Opens, Connected
  <2>2. CASE at'[p] = "closed"
    BY <2>2 DEF Opens, Connected
  <2>3. CASE Connected(p) /\ at'[p] \notin {"closed", "migrating", "bumping"}
    BY <2>3 DEF SchemaInv, Opens, Connected
  <2>4. QED
    BY <2>1, <2>2, <2>3
<1>4. QED
  BY <1>1, <1>2, <1>3 DEF SchemaInv

LEMMA OpenKeepsSchema ==
    ASSUME DatabaseTypeOK, SchemaInv, NEW p \in Processes, Open(p)
    PROVE  SchemaInv'
<1> USE MigrationFacts DEF DatabaseTypeOK
<1>1. /\ at' = [at EXCEPT ![p] = IF version < LatestVersion THEN "migrating" ELSE "idle"]
      /\ migration' = [migration EXCEPT ![p] = IF version < LatestVersion THEN version + 1 ELSE 0]
      /\ ran' = [ran EXCEPT ![p] = 0]
      /\ UNCHANGED <<created, version>>
  BY DEF Open, AppliesAfter, Goes
<1>2. SchemaMatchesVersion'
  BY <1>1 DEF SchemaInv, SchemaMatchesVersion, SchemaOf, Migrations
<1>3. \A q \in Processes : Begun(q)' => q # p /\ Begun(q)
  BY <1>1 DEF Begun
<1>4. ASSUME NEW q \in Processes
      PROVE  /\ (at[q] = "bumping" => ran[q] = Len(Migrations[migration[q]]))'
             /\ (at[q] = "migrating" => ran[q] < Len(Migrations[migration[q]]))'
             /\ (Opens(q) => /\ version >= migration[q] - 1
                             /\ \A j \in 1..ran[q] : Migrations[migration[q]][j] \in created)'
             /\ (Begun(q) => version = migration[q] - 1)'
             /\ (Connected(q) => version = LatestVersion)'
  <2>1. CASE q = p
    <3>1. CASE version < LatestVersion
      <4>1. version + 1 \in 1..LatestVersion
        BY <3>1
      <4>2. Len(Migrations[version + 1]) \in Nat \ {0}
        BY <4>1
      <4>3. at'[p] = "migrating" /\ migration'[p] = version + 1 /\ ran'[p] = 0
        BY <1>1, <3>1
      <4>4. QED
        BY <2>1, <4>2, <4>3, <1>1 DEF Opens, Connected, Begun
    <3>2. CASE ~ (version < LatestVersion)
      BY <1>1, <2>1, <3>2 DEF Opens, Connected, Begun
    <3>3. QED
      BY <3>1, <3>2
  <2>2. CASE q # p
    BY <1>1, <2>2 DEF SchemaInv, Opens, Connected, Begun
  <2>3. QED
    BY <2>1, <2>2
<1>5. \A q, r \in Processes : (Begun(q) /\ Begun(r) => q = r)'
  BY <1>3 DEF SchemaInv
<1>6. QED
  BY <1>2, <1>4, <1>5 DEF SchemaInv

\* Whoever creates the first object of a migration finds neither a version
\* that has it nor another process that began it.
LEMMA CreateKeepsSchema ==
    ASSUME DatabaseTypeOK, SchemaInv, NEW p \in Processes, Creates(p)
    PROVE  SchemaInv'
<1> USE MigrationFacts DEF DatabaseTypeOK
<1> DEFINE m == migration[p]
<1>1. /\ at[p] = "migrating"
      /\ Migrations[m][ran[p] + 1] \notin created
      /\ created' = created \cup {Migrations[m][ran[p] + 1]}
      /\ ran' = [ran EXCEPT ![p] = @ + 1]
      /\ at' = [at EXCEPT ![p] = IF ran[p] + 1 = Len(Migrations[m]) THEN "bumping" ELSE "migrating"]
      /\ UNCHANGED <<version, migration>>
  BY DEF Creates, Goes, NextObject
<1>2. /\ m \in 1..LatestVersion
      /\ Len(Migrations[m]) \in Nat \ {0}
      /\ ran[p] \in Nat /\ ran[p] < Len(Migrations[m])
      /\ version \in 0..LatestVersion /\ version >= m - 1
  BY <1>1 DEF SchemaInv, Opens
<1>3. SchemaMatchesVersion'
  BY <1>1 DEF SchemaInv, SchemaMatchesVersion, SchemaOf, Migrations
<1>4. version = m - 1
  <2>1. CASE ran[p] = 0
    <3>1. SUFFICES ASSUME version >= m PROVE FALSE
      BY <1>2
    <3>2. Migrations[m][1] \in SchemaOf(m)
      BY <1>2, SchemaGrows
    <3>3. SchemaOf(m) \subseteq SchemaOf(version)
      BY <1>2, <3>1, SchemaGrows
    <3>4. QED
      BY <1>1, <2>1, <3>2, <3>3 DEF SchemaInv, SchemaMatchesVersion
  <2>2. CASE ran[p] # 0
    BY <1>1, <2>2 DEF SchemaInv, Begun
  <2>3. QED
    BY <2>1, <2>2
<1>5. ASSUME NEW q \in Processes, Begun(q) PROVE q = p
  <2>1. CASE ran[p] # 0
    BY <1>1, <1>5, <2>1 DEF SchemaInv, Begun
  <2>2. CASE ran[p] = 0
    <3>1. SUFFICES ASSUME q # p PROVE FALSE
      OBVIOUS
    <3>2. version = migration[q] - 1 /\ migration[q] \in 1..LatestVersion
      BY <1>5 DEF SchemaInv, Begun
    <3>3. migration[q] = m
      BY <3>2, <1>4, <1>2
    <3>4. ran[q] \in Nat \ {0}
      BY <1>5 DEF Begun
    <3>5. Migrations[m][1] \in created
      BY <1>5, <3>3, <3>4 DEF SchemaInv, Begun, Opens
    <3>6. QED
      BY <1>1, <2>2, <3>5
  <2>3. QED
    BY <2>1, <2>2
<1>6. ASSUME NEW q \in Processes
      PROVE  /\ (at[q] = "bumping" => ran[q] = Len(Migrations[migration[q]]))'
             /\ (at[q] = "migrating" => ran[q] < Len(Migrations[migration[q]]))'
             /\ (Opens(q) => /\ version >= migration[q] - 1
                             /\ \A j \in 1..ran[q] : Migrations[migration[q]][j] \in created)'
             /\ (Begun(q) => version = migration[q] - 1)'
             /\ (Connected(q) => version = LatestVersion)'
  <2>1. CASE q = p
    <3>1. \A j \in 1..(ran[p] + 1) : Migrations[m][j] \in created'
      <4>1. \A j \in 1..ran[p] : Migrations[m][j] \in created
        BY <1>1 DEF SchemaInv, Opens
      <4>2. \A j \in 1..(ran[p] + 1) : j \in 1..ran[p] \/ j = ran[p] + 1
        BY <1>2
      <4>3. QED
        BY <1>1, <4>1, <4>2
    <3>2. ran'[p] = ran[p] + 1 /\ migration'[p] = m
      BY <1>1
    <3>3. at'[p] = IF ran[p] + 1 = Len(Migrations[m]) THEN "bumping" ELSE "migrating"
      BY <1>1
    <3>4. QED
      BY <1>1, <1>2, <1>4, <2>1, <3>1, <3>2, <3>3 DEF Opens, Connected, Begun
  <2>2. CASE q # p
    BY <1>1, <2>2 DEF SchemaInv, Opens, Connected, Begun
  <2>3. QED
    BY <2>1, <2>2
<1>7. \A q, r \in Processes : (Begun(q) /\ Begun(r) => q = r)'
  <2>1. \A q \in Processes : Begun(q)' => q = p
    BY <1>1, <1>5 DEF Begun
  <2>2. QED
    BY <2>1
<1>8. QED
  BY <1>3, <1>6, <1>7 DEF SchemaInv

\* The version that is set is the next one, and nobody else is at it.
LEMMA BumpKeepsSchema ==
    ASSUME DatabaseTypeOK, SchemaInv, NEW p \in Processes, SetVersion(p)
    PROVE  SchemaInv' /\ version' = version + 1
<1> USE MigrationFacts DEF DatabaseTypeOK
<1> DEFINE m == migration[p]
<1>1. /\ at[p] = "bumping"
      /\ version' = m
      /\ at' = [at EXCEPT ![p] = IF m < LatestVersion THEN "migrating" ELSE "idle"]
      /\ migration' = [migration EXCEPT ![p] = IF m < LatestVersion THEN m + 1 ELSE 0]
      /\ ran' = [ran EXCEPT ![p] = 0]
      /\ UNCHANGED created
  BY DEF SetVersion, AppliesAfter, Goes
<1>2. /\ m \in 1..LatestVersion
      /\ ran[p] = Len(Migrations[m]) /\ ran[p] \in Nat \ {0}
      /\ Begun(p)
  BY <1>1 DEF SchemaInv, Begun
<1>3. version = m - 1 /\ version \in 0..LatestVersion
  BY <1>2 DEF SchemaInv
<1>4. \A q \in Processes : Begun(q) => q = p
  BY <1>2 DEF SchemaInv
<1>5. SchemaMatchesVersion'
  <2>1. \A j \in 1..Len(Migrations[m]) : Migrations[m][j] \in created
    BY <1>1, <1>2 DEF SchemaInv, Opens
  <2>2. SchemaOf(m - 1) \subseteq created
    BY <1>3 DEF SchemaInv, SchemaMatchesVersion
  <2>3. SchemaOf(m) \subseteq created
    BY <1>2, <2>1, <2>2, SchemaGrows
  <2>4. QED
    BY <1>1, <2>3 DEF SchemaMatchesVersion, SchemaOf, Migrations
<1>6. \A q \in Processes : ~ Begun(q)'
  BY <1>1, <1>4 DEF Begun
<1>7. ASSUME NEW q \in Processes
      PROVE  /\ (at[q] = "bumping" => ran[q] = Len(Migrations[migration[q]]))'
             /\ (at[q] = "migrating" => ran[q] < Len(Migrations[migration[q]]))'
             /\ (Opens(q) => /\ version >= migration[q] - 1
                             /\ \A j \in 1..ran[q] : Migrations[migration[q]][j] \in created)'
             /\ (Connected(q) => version = LatestVersion)'
  <2>1. CASE q = p
    <3>1. CASE m < LatestVersion
      <4>1. Len(Migrations[m + 1]) \in Nat \ {0}
        BY <1>2, <3>1
      <4>2. at'[p] = "migrating" /\ migration'[p] = m + 1 /\ ran'[p] = 0
        BY <1>1, <3>1
      <4>3. QED
        BY <1>1, <1>2, <2>1, <4>1, <4>2 DEF Opens, Connected
    <3>2. CASE ~ (m < LatestVersion)
      BY <1>1, <1>2, <2>1, <3>2 DEF Opens, Connected
    <3>3. QED
      BY <3>1, <3>2
  <2>2. CASE q # p
    <3>1. /\ at'[q] = at[q] /\ migration'[q] = migration[q] /\ ran'[q] = ran[q]
          /\ migration[q] \in 0..LatestVersion
      BY <1>1, <2>2
    <3>2. version' = version + 1
      BY <1>1, <1>2, <1>3
    <3>3. ~ Connected(q)
      BY <1>2, <1>3 DEF SchemaInv
    <3>4. QED
      BY <1>1, <1>3, <3>1, <3>2, <3>3 DEF SchemaInv, Opens, Connected
  <2>3. QED
    BY <2>1, <2>2
<1>8. version' = version + 1
  BY <1>1, <1>2, <1>3
<1>9. QED
  BY <1>5, <1>6, <1>7, <1>8 DEF SchemaInv

FileUntouched == UNCHANGED <<created, version, migration, ran>>

\* A call to the stores goes from one of their places to another.
StoreMoves == \A p \in Processes :
    \/ at'[p] = at[p]
    \/ Connected(p) /\ at'[p] \notin {"closed", "migrating", "bumping"}

LEMMA StoresKeepFile ==
    ASSUME DatabaseTypeOK, SchemaInv, FileUntouched, StoreMoves, at' \in [Processes -> Places]
    PROVE  DatabaseTypeOK' /\ SchemaInv'
<1>1. SchemaInv'
  BY SchemaStays DEF FileUntouched, StoreMoves
<1>2. DatabaseTypeOK'
  BY DEF DatabaseTypeOK, FileUntouched, StoreMoves, SchemaOf, Migrations, LatestVersion
<1>3. QED
  BY <1>1, <1>2

\* A call to the stores, or a statement of one, by one process.
LEMMA MoveKeepsFile ==
    ASSUME DatabaseTypeOK, SchemaInv, FileUntouched, NEW p \in Processes, Connected(p),
           NEW place \in {"idle", "quota", "inserting", "stamped", "counting", "evicting"},
           at' = [at EXCEPT ![p] = place]
    PROVE  DatabaseTypeOK' /\ SchemaInv'
<1>1. at \in [Processes -> Places]
  BY DEF DatabaseTypeOK
<1>2. place \in Places /\ place \notin {"closed", "migrating", "bumping"}
  BY DEF Places
<1>3. at' \in [Processes -> Places]
  BY <1>1, <1>2
<1>4. \A q \in Processes : at'[q] = IF q = p THEN place ELSE at[q]
  BY <1>1
<1>5. StoreMoves
  BY <1>2, <1>4 DEF StoreMoves
<1>6. QED
  BY <1>3, <1>5, StoresKeepFile

LEMMA FileStays ==
    ASSUME DatabaseTypeOK, SchemaInv, UNCHANGED databaseVars
    PROVE  DatabaseTypeOK' /\ SchemaInv'
<1>1. at' \in [Processes -> Places] /\ FileUntouched /\ StoreMoves
  BY DEF DatabaseTypeOK, databaseVars, FileUntouched, StoreMoves
<1>2. QED
  BY <1>1, StoresKeepFile

LEMMA EndKeepsFile ==
    ASSUME DatabaseTypeOK, SchemaInv, NEW p \in Processes, Ends(p)
    PROVE  DatabaseTypeOK' /\ SchemaInv'
<1>1. /\ at' = [at EXCEPT ![p] = "closed"]
      /\ migration' = [migration EXCEPT ![p] = 0]
      /\ ran' = [ran EXCEPT ![p] = 0]
      /\ UNCHANGED <<created, version>>
  BY DEF Ends, Goes
<1>2. SchemaInv'
  BY <1>1, SchemaStays DEF DatabaseTypeOK
<1>3. DatabaseTypeOK'
  BY <1>1, MigrationFacts DEF DatabaseTypeOK, Places, SchemaOf, Migrations, LatestVersion
<1>4. QED
  BY <1>2, <1>3

LEMMA AppliesTyped ==
    ASSUME DatabaseTypeOK, NEW p \in Processes, NEW v \in 0..LatestVersion, AppliesAfter(p, v)
    PROVE  /\ at' \in [Processes -> Places]
           /\ migration' \in [Processes -> 0..LatestVersion]
           /\ ran' \in [Processes -> Nat]
           /\ \A q \in Processes : at'[q] \in {"migrating", "bumping"} =>
                 migration'[q] \in 1..LatestVersion /\ ran'[q] \in 0..Len(Migrations[migration'[q]])
<1> USE MigrationFacts DEF DatabaseTypeOK
<1>1. /\ at' \in [Processes -> Places]
      /\ at'[p] # "bumping"
      /\ \A q \in Processes \ {p} : at'[q] = at[q]
  BY DEF AppliesAfter, Goes, Places
<1>2. /\ migration' \in [Processes -> 0..LatestVersion]
      /\ at'[p] = "migrating" => migration'[p] \in 1..LatestVersion
      /\ \A q \in Processes \ {p} : migration'[q] = migration[q]
  BY DEF AppliesAfter, Goes
<1>3. /\ ran' \in [Processes -> Nat]
      /\ ran'[p] = 0
      /\ \A q \in Processes \ {p} : ran'[q] = ran[q]
  BY DEF AppliesAfter
<1>4. ASSUME NEW q \in Processes, at'[q] \in {"migrating", "bumping"}
      PROVE  migration'[q] \in 1..LatestVersion /\ ran'[q] \in 0..Len(Migrations[migration'[q]])
  <2>1. CASE q = p
    <3>1. migration'[q] \in 1..LatestVersion /\ ran'[q] = 0
      BY <1>1, <1>2, <1>3, <1>4, <2>1
    <3>2. QED
      BY <3>1
  <2>2. CASE q # p
    BY <1>1, <1>2, <1>3, <1>4, <2>2
  <2>3. QED
    BY <2>1, <2>2
<1>5. QED
  BY <1>1, <1>2, <1>3, <1>4

LEMMA OpeningKeepsFile ==
    ASSUME DatabaseTypeOK, SchemaInv, NEW p \in Processes,
           Open(p) \/ Collides(p) \/ Creates(p) \/ SetVersion(p)
    PROVE  DatabaseTypeOK' /\ SchemaInv'
<1> USE MigrationFacts
<1>1. CASE Open(p)
  <2>1. UNCHANGED <<created, version>> /\ AppliesAfter(p, version)
    BY <1>1 DEF Open
  <2>2. DatabaseTypeOK'
    BY <2>1, AppliesTyped DEF DatabaseTypeOK
  <2>3. QED
    BY <1>1, <2>2, OpenKeepsSchema
<1>2. CASE Collides(p)
  <2>1. Ends(p)
    BY <1>2 DEF Collides, Ends
  <2>2. QED
    BY <2>1, EndKeepsFile
<1>3. CASE Creates(p)
  <2>1. /\ migration[p] \in 1..LatestVersion
        /\ ran[p] + 1 \in 1..Len(Migrations[migration[p]])
    BY <1>3 DEF Creates, DatabaseTypeOK, SchemaInv
  <2>2. NextObject(p) \in SchemaOf(LatestVersion)
    <3>1. NextObject(p) \in SchemaOf(migration[p])
      BY <2>1, SchemaGrows DEF NextObject
    <3>2. SchemaOf(migration[p]) \subseteq SchemaOf(LatestVersion)
      BY <2>1, SchemaGrows
    <3>3. QED
      BY <3>1, <3>2
  <2>3. DatabaseTypeOK'
    <3>1. created' \subseteq SchemaOf(LatestVersion)'
      BY <1>3, <2>2 DEF Creates, DatabaseTypeOK, SchemaOf, Migrations, LatestVersion
    <3>2. /\ ran' = [ran EXCEPT ![p] = ran[p] + 1] /\ ran' \in [Processes -> Nat]
          /\ UNCHANGED <<version, migration>>
      BY <1>3 DEF Creates, DatabaseTypeOK
    <3>3. /\ at' \in [Processes -> Places]
          /\ \A q \in Processes \ {p} : at'[q] = at[q]
      BY <1>3 DEF Creates, Goes, DatabaseTypeOK, Places
    <3>4. ASSUME NEW q \in Processes, at'[q] \in {"migrating", "bumping"}
          PROVE  migration'[q] \in 1..LatestVersion /\ ran'[q] \in 0..Len(Migrations[migration'[q]])
      <4>1. CASE q = p
        BY <2>1, <3>2, <4>1 DEF DatabaseTypeOK
      <4>2. CASE q # p
        BY <3>2, <3>3, <3>4, <4>2 DEF DatabaseTypeOK
      <4>3. QED
        BY <4>1, <4>2
    <3>5. QED
      BY <3>1, <3>2, <3>3, <3>4 DEF DatabaseTypeOK
  <2>4. QED
    BY <1>3, <2>3, CreateKeepsSchema
<1>4. CASE SetVersion(p)
  <2>1. migration[p] \in 1..LatestVersion
    BY <1>4 DEF SetVersion, DatabaseTypeOK
  <2>2. UNCHANGED created /\ version' \in 0..LatestVersion /\ AppliesAfter(p, migration[p])
    BY <1>4, <2>1 DEF SetVersion
  <2>3. DatabaseTypeOK'
    BY <2>1, <2>2, AppliesTyped DEF DatabaseTypeOK
  <2>4. QED
    BY <1>4, <2>3, BumpKeepsSchema
<1>5. QED
  BY <1>1, <1>2, <1>3, <1>4

-----------------------------------------------------------------------------
(***************************************************************************)
(* The vocabulary.                                                          *)
(***************************************************************************)

\* The processes between their check of the quota and their INSERT.
Adding == {p \in Clis : at[p] = "inserting"}

VocabInv ==
    /\ VocabTypeOK
    /\ IsFiniteSet(vocab)
    /\ vocab \subseteq known
    /\ \A r \in known : r.id <= lastId
    /\ IdsAreForever
    /\ Cardinality(vocab) + Cardinality(Adding) <= VocabMaxRows + Cardinality(Clis) - 1

LEMMA ClisCounted ==
    /\ Cardinality(Clis) \in Nat \ {0}
    /\ \A S \in SUBSET Clis : /\ IsFiniteSet(S)
                              /\ Cardinality(S) \in Nat
                              /\ Cardinality(S) <= Cardinality(Clis)
<1>1. Cardinality(Clis) \in Nat \ {0}
  BY ProcessesAssumption, FS_CardinalityType, FS_EmptySet
<1>2. ASSUME NEW S \in SUBSET Clis
      PROVE  /\ IsFiniteSet(S)
             /\ Cardinality(S) \in Nat
             /\ Cardinality(S) <= Cardinality(Clis)
  BY ProcessesAssumption, FS_Subset, FS_CardinalityType
<1>3. QED
  BY <1>1, <1>2

LEMMA VocabCounted ==
    ASSUME VocabInv
    PROVE  /\ Cardinality(vocab) \in Nat
           /\ \A S \in SUBSET vocab : IsFiniteSet(S) /\ Cardinality(S) \in Nat
                                      /\ Cardinality(S) <= Cardinality(vocab)
<1>1. IsFiniteSet(vocab)
  BY DEF VocabInv
<1>2. ASSUME NEW S \in SUBSET vocab
      PROVE  IsFiniteSet(S) /\ Cardinality(S) \in Nat /\ Cardinality(S) <= Cardinality(vocab)
  BY <1>1, FS_Subset, FS_CardinalityType
<1>3. QED
  BY <1>1, <1>2, FS_CardinalityType

\* Rows may go and processes may leave their insert.
LEMMA VocabShrinks ==
    ASSUME VocabInv, Adding' \subseteq Adding, vocab' \subseteq vocab,
           UNCHANGED <<lastId, known>>, word' \in [Processes -> Words]
    PROVE  VocabInv'
<1>1. Cardinality(vocab') <= Cardinality(vocab) /\ IsFiniteSet(vocab') /\ Cardinality(vocab') \in Nat
  BY VocabCounted
<1>2. IsFiniteSet(Adding)
  BY ClisCounted DEF Adding
<1>3. Cardinality(Adding') <= Cardinality(Adding) /\ Cardinality(Adding') \in Nat
      /\ Cardinality(Adding) \in Nat
  BY <1>2, FS_Subset, FS_CardinalityType
<1>4. Cardinality(vocab') + Cardinality(Adding') <= VocabMaxRows + Cardinality(Clis) - 1
  BY <1>1, <1>3, ClisCounted, VocabCounted, VocabAssumption DEF VocabInv
<1>5. QED
  BY <1>1, <1>4 DEF VocabInv, VocabTypeOK, IdsAreForever

LEMMA QuotaCheckKeepsVocab ==
    ASSUME VocabInv, at \in [Processes -> Places], NEW p \in Clis, ChecksQuota(p)
    PROVE  VocabInv'
<1>1. CASE Cardinality(vocab) >= VocabMaxRows
  <2>1. Adding' \subseteq Adding
    BY <1>1 DEF ChecksQuota, Goes, Adding, Processes
  <2>2. QED
    BY <2>1, VocabShrinks DEF ChecksQuota, vocabVars, VocabInv, VocabTypeOK
<1>2. CASE ~ (Cardinality(vocab) >= VocabMaxRows)
  <2>1. Adding' \in SUBSET Clis
    BY DEF Adding
  <2>2. Cardinality(Adding') <= Cardinality(Clis) /\ Cardinality(Adding') \in Nat
    BY <2>1, ClisCounted
  <2>3. Cardinality(vocab) <= VocabMaxRows - 1
    BY <1>2, VocabCounted, VocabAssumption
  <2>4. UNCHANGED vocabVars
    BY DEF ChecksQuota
  <2>5. Cardinality(vocab') + Cardinality(Adding') <= VocabMaxRows + Cardinality(Clis) - 1
    BY <2>2, <2>3, <2>4, ClisCounted, VocabCounted, VocabAssumption DEF vocabVars
  <2>6. QED
    BY <2>4, <2>5 DEF VocabInv, VocabTypeOK, IdsAreForever, vocabVars
<1>3. QED
  BY <1>1, <1>2

LEMMA InsertKeepsVocab ==
    ASSUME VocabInv, at \in [Processes -> Places], NEW p \in Clis, Inserts(p)
    PROVE  VocabInv'
<1>1. /\ at[p] = "inserting"
      /\ at' = [at EXCEPT ![p] = "idle"]
      /\ UNCHANGED word
      /\ p \in Processes
  BY DEF Inserts, Goes, Processes
<1>2. Adding' = Adding \ {p} /\ p \in Adding
  BY <1>1 DEF Adding, Processes
<1>3. CASE InVocab(word[p])
  BY <1>1, <1>2, <1>3, VocabShrinks DEF Inserts, VocabInv, VocabTypeOK
<1>4. CASE ~ InVocab(word[p])
  <2>1. /\ vocab' = vocab \cup {Row(p)}
        /\ known' = known \cup {Row(p)}
        /\ lastId' = lastId + 1
    BY <1>4 DEF Inserts, NewId
  <2>2. Row(p) = [id |-> lastId + 1, word |-> word[p]] /\ Row(p) \in VocabRows
    BY <1>1 DEF Row, NewId, VocabRows, VocabInv, VocabTypeOK
  <2>3. VocabTypeOK'
    BY <1>1, <2>1, <2>2 DEF VocabInv, VocabTypeOK
  <2>4. \A r \in known : r.id \in Nat /\ r.id <= lastId
    BY DEF VocabInv, VocabTypeOK, VocabRows
  <2>5. (\A r \in known : r.id <= lastId)' /\ IdsAreForever'
    BY <2>1, <2>2, <2>4 DEF VocabInv, VocabTypeOK, IdsAreForever
  <2>6. IsFiniteSet(vocab') /\ Cardinality(vocab') <= Cardinality(vocab) + 1 /\ Cardinality(vocab') \in Nat
    <3>1. IsFiniteSet(vocab) /\ Cardinality(vocab) \in Nat
      BY VocabCounted DEF VocabInv
    <3>2. QED
      BY <2>1, <3>1, FS_AddElement
  <2>7. Cardinality(Adding') = Cardinality(Adding) - 1 /\ Cardinality(Adding) \in Nat
    BY <1>2, ClisCounted, FS_RemoveElement DEF Adding
  <2>8. Cardinality(vocab') + Cardinality(Adding') <= VocabMaxRows + Cardinality(Clis) - 1
    BY <2>6, <2>7, ClisCounted, VocabCounted, VocabAssumption DEF VocabInv
  <2>9. QED
    BY <2>1, <2>3, <2>5, <2>6, <2>8 DEF VocabInv
<1>5. QED
  BY <1>3, <1>4

-----------------------------------------------------------------------------
(***************************************************************************)
(* The order of eviction.                                                   *)
(***************************************************************************)

\* What the order needs of the rows: ids that tell them apart.
RowsDiffer ==
    /\ cache \subseteq CacheRows
    /\ IsFiniteSet(cache)
    /\ \A r, s \in cache : r.id = s.id => r = s

OlderThan(r) == {s \in cache : Older(s, r)}

LEMMA RowsCounted ==
    ASSUME IsFiniteSet(cache)
    PROVE  /\ Cardinality(cache) \in Nat
           /\ \A S \in SUBSET cache : IsFiniteSet(S) /\ Cardinality(S) \in Nat
                                      /\ Cardinality(S) <= Cardinality(cache)
BY FS_Subset, FS_CardinalityType

\* The order is total, so the number of older rows tells the rows apart.
LEMMA RanksDiffer ==
    ASSUME RowsDiffer, NEW r \in cache, NEW s \in cache, Older(r, s)
    PROVE  Cardinality(OlderThan(r)) < Cardinality(OlderThan(s))
<1>1. /\ OlderThan(r) \in SUBSET cache /\ OlderThan(s) \in SUBSET cache
      /\ IsFiniteSet(OlderThan(r)) /\ Cardinality(OlderThan(r)) \in Nat
      /\ IsFiniteSet(OlderThan(s)) /\ Cardinality(OlderThan(s)) \in Nat
  BY RowsCounted DEF OlderThan, RowsDiffer
<1>2. \A q \in cache : q.used \in Nat /\ q.id \in Nat
  BY CacheAssumption DEF RowsDiffer, CacheRows, Times
<1>3. r \notin OlderThan(r)
  BY <1>2 DEF OlderThan, Older
<1>4. OlderThan(r) \cup {r} \subseteq OlderThan(s)
  BY <1>2 DEF OlderThan, Older
<1>5. Cardinality(OlderThan(r) \cup {r}) = Cardinality(OlderThan(r)) + 1
  BY <1>1, <1>3, FS_AddElement
<1>6. Cardinality(OlderThan(r) \cup {r}) <= Cardinality(OlderThan(s))
  BY <1>1, <1>4, FS_Subset
<1>7. QED
  BY <1>1, <1>5, <1>6

\* There are n rows that were used the longest ago, if there are n rows.
LEMMA VictimsCounted ==
    ASSUME RowsDiffer, NEW n \in Nat, n <= Cardinality(cache)
    PROVE  Cardinality(Victims(n)) >= n
<1> DEFINE N == Cardinality(cache)
           rank == [r \in cache |-> Cardinality(OlderThan(r))]
           places == 0..(N - 1)
           first == [r \in Victims(n) |-> rank[r]]
<1>1. IsFiniteSet(cache) /\ N \in Nat
  BY RowsCounted DEF RowsDiffer
<1>2. \A q \in cache : q.used \in Nat /\ q.id \in Nat
  BY CacheAssumption DEF RowsDiffer, CacheRows, Times
<1>3. ASSUME NEW r \in cache PROVE rank[r] \in places
  <2>1. OlderThan(r) \subseteq cache \ {r}
    BY <1>2 DEF OlderThan, Older
  <2>2. IsFiniteSet(cache \ {r}) /\ Cardinality(cache \ {r}) = N - 1
    BY <1>1, FS_RemoveElement
  <2>3. Cardinality(OlderThan(r)) <= N - 1
    BY <2>1, <2>2, FS_Subset
  <2>4. Cardinality(OlderThan(r)) \in Nat
    BY <1>1, RowsCounted DEF OlderThan
  <2>5. QED
    BY <1>1, <2>3, <2>4
<1>4. rank \in Injection(cache, places)
  <2>1. ASSUME NEW r \in cache, NEW s \in cache, rank[r] = rank[s] PROVE r = s
    <3>1. Cardinality(OlderThan(r)) \in Nat /\ Cardinality(OlderThan(s)) \in Nat
      BY <1>1, RowsCounted DEF OlderThan
    <3>2. ~ Older(r, s) /\ ~ Older(s, r)
      BY <2>1, <3>1, RanksDiffer
    <3>3. r.id = s.id
      BY <1>2, <3>2 DEF Older
    <3>4. QED
      BY <3>3 DEF RowsDiffer
  <2>2. rank \in [cache -> places]
    BY <1>3
  <2>3. QED
    BY <2>1, <2>2 DEF Injection, IsInjective
<1>5. rank \in Surjection(cache, places)
  <2>1. IsFiniteSet(places) /\ Cardinality(places) = N
    <3>1. 0 \in Int /\ N - 1 \in Int
      BY <1>1
    <3> HIDE DEF N
    <3>2. /\ IsFiniteSet(0..(N - 1))
          /\ Cardinality(0..(N - 1)) = IF 0 > N - 1 THEN 0 ELSE (N - 1) - 0 + 1
      BY <3>1, FS_Interval
    <3>3. QED
      BY <1>1, <3>2
  <2>2. Cardinality(cache) = Cardinality(places)
    BY <2>1
  <2> HIDE DEF rank, places
  <2>3. QED
    BY <1>4, <2>1, <2>2, FS_Injection
<1>6. Victims(n) = {r \in cache : rank[r] < n}
  BY DEF Victims, OlderThan
<1>7. first \in Surjection(Victims(n), 0..(n - 1))
  <2>1. first \in [Victims(n) -> 0..(n - 1)]
    BY <1>3, <1>6
  <2>2. ASSUME NEW k \in 0..(n - 1) PROVE \E r \in Victims(n) : first[r] = k
    <3>1. k \in places
      BY <1>1
    <3>2. PICK r \in cache : rank[r] = k
      BY <1>5, <3>1 DEF Surjection
    <3>3. r \in Victims(n)
      BY <1>6, <3>2
    <3>4. QED
      BY <3>2, <3>3
  <2>3. QED
    BY <2>1, <2>2 DEF Surjection
<1>8. IsFiniteSet(Victims(n)) /\ Cardinality(Victims(n)) \in Nat
  BY <1>1, RowsCounted DEF Victims
<1>9. Cardinality(0..(n - 1)) = n
  BY FS_Interval
<1>10. QED
  BY <1>7, <1>8, <1>9, FS_Surjection

\* evict_to_cap leaves at most what it was told to leave.
LEMMA EvictionLeaves ==
    ASSUME RowsDiffer, NEW n \in Nat, n <= Cardinality(cache)
    PROVE  /\ IsFiniteSet(cache \ Victims(n))
           /\ Cardinality(cache \ Victims(n)) \in Nat
           /\ Cardinality(cache \ Victims(n)) <= Cardinality(cache) - n
<1>1. IsFiniteSet(cache) /\ Cardinality(cache) \in Nat
  BY RowsCounted DEF RowsDiffer
<1>2. cache \cap Victims(n) = Victims(n)
  BY DEF Victims
<1>3. /\ IsFiniteSet(cache \ Victims(n))
      /\ Cardinality(cache \ Victims(n)) = Cardinality(cache) - Cardinality(Victims(n))
  BY <1>1, <1>2, FS_Difference
<1>4. Cardinality(Victims(n)) \in Nat /\ Cardinality(cache \ Victims(n)) \in Nat
  BY <1>1, RowsCounted DEF Victims
<1>5. QED
  BY <1>1, <1>3, <1>4, VictimsCounted

-----------------------------------------------------------------------------
(***************************************************************************)
(* The cache.                                                               *)
(***************************************************************************)

\* Between its upsert and its return, record_choice has a row in the cache.
Recording == at[Engine] \in {"counting", "evicting"} /\ call.records

\* That row is the newest one if the cache grew beyond what it may hold.
RecordedRow(r) ==
    /\ r.key = call.key
    /\ r.used = call.now
    /\ Cardinality(cache) > CacheMaxRows + lapses => r.id = cacheId

CallInv ==
    /\ at[Engine] = "stamped" => call.records
    /\ at[Engine] = "stamped" \/ Recording => call.limit = CacheMaxRows
    /\ at[Engine] = "evicting" =>
          call.excess > 0 /\ Cardinality(cache) = call.limit + call.excess
    /\ Recording => \E r \in cache : RecordedRow(r)

\* Without a step back the clock is ahead of all rows, and so is the time that
\* a call has taken from it.
TimeInv ==
    ~ steppedBack =>
        /\ \A r \in cache : r.used <= clock
        /\ at[Engine] = "stamped" \/ Recording =>
              call.now <= clock /\ \A r \in cache : r.used <= call.now

CacheInv ==
    /\ CacheTypeOK
    /\ RowsDiffer
    /\ \A r \in cache : r.id <= cacheId
    /\ \A r, s \in cache : r.key = s.key => r = s
    /\ CacheBounded
    /\ CallInv
    /\ TimeInv

\* Steps of others, and of the engine outside its calls.
LEMMA CacheStays ==
    ASSUME CacheInv, UNCHANGED cacheVars,
           \/ at'[Engine] = at[Engine]
           \/ /\ at[Engine] \notin {"counting", "evicting"}
              /\ at'[Engine] \notin {"stamped", "counting", "evicting"}
    PROVE  CacheInv'
<1> USE DEF cacheVars
<1>1. CacheTypeOK' /\ RowsDiffer' /\ (\A r \in cache : r.id <= cacheId)'
      /\ (\A r, s \in cache : r.key = s.key => r = s)'
  BY DEF CacheInv, CacheTypeOK, RowsDiffer
<1>2. CacheBounded'
  BY DEF CacheInv, CacheBounded, InCall
<1>3. CallInv' /\ TimeInv'
  BY DEF CacheInv, CallInv, TimeInv, Recording, RecordedRow
<1>4. QED
  BY <1>1, <1>2, <1>3 DEF CacheInv

\* A call that fails, or dies with its process.
LEMMA LapseKeepsCache ==
    ASSUME CacheInv, CallLapses, at'[Engine] \in {"idle", "closed"}
    PROVE  CacheInv'
<1>1. /\ UNCHANGED <<cache, cacheId, clock, call, steppedBack>>
      /\ lapses' = lapses + InCall
      /\ lapses \in Nat /\ InCall \in Nat
  BY DEF CallLapses, InCall, CacheInv, CacheTypeOK
<1>2. CacheTypeOK' /\ RowsDiffer' /\ (\A r \in cache : r.id <= cacheId)'
      /\ (\A r, s \in cache : r.key = s.key => r = s)'
  BY <1>1 DEF CacheInv, CacheTypeOK, RowsDiffer
<1>3. InCall' = 0
  BY DEF InCall
<1>4. CacheBounded'
  <2>1. Cardinality(cache) \in Nat
    BY RowsCounted DEF CacheInv, RowsDiffer
  <2>2. QED
    BY <1>1, <1>3, <2>1, CacheAssumption DEF CacheInv, CacheBounded
<1>5. CallInv' /\ TimeInv'
  BY <1>1 DEF CacheInv, CallInv, TimeInv, Recording
<1>6. QED
  BY <1>2, <1>4, <1>5 DEF CacheInv

LEMMA ClockKeepsCache ==
    ASSUME CacheInv, Ticks \/ StepsBack, UNCHANGED at
    PROVE  CacheInv'
<1> USE CacheAssumption
<1>1. /\ UNCHANGED <<cache, cacheId, call, lapses>>
      /\ clock' \in Times
      /\ steppedBack' \in BOOLEAN
      /\ ~ steppedBack' => ~ steppedBack /\ clock' = clock + 1
  <2>1. clock \in Nat /\ clock <= MaxClock /\ steppedBack \in BOOLEAN
    BY DEF CacheInv, CacheTypeOK, Times
  <2>2. CASE Ticks
    BY <2>1, <2>2 DEF Ticks, Times
  <2>3. CASE StepsBack
    BY <2>1, <2>3 DEF StepsBack, Times
  <2>4. QED
    BY <2>2, <2>3
<1>2. CacheTypeOK' /\ RowsDiffer' /\ (\A r \in cache : r.id <= cacheId)'
      /\ (\A r, s \in cache : r.key = s.key => r = s)' /\ CacheBounded' /\ CallInv'
  BY <1>1 DEF CacheInv, CacheTypeOK, RowsDiffer, CacheBounded, InCall, CallInv, Recording,
              RecordedRow
<1>3. TimeInv'
  <2>1. clock \in Nat /\ call.now \in Nat /\ \A r \in cache : r.used \in Nat
    BY DEF CacheInv, CacheTypeOK, CacheRows, Calls, Times
  <2>2. QED
    BY <1>1, <2>1 DEF CacheInv, TimeInv, Recording
<1>4. QED
  BY <1>2, <1>3 DEF CacheInv

LEMMA CallKeepsCache ==
    ASSUME CacheInv, at \in [Processes -> Places],
           \/ \E k \in Picks : RecordChoice(k)
           \/ \E n \in EvictLimits : EvictLru(n)
    PROVE  CacheInv'
<1> USE CacheAssumption DEF Processes
<1>1. CASE \E k \in Picks : RecordChoice(k)
  <2>1. PICK k \in Picks : RecordChoice(k)
    BY <1>1
  <2>2. /\ at'[Engine] = "stamped" /\ at[Engine] = "idle"
        /\ call' = [records |-> TRUE, key |-> k, now |-> clock, limit |-> CacheMaxRows, excess |-> 0]
        /\ UNCHANGED <<cache, cacheId, clock, steppedBack, lapses>>
    BY <2>1 DEF RecordChoice, Goes
  <2>3. CacheTypeOK'
    BY <2>2 DEF CacheInv, CacheTypeOK, Calls
  <2>4. CacheBounded' /\ CallInv' /\ TimeInv'
    BY <2>2 DEF CacheInv, CacheBounded, InCall, CallInv, TimeInv, Recording, CacheTypeOK, Times
  <2>5. QED
    BY <2>2, <2>3, <2>4 DEF CacheInv, RowsDiffer
<1>2. CASE \E n \in EvictLimits : EvictLru(n)
  <2>1. PICK n \in EvictLimits : EvictLru(n)
    BY <1>2
  <2>2. /\ at'[Engine] = "counting" /\ at[Engine] = "idle"
        /\ call' = [call EXCEPT !.records = FALSE, !.limit = n, !.excess = 0]
        /\ UNCHANGED <<cache, cacheId, clock, steppedBack, lapses>>
    BY <2>1 DEF EvictLru, Goes
  <2>3. CacheTypeOK' /\ call'.records = FALSE
    BY <2>2 DEF CacheInv, CacheTypeOK, Calls
  <2>4. CacheBounded' /\ CallInv' /\ TimeInv'
    BY <2>2, <2>3 DEF CacheInv, CacheBounded, InCall, CallInv, TimeInv, Recording
  <2>5. QED
    BY <2>2, <2>3, <2>4 DEF CacheInv, RowsDiffer
<1>3. QED
  BY <1>1, <1>2

\* The row of the choice is there after the upsert, new or not, and the cache
\* has grown by one row at most.
LEMMA UpsertKeepsCache ==
    ASSUME CacheInv, at \in [Processes -> Places], Upsert
    PROVE  CacheInv'
<1> USE CacheAssumption DEF Processes
<1>1. /\ at[Engine] = "stamped" /\ at'[Engine] = "counting"
      /\ UNCHANGED <<clock, call, steppedBack, lapses>>
      /\ call.records /\ call.limit = CacheMaxRows /\ call \in Calls
  BY DEF Upsert, Goes, CacheInv, CallInv, CacheTypeOK
<1>2. /\ IsFiniteSet(cache) /\ Cardinality(cache) \in Nat /\ lapses \in Nat /\ cacheId \in Nat
      /\ clock \in Nat /\ call.now \in Nat /\ call.key \in Picks
      /\ \A r \in cache : r \in CacheRows /\ r.id \in Nat /\ r.used \in Nat /\ r.id <= cacheId
  BY <1>1, RowsCounted DEF CacheInv, RowsDiffer, CacheTypeOK, CacheRows, Calls, Times
<1>3. Cardinality(cache) <= CacheMaxRows + lapses
  BY <1>1, <1>2 DEF CacheInv, CacheBounded, InCall
<1>4. InCall' = 1 /\ Recording'
  BY <1>1 DEF InCall, Recording
<1>5. CASE RowsOf(call.key) = {}
  <2>0. PICK new : new = NewChoice
    OBVIOUS
  <2>1. /\ cache' = cache \cup {new} /\ cacheId' = cacheId + 1
        /\ \A r \in cache : r.key # call.key
    BY <1>5, <2>0 DEF Upsert, RowsOf
  <2>2. /\ new \in CacheRows
        /\ new.id = cacheId + 1 /\ new.key = call.key /\ new.used = call.now
    BY <1>1, <1>2, <2>0 DEF NewChoice, CacheRows, Calls
  <2>3. CacheTypeOK'
    BY <1>1, <2>1, <2>2 DEF CacheInv, CacheTypeOK
  <2>4. IsFiniteSet(cache') /\ Cardinality(cache') = Cardinality(cache) + 1
    <3>1. new \notin cache
      BY <2>1, <2>2
    <3>2. QED
      BY <1>2, <2>1, <3>1, FS_AddElement
  <2>5. RowsDiffer'
    BY <1>2, <2>1, <2>2, <2>3, <2>4 DEF CacheInv, RowsDiffer, CacheTypeOK
  <2>6. /\ (\A r \in cache : r.id <= cacheId)'
        /\ (\A r, s \in cache : r.key = s.key => r = s)'
    BY <1>2, <2>1, <2>2 DEF CacheInv
  <2>7. CacheBounded'
    BY <1>1, <1>2, <1>3, <1>4, <2>4 DEF CacheBounded
  <2>8. CallInv'
    <3>1. RecordedRow(new)'
      BY <1>1, <2>1, <2>2 DEF RecordedRow
    <3>2. QED
      BY <1>1, <2>1, <3>1 DEF CallInv
  <2>9. TimeInv'
    BY <1>1, <1>2, <2>1, <2>2 DEF CacheInv, TimeInv
  <2>10. QED
    BY <2>3, <2>5, <2>6, <2>7, <2>8, <2>9 DEF CacheInv
<1>6. CASE RowsOf(call.key) # {}
  <2>1. PICK old \in cache : old.key = call.key
    BY <1>6 DEF RowsOf
  <2>0. PICK new : new = ChosenAgain(old)
    OBVIOUS
  <2>2. RowsOf(call.key) = {old}
    BY <2>1 DEF RowsOf, CacheInv
  <2>3. cache' = (cache \ {old}) \cup {new} /\ UNCHANGED cacheId
    BY <1>6, <2>0, <2>2 DEF Upsert
  <2>4. /\ new \in CacheRows
        /\ new.id = old.id /\ new.key = call.key /\ new.used = call.now
    <3>1. old \in CacheRows /\ old.frequency \in Nat \ {0} /\ call.now \in Times
      BY <1>1, <1>2, <2>1 DEF CacheRows, Calls
    <3>2. new = [old EXCEPT !.frequency = old.frequency + 1, !.used = call.now]
      BY <2>0 DEF ChosenAgain
    <3>3. old.frequency + 1 \in Nat \ {0}
      BY <3>1
    <3>4. QED
      BY <2>1, <3>1, <3>2, <3>3 DEF CacheRows
  <2>5. CacheTypeOK'
    BY <1>1, <2>3, <2>4 DEF CacheInv, CacheTypeOK
  <2>6. \A r \in cache \ {old} : r.key # call.key /\ r.id # old.id
    BY <2>1 DEF CacheInv, RowsDiffer
  <2>7. IsFiniteSet(cache') /\ Cardinality(cache') = Cardinality(cache)
    <3>1. IsFiniteSet(cache \ {old}) /\ Cardinality(cache \ {old}) = Cardinality(cache) - 1
      BY <1>2, <2>1, FS_RemoveElement
    <3>2. new \notin cache \ {old}
      BY <2>4, <2>6
    <3>3. /\ IsFiniteSet((cache \ {old}) \cup {new})
          /\ Cardinality((cache \ {old}) \cup {new}) = Cardinality(cache \ {old}) + 1
      BY <3>1, <3>2, FS_AddElement
    <3>4. QED
      BY <1>2, <2>3, <3>1, <3>3
  <2>8. RowsDiffer'
    BY <2>3, <2>4, <2>5, <2>6, <2>7 DEF CacheInv, RowsDiffer, CacheTypeOK
  <2>9. /\ (\A r \in cache : r.id <= cacheId)'
        /\ (\A r, s \in cache : r.key = s.key => r = s)'
    BY <1>2, <2>1, <2>3, <2>4, <2>6 DEF CacheInv
  <2>10. CacheBounded'
    BY <1>1, <1>2, <1>3, <1>4, <2>7 DEF CacheBounded
  <2>11. CallInv'
    <3>1. RecordedRow(new)'
      BY <1>1, <1>2, <1>3, <2>4, <2>7 DEF RecordedRow
    <3>2. QED
      BY <1>1, <2>3, <3>1 DEF CallInv
  <2>12. TimeInv'
    BY <1>1, <1>2, <2>3, <2>4 DEF CacheInv, TimeInv
  <2>13. QED
    BY <2>5, <2>8, <2>9, <2>10, <2>11, <2>12 DEF CacheInv
<1>7. QED
  BY <1>5, <1>6

LEMMA CountKeepsCache ==
    ASSUME CacheInv, at \in [Processes -> Places], Counts
    PROVE  CacheInv' /\ Kept
<1> USE CacheAssumption DEF Processes
<1>1. /\ at[Engine] = "counting"
      /\ UNCHANGED <<cache, cacheId, clock, steppedBack>>
      /\ call \in Calls /\ call.limit \in Nat /\ lapses \in Nat
      /\ IsFiniteSet(cache) /\ Cardinality(cache) \in Nat
  BY RowsCounted DEF Counts, CacheInv, CacheTypeOK, Calls, RowsDiffer
<1>2. /\ RowsDiffer'
      /\ (\A r \in cache : r.id <= cacheId)'
      /\ (\A r, s \in cache : r.key = s.key => r = s)'
  BY <1>1 DEF CacheInv, RowsDiffer
<1>3. CASE Cardinality(cache) > call.limit
  <2>1. /\ at'[Engine] = "evicting"
        /\ call' = [call EXCEPT !.excess = Cardinality(cache) - call.limit]
        /\ UNCHANGED lapses
    BY <1>3 DEF Counts, BeyondLimit, Goes
  <2>2. /\ call' \in Calls
        /\ call'.records = call.records /\ call'.key = call.key /\ call'.now = call.now
        /\ call'.limit = call.limit /\ call'.excess = Cardinality(cache) - call.limit
    BY <1>1, <1>3, <2>1 DEF Calls
  <2>3. CacheTypeOK' /\ CacheBounded' /\ TimeInv'
    BY <1>1, <2>1, <2>2 DEF CacheInv, CacheTypeOK, CacheBounded, InCall, TimeInv, Recording
  <2>4. CallInv'
    BY <1>1, <1>3, <2>1, <2>2 DEF CacheInv, CallInv, Recording, RecordedRow
  <2>5. QED
    BY <1>2, <2>1, <2>3, <2>4 DEF CacheInv, Kept
<1>4. CASE ~ (Cardinality(cache) > call.limit)
  <2>1. /\ at'[Engine] = "idle"
        /\ lapses' = IF call.limit <= CacheMaxRows THEN 0 ELSE lapses
        /\ UNCHANGED call
    BY <1>4 DEF Counts, BeyondLimit, Goes, Repaired
  <2>2. CacheTypeOK' /\ CallInv' /\ TimeInv'
    BY <1>1, <2>1 DEF CacheInv, CacheTypeOK, CallInv, TimeInv, Recording
  <2>3. CacheBounded'
    <3>1. InCall' = 0
      BY <2>1 DEF InCall
    <3>2. CASE call.limit <= CacheMaxRows
      BY <1>1, <1>4, <2>1, <3>1, <3>2 DEF CacheBounded
    <3>3. CASE ~ (call.limit <= CacheMaxRows)
      <4>1. InCall = 0
        BY <1>1, <3>3 DEF InCall, CacheInv, CallInv, Recording
      <4>2. QED
        BY <1>1, <2>1, <3>1, <3>3, <4>1 DEF CacheInv, CacheBounded
    <3>4. QED
      BY <3>2, <3>3
  <2>4. Kept
    <3>1. call.now \in Nat
      BY <1>1 DEF Calls, Times
    <3>2. QED
      BY <1>1, <3>1 DEF CacheInv, CallInv, Recording, RecordedRow, Kept
  <2>5. QED
    BY <1>2, <2>2, <2>3, <2>4 DEF CacheInv
<1>5. QED
  BY <1>3, <1>4

\* With no lapse behind it, a call evicts one row, and there is an older one
\* than its own.
LEMMA EvictionKeepsRecorded ==
    ASSUME CacheInv, at[Engine] = "evicting", call.records, ~ steppedBack, lapses = 0
    PROVE  \E r \in cache \ Victims(call.excess) : r.key = call.key /\ r.used >= call.now
<1> USE CacheAssumption
<1>1. PICK r \in cache : RecordedRow(r)
  BY DEF CacheInv, CallInv, Recording
<1>2. /\ call.excess > 0 /\ call.excess \in Nat
      /\ Cardinality(cache) = CacheMaxRows + call.excess
      /\ Cardinality(cache) <= CacheMaxRows + 1
      /\ Cardinality(cache) \in Nat /\ IsFiniteSet(cache)
  BY RowsCounted DEF CacheInv, CallInv, Recording, CacheBounded, InCall, CacheTypeOK, Calls, RowsDiffer
<1>3. call.excess = 1 /\ r.id = cacheId /\ Cardinality(cache) >= 2
  BY <1>1, <1>2 DEF RecordedRow
<1>4. PICK s \in cache : s # r
  <2>1. SUFFICES ASSUME cache = {r} PROVE FALSE
    BY <1>1
  <2>2. Cardinality({r}) = 1
    BY FS_Singleton
  <2>3. QED
    BY <1>3, <2>1, <2>2
<1>5. Older(s, r)
  <2>1. /\ s.id \in Nat /\ r.id \in Nat /\ s.used \in Nat /\ r.used \in Nat
        /\ cacheId \in Nat /\ s.id <= cacheId
    BY DEF CacheInv, RowsDiffer, CacheRows, Times, CacheTypeOK
  <2>2. s.id # r.id
    BY <1>4 DEF CacheInv, RowsDiffer
  <2>3. s.used <= r.used
    BY <1>1 DEF RecordedRow, CacheInv, TimeInv, Recording
  <2>4. QED
    BY <1>3, <2>1, <2>2, <2>3 DEF Older
<1>6. r \notin Victims(1)
  <2>1. s \in OlderThan(r) /\ OlderThan(r) \in SUBSET cache
    BY <1>5 DEF OlderThan
  <2>2. IsFiniteSet(OlderThan(r)) /\ Cardinality(OlderThan(r)) \in Nat
    BY <1>2, <2>1, RowsCounted
  <2>3. Cardinality(OlderThan(r)) # 0
    BY <2>1, <2>2, FS_EmptySet
  <2>4. QED
    BY <2>2, <2>3 DEF Victims, OlderThan
<1>7. r.used >= call.now
  BY <1>1 DEF RecordedRow, CacheInv, RowsDiffer, CacheRows, Times
<1>8. QED
  BY <1>1, <1>3, <1>6, <1>7 DEF RecordedRow

LEMMA EvictKeepsCache ==
    ASSUME CacheInv, at \in [Processes -> Places], Evicts
    PROVE  CacheInv' /\ Kept
<1> USE CacheAssumption DEF Processes
<1>1. /\ at[Engine] = "evicting" /\ at'[Engine] = "idle"
      /\ cache' = cache \ Victims(call.excess)
      /\ lapses' = IF call.limit <= CacheMaxRows THEN 0 ELSE lapses
      /\ UNCHANGED <<cacheId, clock, call, steppedBack>>
      /\ call.limit \in Nat /\ call.excess \in Nat /\ lapses \in Nat
      /\ IsFiniteSet(cache) /\ Cardinality(cache) \in Nat /\ RowsDiffer
      /\ Cardinality(cache) = call.limit + call.excess
  BY RowsCounted DEF Evicts, Goes, Repaired, CacheInv, CacheTypeOK, Calls, RowsDiffer, CallInv
<1>2. /\ IsFiniteSet(cache') /\ Cardinality(cache') \in Nat
      /\ Cardinality(cache') <= call.limit
      /\ cache' \subseteq cache
  <2>1. call.excess <= Cardinality(cache) /\ Cardinality(cache) - call.excess = call.limit
    BY <1>1
  <2>2. /\ IsFiniteSet(cache \ Victims(call.excess))
        /\ Cardinality(cache \ Victims(call.excess)) \in Nat
        /\ Cardinality(cache \ Victims(call.excess)) <= Cardinality(cache) - call.excess
    BY <1>1, <2>1, EvictionLeaves
  <2>3. QED
    BY <1>1, <2>1, <2>2
<1>3. CacheTypeOK' /\ RowsDiffer' /\ (\A r \in cache : r.id <= cacheId)'
      /\ (\A r, s \in cache : r.key = s.key => r = s)'
  BY <1>1, <1>2 DEF CacheInv, CacheTypeOK, RowsDiffer
<1>4. CallInv' /\ TimeInv'
  BY <1>1, <1>2 DEF CacheInv, CallInv, TimeInv, Recording
<1>5. CacheBounded'
  <2>1. InCall' = 0
    BY <1>1 DEF InCall
  <2>2. CASE call.limit <= CacheMaxRows
    BY <1>1, <1>2, <2>1, <2>2 DEF CacheBounded
  <2>3. CASE ~ (call.limit <= CacheMaxRows)
    <3>1. InCall = 0
      BY <1>1, <2>3 DEF InCall, CacheInv, CallInv, Recording
    <3>2. Cardinality(cache') <= Cardinality(cache)
      BY <1>1, <1>2
    <3>3. QED
      BY <1>1, <1>2, <2>1, <2>3, <3>1, <3>2 DEF CacheInv, CacheBounded
  <2>4. QED
    BY <2>2, <2>3
<1>6. Kept
  BY <1>1, EvictionKeepsRecorded DEF Kept
<1>7. QED
  BY <1>3, <1>4, <1>5, <1>6 DEF CacheInv

-----------------------------------------------------------------------------
(***************************************************************************)
(* The invariant of the whole, and the theorems.                            *)
(***************************************************************************)

IInv ==
    /\ DatabaseTypeOK
    /\ SchemaInv
    /\ VocabInv
    /\ CacheInv
    /\ calls \in Nat

LEMMA InitInv == Init => IInv
<1> SUFFICES ASSUME Init PROVE IInv
  OBVIOUS
<1> USE DEF Init
<1>1. /\ created = {} /\ version = 0
      /\ at = [p \in Processes |-> "closed"]
      /\ migration = [p \in Processes |-> 0]
      /\ ran = [p \in Processes |-> 0]
  BY DEF DatabaseInit
<1>2. DatabaseTypeOK
  BY <1>1, MigrationFacts DEF DatabaseTypeOK, Places
<1>3. SchemaInv
  BY <1>1, SchemaGrows DEF SchemaInv, SchemaMatchesVersion, Begun, Opens, Connected
<1>4. VocabInv
  <2>1. VocabTypeOK
    BY VocabAssumption DEF VocabInit, VocabTypeOK
  <2>2. Adding = {}
    BY <1>1 DEF Adding, Processes
  <2>3. IsFiniteSet(vocab) /\ Cardinality(vocab) = 0 /\ Cardinality(Adding) = 0
    BY <2>2, FS_EmptySet DEF VocabInit
  <2>4. QED
    BY <2>1, <2>3, ClisCounted, VocabAssumption DEF VocabInit, VocabInv, IdsAreForever
<1>5. CacheInv
  <2>1. /\ cache = {} /\ cacheId = 0 /\ clock = 0 /\ steppedBack = FALSE /\ lapses = 0
        /\ at[Engine] = "closed"
    BY <1>1 DEF CacheInit, Processes
  <2>2. CacheTypeOK /\ call.records = FALSE
    <3>1. PICK k \in Picks :
             call = [records |-> FALSE, key |-> k, now |-> 0, limit |-> 0, excess |-> 0]
      BY CacheAssumption DEF CacheInit
    <3>2. 0 \in Times
      BY CacheAssumption DEF Times
    <3>3. call \in Calls /\ call.records = FALSE
      BY <3>1, <3>2 DEF Calls
    <3>4. QED
      BY <2>1, <3>2, <3>3 DEF CacheTypeOK
  <2>3. IsFiniteSet(cache) /\ Cardinality(cache) = 0
    BY <2>1, FS_EmptySet
  <2>4. CacheBounded /\ CallInv /\ TimeInv
    BY <2>1, <2>2, <2>3, CacheAssumption
       DEF CacheBounded, InCall, CallInv, TimeInv, Recording
  <2>5. QED
    BY <2>1, <2>2, <2>3, <2>4 DEF CacheInv, RowsDiffer
<1>6. QED
  BY <1>2, <1>3, <1>4, <1>5 DEF IInv

LEMMA VocabSame ==
    ASSUME VocabInv, UNCHANGED vocabVars, Adding' \subseteq Adding
    PROVE  VocabInv'
BY VocabShrinks DEF vocabVars, VocabInv, VocabTypeOK

LEMMA OpeningKeepsInv ==
    ASSUME IInv, NEW p \in Processes, Opening(p)
    PROVE  IInv' /\ version' >= version
<1> USE DEF IInv
<1>1. /\ Open(p) \/ Collides(p) \/ Creates(p) \/ SetVersion(p)
      /\ UNCHANGED vocabVars /\ UNCHANGED cacheVars /\ UNCHANGED calls
  BY DEF Opening
<1>2. DatabaseTypeOK' /\ SchemaInv'
  BY <1>1, OpeningKeepsFile
<1>3. /\ \A q \in Processes : at'[q] = at[q] \/ q = p
      /\ at[p] \in {"closed", "migrating", "bumping"}
      /\ at'[p] \in {"closed", "migrating", "bumping", "idle"}
  BY <1>1 DEF Open, Collides, Creates, SetVersion, AppliesAfter, Goes, DatabaseTypeOK
<1>4. Adding' \subseteq Adding
  BY <1>3 DEF Adding, Processes
<1>5. VocabInv'
  BY <1>1, <1>4, VocabSame
<1>6. CacheInv'
  BY <1>1, <1>3, CacheStays DEF Processes
<1>7. version' >= version
  <2>1. version \in Nat
    BY MigrationFacts DEF DatabaseTypeOK
  <2>2. CASE SetVersion(p)
    BY <2>1, <2>2, BumpKeepsSchema
  <2>3. CASE ~ SetVersion(p)
    BY <1>1, <2>1, <2>3 DEF Open, Collides, Creates
  <2>4. QED
    BY <2>2, <2>3
<1>8. QED
  BY <1>1, <1>2, <1>5, <1>6, <1>7

LEMMA FailureKeepsInv ==
    ASSUME IInv, NEW p \in Processes, StatementFails(p)
    PROVE  IInv' /\ version' = version
<1> USE DEF IInv
<1>1. /\ Connected(p) /\ at' = [at EXCEPT ![p] = "idle"]
      /\ p = Engine => CallLapses
      /\ p # Engine => UNCHANGED cacheVars
      /\ UNCHANGED <<created, version, migration, ran, vocabVars, calls>>
  BY DEF StatementFails, Goes
<1>2. DatabaseTypeOK' /\ SchemaInv'
  BY <1>1, MoveKeepsFile DEF FileUntouched
<1>3. Adding' \subseteq Adding
  BY <1>1 DEF Adding, Processes, DatabaseTypeOK
<1>4. VocabInv'
  BY <1>1, <1>3, VocabSame
<1>5. CacheInv'
  <2>1. CASE p = Engine
    BY <1>1, <2>1, LapseKeepsCache DEF DatabaseTypeOK
  <2>2. CASE p # Engine
    BY <1>1, <2>2, CacheStays DEF DatabaseTypeOK, Processes
  <2>3. QED
    BY <2>1, <2>2
<1>6. QED
  BY <1>1, <1>2, <1>4, <1>5

LEMMA EndKeepsInv ==
    ASSUME IInv, NEW p \in Processes, ProcessEnds(p)
    PROVE  IInv' /\ version' = version
<1> USE DEF IInv
<1>1. /\ Ends(p) /\ at' = [at EXCEPT ![p] = "closed"]
      /\ p = Engine => CallLapses
      /\ p # Engine => UNCHANGED cacheVars
      /\ UNCHANGED <<created, version, vocabVars, calls>>
  BY DEF ProcessEnds, Ends, Goes
<1>2. DatabaseTypeOK' /\ SchemaInv'
  BY <1>1, EndKeepsFile
<1>3. Adding' \subseteq Adding
  BY <1>1 DEF Adding, Processes, DatabaseTypeOK
<1>4. VocabInv'
  BY <1>1, <1>3, VocabSame
<1>5. CacheInv'
  <2>1. CASE p = Engine
    BY <1>1, <2>1, LapseKeepsCache DEF DatabaseTypeOK
  <2>2. CASE p # Engine
    BY <1>1, <2>2, CacheStays DEF DatabaseTypeOK, Processes
  <2>3. QED
    BY <2>1, <2>2
<1>6. QED
  BY <1>1, <1>2, <1>4, <1>5

LEMMA VocabCallKeepsInv ==
    ASSUME IInv, NEW p \in Clis, VocabCall(p)
    PROVE  IInv' /\ version' = version
<1> USE DEF IInv
<1>1. /\ calls' \in Nat
      /\ UNCHANGED <<created, version, migration, ran, cacheVars>>
      /\ p \in Processes /\ p # Engine
  BY ProcessesAssumption DEF VocabCall, Called, Processes
<1>2. /\ at[p] = "idle"
      /\ at' = at \/ at' = [at EXCEPT ![p] = "quota"]
      /\ vocab' \subseteq vocab
      /\ UNCHANGED <<lastId, known>>
      /\ word' \in [Processes -> Words]
  BY <1>1 DEF VocabCall, Add, AddFindsDuplicate, RemoveWord, RemoveById, Goes, vocabVars,
              VocabInv, VocabTypeOK
<1>3. DatabaseTypeOK' /\ SchemaInv'
  <2>1. Connected(p) /\ FileUntouched
    BY <1>1, <1>2 DEF Connected, FileUntouched
  <2>2. CASE at' = at
    BY <1>1, <2>2, FileStays DEF databaseVars
  <2>3. CASE at' = [at EXCEPT ![p] = "quota"]
    BY <1>1, <2>1, <2>3, MoveKeepsFile
  <2>4. QED
    BY <1>2, <2>2, <2>3
<1>4. Adding' \subseteq Adding
  BY <1>1, <1>2 DEF Adding, Processes, DatabaseTypeOK
<1>5. VocabInv'
  BY <1>2, <1>4, VocabShrinks
<1>6. CacheInv'
  BY <1>1, <1>2, CacheStays DEF DatabaseTypeOK, Processes
<1>7. QED
  BY <1>1, <1>3, <1>5, <1>6

LEMMA VocabStatementKeepsInv ==
    ASSUME IInv, NEW p \in Clis, VocabStatement(p)
    PROVE  IInv' /\ version' = version
<1> USE DEF IInv
<1>1. /\ ChecksQuota(p) \/ Inserts(p)
      /\ UNCHANGED <<created, version, migration, ran, cacheVars, calls>>
      /\ p \in Processes /\ p # Engine
      /\ at \in [Processes -> Places]
  BY ProcessesAssumption DEF VocabStatement, Processes, DatabaseTypeOK
<1>2. /\ at[p] \in {"quota", "inserting"}
      /\ at' = [at EXCEPT ![p] = "idle"] \/ at' = [at EXCEPT ![p] = "inserting"]
  BY <1>1 DEF ChecksQuota, Inserts, Goes
<1>3. DatabaseTypeOK' /\ SchemaInv'
  <2>1. Connected(p) /\ FileUntouched
    BY <1>1, <1>2 DEF Connected, FileUntouched
  <2>2. QED
    BY <1>1, <1>2, <2>1, MoveKeepsFile
<1>4. VocabInv'
  BY <1>1, QuotaCheckKeepsVocab, InsertKeepsVocab
<1>5. CacheInv'
  BY <1>1, <1>2, CacheStays DEF Processes
<1>6. QED
  BY <1>1, <1>3, <1>4, <1>5

LEMMA CacheStepsKeepInv ==
    ASSUME IInv, CacheCall \/ CacheStatement
    PROVE  IInv' /\ version' = version
<1> USE DEF IInv
<1>1. /\ \/ \E k \in Picks : RecordChoice(k)
         \/ \E n \in EvictLimits : EvictLru(n)
         \/ Upsert \/ Counts \/ Evicts
      /\ calls' \in Nat
      /\ UNCHANGED <<created, version, migration, ran, vocabVars>>
      /\ at \in [Processes -> Places] /\ Engine \in Processes
  BY DEF CacheCall, CacheStatement, Called, Processes, DatabaseTypeOK
<1>2. /\ at[Engine] \in {"idle", "stamped", "counting", "evicting"}
      /\ \E place \in {"idle", "stamped", "counting", "evicting"} :
            at' = [at EXCEPT ![Engine] = place]
  BY <1>1 DEF RecordChoice, EvictLru, Upsert, Counts, Evicts, Goes
<1>4. DatabaseTypeOK' /\ SchemaInv'
  <2>1. Connected(Engine) /\ FileUntouched
    BY <1>1, <1>2 DEF Connected, FileUntouched
  <2>2. QED
    BY <1>1, <1>2, <2>1, MoveKeepsFile
<1>5. VocabInv'
  <2>1. Adding' \subseteq Adding
    BY <1>1, <1>2, ProcessesAssumption DEF Adding, Processes
  <2>2. QED
    BY <1>1, <2>1, VocabSame
<1>6. CacheInv'
  BY <1>1, CallKeepsCache, UpsertKeepsCache, CountKeepsCache, EvictKeepsCache
<1>7. QED
  BY <1>1, <1>4, <1>5, <1>6

\* Every step keeps the invariant, and the version with it.
LEMMA NextInv == IInv /\ [Next]_vars => IInv' /\ version' >= version
<1> SUFFICES ASSUME IInv, [Next]_vars PROVE IInv' /\ version' >= version
  OBVIOUS
<1>0. version \in Nat /\ at \in [Processes -> Places]
  BY MigrationFacts DEF IInv, DatabaseTypeOK
<1>1. CASE UNCHANGED vars
  <2>1. UNCHANGED databaseVars /\ UNCHANGED vocabVars /\ UNCHANGED cacheVars /\ UNCHANGED calls
    BY <1>1 DEF vars
  <2>2. DatabaseTypeOK' /\ SchemaInv'
    BY <2>1, FileStays DEF IInv
  <2>3. VocabInv' /\ CacheInv'
    BY <2>1, VocabSame, CacheStays DEF IInv, databaseVars, Adding
  <2>4. QED
    BY <1>0, <2>1, <2>2, <2>3 DEF IInv, databaseVars
<1>2. CASE \E p \in Processes : Opening(p) \/ StatementFails(p) \/ ProcessEnds(p)
  BY <1>0, <1>2, OpeningKeepsInv, FailureKeepsInv, EndKeepsInv
<1>3. CASE \E p \in Clis : VocabCall(p) \/ VocabStatement(p)
  BY <1>0, <1>3, VocabCallKeepsInv, VocabStatementKeepsInv
<1>4. CASE CacheCall \/ CacheStatement
  BY <1>0, <1>4, CacheStepsKeepInv
<1>5. CASE ClockMoves
  <2>1. /\ Ticks \/ StepsBack
        /\ UNCHANGED databaseVars /\ UNCHANGED vocabVars /\ UNCHANGED calls
    BY <1>5 DEF ClockMoves
  <2>2. DatabaseTypeOK' /\ SchemaInv'
    BY <2>1, FileStays DEF IInv
  <2>3. VocabInv' /\ CacheInv'
    BY <2>1, VocabSame, ClockKeepsCache DEF IInv, databaseVars, Adding
  <2>4. QED
    BY <1>0, <2>1, <2>2, <2>3 DEF IInv, databaseVars
<1>6. QED
  BY <1>1, <1>2, <1>3, <1>4, <1>5 DEF Next

\* Every reachable state of the file and of its processes is as IInv says.
THEOREM StorageInvariance == Spec => []IInv
<1>1. Init => IInv
  BY InitInv
<1>2. IInv /\ [Next]_vars => IInv'
  BY NextInv
<1>3. QED
  BY <1>1, <1>2, PTL DEF Spec

\* The type invariant of the file and the two tables.
THEOREM StorageTypes == Spec => []TypeOK
<1>1. IInv => TypeOK
  BY DEF IInv, VocabInv, CacheInv, TypeOK
<1>2. QED
  BY <1>1, StorageInvariance, PTL

\* Whoever holds a connection finds the whole schema, however many processes
\* opened the file at once and wherever they died (Database::open).
THEOREM SchemaForTheConnected == Spec => []ConnectedFindSchema
<1>1. IInv => ConnectedFindSchema
  <2>1. SUFFICES ASSUME IInv, NEW p \in Processes, Connected(p)
                 PROVE  created = SchemaOf(LatestVersion)
    BY DEF ConnectedFindSchema
  <2>2. version = LatestVersion
    BY <2>1 DEF IInv, SchemaInv
  <2>3. SchemaOf(version) \subseteq created /\ created \subseteq SchemaOf(LatestVersion)
    BY <2>1 DEF IInv, SchemaInv, SchemaMatchesVersion, DatabaseTypeOK
  <2>4. QED
    BY <2>2, <2>3
<1>2. QED
  BY <1>1, StorageInvariance, PTL

\* The quota of the vocabulary is exceeded at most by the command lines that
\* race beyond the first (SqliteUserVocabStore::insert).
THEOREM QuotaIsHeldUpToRaces == Spec => []QuotaHolds
<1>1. IInv => QuotaHolds
  <2>1. SUFFICES ASSUME IInv PROVE QuotaHolds
    OBVIOUS
  <2>2. Cardinality(Adding) \in Nat /\ Cardinality(vocab) \in Nat
    BY <2>1, ClisCounted, VocabCounted DEF IInv, Adding
  <2>3. QED
    BY <2>1, <2>2, ClisCounted, VocabAssumption DEF IInv, VocabInv, QuotaHolds
<1>2. QED
  BY <1>1, StorageInvariance, PTL

\* An id never names another word than the one a list showed it with.
THEOREM IdsStayForever == Spec => []IdsAreForever
<1>1. IInv => IdsAreForever
  BY DEF IInv, VocabInv
<1>2. QED
  BY <1>1, StorageInvariance, PTL

\* The cache is over its limit by calls in progress and lapsed calls only
\* (SqliteLearningCacheStore::record_choice, evict_to_cap).
THEOREM CacheIsBounded == Spec => []CacheBounded
<1>1. IInv => CacheBounded
  BY DEF IInv, CacheInv
<1>2. QED
  BY <1>1, StorageInvariance, PTL

\* A choice that was recorded survives its own eviction, whatever the limit
\* of the cache (record_choice, EVICT_SQL).
THEOREM ChoicesAreKept == Spec => RecordedIsKept
<1>1. IInv => Kept
  <2>1. SUFFICES ASSUME IInv PROVE Kept
    OBVIOUS
  <2>2. CacheInv /\ at \in [Processes -> Places]
    BY <2>1 DEF IInv, DatabaseTypeOK
  <2>3. CASE Counts
    BY <2>2, <2>3, CountKeepsCache
  <2>4. CASE Evicts
    BY <2>2, <2>4, EvictKeepsCache
  <2>5. CASE ~ (Counts \/ Evicts)
    BY <2>5 DEF Kept
  <2>6. QED
    BY <2>3, <2>4, <2>5
<1>2. QED
  BY <1>1, StorageInvariance, PTL DEF RecordedIsKept

\* The version of the file never falls, although every process sets the
\* number it has been working for (apply_migrations).
THEOREM VersionsRise == Spec => VersionNeverFalls
<1>1. IInv /\ [Next]_vars => [version' >= version]_version
  BY NextInv
<1>2. QED
  BY <1>1, StorageInvariance, PTL DEF Spec, VersionNeverFalls
=============================================================================
