---- MODULE LegacyMigration ----
(***************************************************************************)
(* The first store operation of a process: open the SQLite database and    *)
(* import the JSON store of earlier versions, once                         *)
(* (StoreRuntime.ensure_connected and run_legacy_migration_if_needed).     *)
(*                                                                         *)
(* The rows and the marker are committed in one transaction; the JSON file *)
(* is renamed after it.  The connection is kept before the migration runs, *)
(* so an operation whose migration fails returns the error and the next    *)
(* one goes ahead without it.  The process may die between any two steps.  *)
(***************************************************************************)
EXTENDS Naturals

CONSTANT Items  \* item ids

\* What a store file may be: absent, unparsable, or a set of valid records.
NoFile == [kind |-> "absent", records |-> {}]
Garbage == [kind |-> "garbage", records |-> {}]
File == {Garbage} \union [kind: {"store"}, records: SUBSET Items]

VARIABLES
  rows,      \* the gossip_items table
  marker,    \* gossip_meta says the migration is done
  json,      \* gossip-object-store.json
  bak,       \* gossip-object-store.json.bak
  archives,  \* the .bak files with a time in their name
  phase,     \* where the process is
  source,    \* what the migration read, and from which file
  migrated,  \* items a migration has inserted so far
  failed     \* a step of this process's migration has failed

vars == <<rows, marker, json, bak, archives, phase, source, migrated, failed>>

NoSource == [file |-> "none", records |-> {}]
Sources == [file: {"none", "json", "bak"}, records: SUBSET Items]

\* The shape of the database, the files and the migration's locals.
TypeOK ==
  /\ rows \subseteq Items
  /\ marker \in BOOLEAN
  /\ json \in File \union {NoFile}
  /\ bak \in File \union {NoFile}
  /\ archives \subseteq File
  /\ phase \in {"down", "connected", "import", "archive", "ready"}
  /\ source \in Sources
  /\ migrated \subseteq Items
  /\ failed \in BOOLEAN

\* An upgrade, a fresh installation, or a .bak left by a build that renamed first.
Init ==
  /\ rows = {}
  /\ marker = FALSE
  /\ json \in File \union {NoFile}
  /\ bak \in File \union {NoFile}
  /\ archives = {}
  /\ phase = "down"
  /\ source = NoSource
  /\ migrated = {}
  /\ failed = FALSE

LegacyFile == IF json # NoFile THEN json ELSE bak
ToMigrate == ~marker /\ LegacyFile # NoFile

\* ensure_connected: the connection is stored; the migration is next.
Connect ==
  /\ phase = "down"
  /\ phase' = "connected"
  /\ UNCHANGED <<rows, marker, json, bak, archives, source, migrated, failed>>

\* Mutant: only the JSON file itself is looked for.
NothingToMigrate_NoBak ==
  /\ phase = "connected"
  /\ marker \/ json = NoFile
  /\ phase' = "ready"
  /\ UNCHANGED <<rows, marker, json, bak, archives, source, migrated, failed>>

\* The marker is set, or there is nothing to import (which sets no marker).
NothingToMigrate ==
  /\ phase = "connected"
  /\ ~ToMigrate
  /\ phase' = "ready"
  /\ UNCHANGED <<rows, marker, json, bak, archives, source, migrated, failed>>

\* Mutant: the marker is committed on its own, before the import.
ReadLegacy_MarksFirst ==
  /\ phase = "connected"
  /\ ToMigrate
  /\ LegacyFile # Garbage
  /\ source' = [file |-> IF json # NoFile THEN "json" ELSE "bak", records |-> LegacyFile.records]
  /\ marker' = TRUE
  /\ phase' = "import"
  /\ UNCHANGED <<rows, json, bak, archives, migrated, failed>>

ReadLegacy ==
  /\ phase = "connected"
  /\ ToMigrate
  /\ LegacyFile # Garbage
  /\ source' = [file |-> IF json # NoFile THEN "json" ELSE "bak", records |-> LegacyFile.records]
  /\ phase' = "import"
  /\ UNCHANGED <<rows, marker, json, bak, archives, migrated, failed>>

\* Mutant: the rename of the file is all that tells a done migration.
Commit_NoMarker ==
  /\ phase = "import"
  /\ rows' = rows \union source.records
  /\ migrated' = migrated \union source.records
  /\ phase' = IF source.file = "json" THEN "archive" ELSE "ready"
  /\ UNCHANGED <<marker, json, bak, archives, source, failed>>

\* INSERT OR IGNORE of the records and the marker, in one transaction.
Commit ==
  /\ phase = "import"
  /\ rows' = rows \union source.records
  /\ migrated' = migrated \union source.records
  /\ marker' = TRUE
  /\ phase' = IF source.file = "json" THEN "archive" ELSE "ready"
  /\ UNCHANGED <<json, bak, archives, source, failed>>

\* Mutant: always renamed to .bak.
Archive_Overwrites ==
  /\ phase = "archive"
  /\ json' = NoFile
  /\ bak' = json
  /\ phase' = "ready"
  /\ UNCHANGED <<rows, marker, archives, source, migrated, failed>>

\* The rename, to a name no file has.
Archive ==
  /\ phase = "archive"
  /\ json' = NoFile
  /\ IF bak = NoFile
       THEN bak' = json /\ UNCHANGED archives
       ELSE archives' = archives \union {json} /\ UNCHANGED bak
  /\ phase' = "ready"
  /\ UNCHANGED <<rows, marker, source, migrated, failed>>

\* Mutant: a failed migration is marked as done, so that it is not tried again.
MigrationError_GivesUp ==
  /\ phase \in {"connected", "import", "archive"}
  /\ phase' = "ready"
  /\ failed' = TRUE
  /\ marker' = TRUE
  /\ UNCHANGED <<rows, json, bak, archives, source, migrated>>

\* A step of the migration fails: this operation does, but the connection
\* stays, and the operations that follow use it.
MigrationError ==
  /\ phase \in {"connected", "import", "archive"}
  /\ phase' = "ready"
  /\ failed' = TRUE
  /\ UNCHANGED <<rows, marker, json, bak, archives, source, migrated>>

\* The operations of GossipStore, as far as they matter here.
Put(i) ==
  /\ phase = "ready"
  /\ rows' = rows \union {i}
  /\ UNCHANGED <<marker, json, bak, archives, phase, source, migrated, failed>>

Expire(i) ==
  /\ phase = "ready"
  /\ rows' = rows \ {i}
  /\ UNCHANGED <<marker, json, bak, archives, phase, source, migrated, failed>>

\* The process ends, at any point.
Stop ==
  /\ phase # "down"
  /\ phase' = "down"
  /\ source' = NoSource
  /\ failed' = FALSE
  /\ UNCHANGED <<rows, marker, json, bak, archives, migrated>>

Next ==
  \/ Connect
  \/ NothingToMigrate
  \/ ReadLegacy
  \/ Commit
  \/ Archive
  \/ MigrationError
  \/ \E i \in Items : Put(i) \/ Expire(i)
  \/ Stop

Spec == Init /\ [][Next]_vars

----

\* The marker stands only over an import that happened: whenever the process
\* died, a marked database has seen every record of the file it was marked for.
MarkedIsImported ==
  marker => \E f \in {json, bak} \union archives :
              f.kind = "store" /\ f.records \subseteq migrated

\* No restart imports a record twice: what was migrated and then expired does
\* not come back.
ImportedOnce ==
  [][\A i \in Items : i \in rows' \ rows /\ phase = "import" => i \notin migrated]_vars

\* The migration moves files and destroys none: every store file that was there
\* is still there under one of the names.
FilesAreKept ==
  [][\A f \in ({json, bak} \union archives) \ {NoFile} :
       f \in {json', bak'} \union archives']_vars

\* The legacy records an operation of this or of a later process finds: those the
\* table was given, and those the next attempt at the migration would read.
Reach == migrated \union (IF marker THEN {} ELSE LegacyFile.records)

\* A migration that fails is not tried again by its process, whose connection
\* stays and serves every later operation from a table without the legacy
\* records.  None of that, nor a stop at any point, may put a record out of reach
\* for good: it is in the table by then, or a restart still imports it.
LegacyStaysInReach == [][Reach \subseteq Reach']_vars

\* "it is imported then renamed": a process that finds nothing wrong and nothing
\* left to import finds no JSON file either.
ImportedIsRenamed == phase = "ready" /\ marker /\ ~failed => json = NoFile
====
