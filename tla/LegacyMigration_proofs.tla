---- MODULE LegacyMigration_proofs ----
(***************************************************************************)
(* Proofs about LegacyMigration, for any set of items and any content of   *)
(* the files it starts from.                                               *)
(*                                                                         *)
(* The invariant says what each phase knows: an import works on a file     *)
(* that is still where it was read, with the marker unset and nothing      *)
(* migrated; a rename works on a file whose records are in.                *)
(***************************************************************************)
EXTENDS LegacyMigration, TLAPS

ReadFrom ==
  phase = "import" =>
    /\ ~marker
    /\ source.file \in {"json", "bak"}
    /\ source.file = "json" => json = [kind |-> "store", records |-> source.records]
    /\ source.file = "bak" =>
         json = NoFile /\ bak = [kind |-> "store", records |-> source.records]
ArchivesImported ==
  phase = "archive" => marker /\ json.kind = "store" /\ json.records \subseteq migrated
UnmarkedIsUntouched == ~marker => migrated = {}

IInv ==
  /\ TypeOK
  /\ ReadFrom
  /\ ArchivesImported
  /\ UnmarkedIsUntouched
  /\ MarkedIsImported

LEMMA FileShape ==
  ASSUME NEW f \in File \union {NoFile}, f # Garbage, f # NoFile
  PROVE  f = [kind |-> "store", records |-> f.records] /\ f.records \subseteq Items
BY DEF File

LEMMA InitInv == Init => IInv
<1> SUFFICES ASSUME Init PROVE IInv
  OBVIOUS
<1>1. source \in Sources
  BY DEF Init, NoSource, Sources
<1>2. TypeOK
  BY <1>1 DEF Init, TypeOK
<1> QED
  BY <1>2 DEF Init, IInv, ReadFrom, ArchivesImported, UnmarkedIsUntouched, MarkedIsImported

LEMMA StepInv == IInv /\ [Next]_vars => IInv'
<1> SUFFICES ASSUME IInv, [Next]_vars PROVE IInv'
  OBVIOUS
<1> USE DEF IInv
<1>1. CASE Connect
  BY <1>1 DEF Connect, TypeOK, ReadFrom, ArchivesImported, UnmarkedIsUntouched,
       MarkedIsImported
<1>2. CASE NothingToMigrate
  BY <1>2 DEF NothingToMigrate, TypeOK, ReadFrom, ArchivesImported, UnmarkedIsUntouched,
       MarkedIsImported
<1>3. CASE ReadLegacy
  <2>1. /\ LegacyFile \in File \union {NoFile}
        /\ LegacyFile # NoFile /\ LegacyFile # Garbage
        /\ LegacyFile = IF json # NoFile THEN json ELSE bak
    BY <1>3 DEF ReadLegacy, TypeOK, ToMigrate, LegacyFile
  <2>2. /\ LegacyFile = [kind |-> "store", records |-> LegacyFile.records]
        /\ LegacyFile.records \subseteq Items
    BY <2>1, FileShape
  <2>3. /\ source'.file = IF json # NoFile THEN "json" ELSE "bak"
        /\ source'.records = LegacyFile.records
        /\ source' \in Sources
    BY <1>3, <2>2 DEF ReadLegacy, Sources
  <2>4. TypeOK'
    BY <1>3, <2>3 DEF ReadLegacy, TypeOK
  <2>5. ReadFrom'
    BY <1>3, <2>1, <2>2, <2>3 DEF ReadLegacy, ReadFrom, ToMigrate
  <2> QED
    BY <1>3, <2>4, <2>5 DEF ReadLegacy, ArchivesImported, UnmarkedIsUntouched, MarkedIsImported
<1>4. CASE Commit
  <2>1. source.records \subseteq Items
    BY DEF TypeOK, Sources
  <2>2. TypeOK'
    BY <1>4, <2>1 DEF Commit, TypeOK
  <2>3. \E f \in {json, bak} : f.kind = "store" /\ f.records = source.records
    BY <1>4 DEF Commit, ReadFrom
  <2>4. MarkedIsImported'
    BY <1>4, <2>3 DEF Commit, MarkedIsImported
  <2>5. ArchivesImported' /\ ReadFrom' /\ UnmarkedIsUntouched'
    BY <1>4 DEF Commit, ReadFrom, ArchivesImported, UnmarkedIsUntouched
  <2> QED
    BY <2>2, <2>4, <2>5
<1>5. CASE Archive
  <2>1. json # NoFile /\ json \in File
    BY <1>5 DEF Archive, ArchivesImported, TypeOK, NoFile
  <2>2. TypeOK'
    BY <1>5, <2>1 DEF Archive, TypeOK
  <2>3. json \in {json', bak'} \union archives'
    BY <1>5 DEF Archive
  <2>4. MarkedIsImported' /\ marker'
    BY <1>5, <2>3 DEF Archive, ArchivesImported, MarkedIsImported
  <2> QED
    BY <1>5, <2>2, <2>4 DEF Archive, ReadFrom, ArchivesImported, UnmarkedIsUntouched
<1>6. CASE MigrationError
  BY <1>6 DEF MigrationError, TypeOK, ReadFrom, ArchivesImported, UnmarkedIsUntouched,
       MarkedIsImported
<1>7. ASSUME NEW i \in Items, Put(i) \/ Expire(i) PROVE IInv'
  BY <1>7 DEF Put, Expire, TypeOK, ReadFrom, ArchivesImported, UnmarkedIsUntouched,
       MarkedIsImported
<1>8. CASE Stop
  BY <1>8 DEF Stop, TypeOK, ReadFrom, ArchivesImported, UnmarkedIsUntouched,
       MarkedIsImported, NoSource, Sources
<1>9. CASE UNCHANGED vars
  BY <1>9 DEF vars, TypeOK, ReadFrom, ArchivesImported, UnmarkedIsUntouched,
       MarkedIsImported
<1> QED
  BY <1>1, <1>2, <1>3, <1>4, <1>5, <1>6, <1>7, <1>8, <1>9 DEF Next

LEMMA InvHolds == Spec => []IInv
BY InitInv, StepInv, PTL DEF Spec

\* Every reachable state has its type.
THEOREM TypeCorrect == Spec => []TypeOK
BY InvHolds, PTL DEF IInv

\* Wherever the process died, a database marked as migrated has seen every
\* record of the file it was marked for: rows and marker are one transaction.
THEOREM MarkerIsHonest == Spec => []MarkedIsImported
BY InvHolds, PTL DEF IInv

\* What an import read is what the next attempt would read, until the rows and
\* the marker are committed together.
LEMMA StepReach == IInv /\ [Next]_vars => Reach \subseteq Reach'
<1> SUFFICES ASSUME IInv, [Next]_vars PROVE Reach \subseteq Reach'
  OBVIOUS
<1>1. CASE Commit
  <2>1. LegacyFile.records = source.records
    BY <1>1 DEF Commit, IInv, ReadFrom, LegacyFile, NoFile
  <2> QED
    BY <1>1, <2>1 DEF Commit, Reach
<1>2. CASE Archive
  BY <1>2 DEF Archive, IInv, ArchivesImported, Reach
<1>3. CASE UNCHANGED <<marker, json, bak, migrated>>
  BY <1>3 DEF Reach, LegacyFile
<1> QED
  BY <1>1, <1>2, <1>3 DEF Next, vars, Connect, NothingToMigrate, ReadLegacy, MigrationError,
     Put, Expire, Stop

\* However a migration fails, whatever is served after that and wherever the
\* process stops, no legacy record is lost: the table was given it, or the next
\* process still finds it unmarked in the file it will read.
THEOREM NoRecordIsLost == Spec => LegacyStaysInReach
BY StepReach, InvHolds, PTL DEF Spec, LegacyStaysInReach

\* No sequence of restarts and failures imports a record twice.
THEOREM MigratesOnce == Spec => ImportedOnce
<1>1. IInv /\ [Next]_vars =>
        \A i \in Items : i \in rows' \ rows /\ phase = "import" => i \notin migrated
  BY DEF IInv, ReadFrom, UnmarkedIsUntouched
<1> QED
  BY <1>1, InvHolds, PTL DEF Spec, ImportedOnce

\* The rename finds every file a name of its own.
THEOREM NoFileIsLost == Spec => FilesAreKept
<1>1. [Next]_vars =>
        \A f \in ({json, bak} \union archives) \ {NoFile} : f \in {json', bak'} \union archives'
  BY DEF Next, Connect, NothingToMigrate, ReadLegacy, Commit, Archive, MigrationError,
       Put, Expire, Stop, vars
<1> QED
  BY <1>1, PTL DEF Spec, FilesAreKept
====
