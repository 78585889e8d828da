------------------------- MODULE StudioIngestProofs -------------------------
(***************************************************************************)
(* What holds of Studio's imports for any sources, contents and faults:    *)
(* types without condition; that a row keeps its file, and that a named    *)
(* file is left alone, when one import runs at a time, file names differ   *)
(* and the registry refresh succeeds; that files are what their names say, *)
(* when sources also stand still while they are imported.                  *)
(***************************************************************************)
EXTENDS StudioIngest, TLAPS

LEMMA TypeInit == Init => TypeOK
BY IngestAssumption DEF Init, TypeOK, Imports, Idle, At, OrNone

LEMMA IdleIsImport == Idle \in Imports
BY DEF Idle, Imports, At, OrNone

LEMMA MoveIsImport ==
    ASSUME NEW m \in Imports, m.at # "idle",
           NEW at \in {"failing", "promoted", "refreshing", "archiving"},
           at = "failing" \/ m.staged \in Contents
    PROVE  [m EXCEPT !.at = at] \in Imports
BY DEF Imports, At, OrNone

LEMMA OutcomeType ==
    ASSUME TypeOK, NEW operation, NEW ok \in BOOLEAN, Outcome(operation, ok)
    PROVE  faults' \in 0 .. MaxFaults
BY IngestAssumption DEF Outcome, TypeOK

\* What the type invariant says of one importer.
LEMMA ImportTypes ==
    ASSUME TypeOK, NEW i \in Importers
    PROVE  /\ imp[i] \in Imports
           /\ imp[i].at # "idle" => /\ imp[i].of \in Sources
                                    /\ imp[i].hash \in Contents
                                    /\ Name[imp[i].of] \in Names
                                    /\ Dest(i) \in Names \X Contents
                                    /\ Copied(i) \in OrNone(Contents)
           /\ imp[i].at = "staging" => imp[i].staged \in Contents \cup {Partial}
           /\ imp[i].at \in {"promoted", "refreshing", "archiving"} =>
                 imp[i].staged \in Contents
<1>1. imp[i] \in Imports
  BY DEF TypeOK
<1>2. imp[i].at # "idle" => imp[i].of \in Sources /\ imp[i].hash \in Contents
  BY <1>1 DEF Imports
<1>3. imp[i].at # "idle" => Name[imp[i].of] \in Names
  BY <1>2, IngestAssumption
<1>4. imp[i].at # "idle" => Dest(i) \in Names \X Contents
  BY <1>2, <1>3 DEF Dest, DestPath
<1>5. imp[i].at # "idle" => Copied(i) \in OrNone(Contents)
  BY <1>2 DEF Copied, TypeOK, OrNone
<1>6. imp[i].at = "staging" => imp[i].staged \in Contents \cup {Partial}
  BY <1>1 DEF Imports, OrNone
<1>7. imp[i].at \in {"promoted", "refreshing", "archiving"} =>
         imp[i].staged \in Contents
  BY <1>1 DEF Imports
<1> QED BY <1>1, <1>2, <1>3, <1>4, <1>5, <1>6, <1>7

LEMMA TypeStep == TypeOK /\ [Next]_vars => TypeOK'
<1> SUFFICES ASSUME TypeOK, [Next]_vars PROVE TypeOK'
  OBVIOUS
<1>1. ASSUME NEW s \in Sources, NEW c \in Contents, Published(s, c) PROVE TypeOK'
  BY <1>1, IngestAssumption DEF Published, TypeOK, OrNone
<1>2. ASSUME NEW i \in Importers, NEW s \in Sources, Hashed(i, s) PROVE TypeOK'
  <2>1. source[s] \in Contents
    BY <1>2 DEF Hashed, TypeOK, OrNone
  <2>2. [at |-> "hashed", of |-> s, hash |-> source[s], staged |-> None] \in Imports
    BY <2>1 DEF Imports, At, OrNone
  <2> QED BY <1>2, <2>2 DEF Hashed, TypeOK
<1>3. ASSUME NEW i \in Importers, Checked(i) PROVE TypeOK'
  <2>1. [imp[i] EXCEPT !.at = "staging", !.staged = Partial] \in Imports
    BY <1>3, ImportTypes, IngestAssumption DEF Checked, Imports, At, OrNone
  <2> QED BY <1>3, <2>1, IdleIsImport DEF Checked, Returns, TypeOK
<1>4. ASSUME NEW i \in Importers, NEW ok \in BOOLEAN, Staged(i, ok) PROVE TypeOK'
  <2>1. imp[i] \in Imports /\ imp[i].at = "staging"
    BY <1>4, ImportTypes DEF Staged
  <2>2. [imp[i] EXCEPT !.at = "failing"] \in Imports
    BY <2>1, MoveIsImport
  <2>3. ASSUME Copied(i) # None PROVE [imp[i] EXCEPT !.staged = Copied(i)] \in Imports
    <3>1. Copied(i) \in Contents
      BY <2>1, <2>3, ImportTypes DEF OrNone
    <3> QED BY <2>1, <3>1, IngestAssumption DEF Imports, OrNone
  <2>4. faults' \in 0 .. MaxFaults
    BY <1>4, OutcomeType DEF Staged, TypeOK
  <2>5. imp' \in [Importers -> Imports]
    BY <1>4, <2>2, <2>3 DEF Staged, MovesTo, TypeOK
  <2> QED BY <1>4, <2>4, <2>5 DEF Staged, TypeOK
<1>5. ASSUME NEW i \in Importers, NEW ok \in BOOLEAN, Promoted(i, ok) PROVE TypeOK'
  <2>1. imp[i].at = "staging" /\ imp[i].staged \in Contents /\ imp[i] \in Imports
    BY <1>5, ImportTypes DEF Promoted, Promotable
  <2>2. /\ [imp[i] EXCEPT !.at = "failing"] \in Imports
        /\ [imp[i] EXCEPT !.at = "promoted"] \in Imports
    BY <2>1, MoveIsImport
  <2>3. imp' \in [Importers -> Imports]
    BY <1>5, <2>2 DEF Promoted, MovesTo, TypeOK
  <2>4. faults' \in 0 .. MaxFaults
    BY <1>5, OutcomeType DEF Promoted, TypeOK
  <2>5. files' \in [Names \X Contents -> OrNone(Contents \cup {Partial})]
    BY <1>5, <2>1 DEF Promoted, TypeOK, OrNone
  <2> QED BY <1>5, <2>3, <2>4, <2>5 DEF Promoted, TypeOK
<1>6. ASSUME NEW i \in Importers, NEW ok \in BOOLEAN, Inserted(i, ok) PROVE TypeOK'
  <2>1. /\ imp[i].at = "promoted" /\ imp[i].staged \in Contents /\ imp[i] \in Imports
        /\ imp[i].hash \in Contents
    BY <1>6, ImportTypes DEF Inserted
  <2>2. /\ [imp[i] EXCEPT !.at = "failing"] \in Imports
        /\ [imp[i] EXCEPT !.at = "archiving"] \in Imports
        /\ [imp[i] EXCEPT !.at = "refreshing"] \in Imports
    BY <2>1, MoveIsImport
  <2>3. imp' \in [Importers -> Imports]
    BY <1>6, <2>2, IdleIsImport DEF Inserted, MovesTo, Returns, TypeOK
  <2>4. faults' \in 0 .. MaxFaults
    BY <1>6, OutcomeType DEF Inserted
  <2>5. row' \in [Sources -> OrNone(Contents)]
    BY <1>6, <2>1 DEF Inserted, TypeOK, OrNone
  <2> QED BY <1>6, <2>3, <2>4, <2>5 DEF Inserted, TypeOK
<1>7. ASSUME NEW i \in Importers, NEW ok \in BOOLEAN, Refreshed(i, ok) PROVE TypeOK'
  <2>1. [imp[i] EXCEPT !.at = "failing"] \in Imports
    BY <1>7, ImportTypes, MoveIsImport DEF Refreshed
  <2>2. imp' \in [Importers -> Imports]
    BY <1>7, <2>1, IdleIsImport DEF Refreshed, MovesTo, Returns, TypeOK
  <2>3. faults' \in 0 .. MaxFaults
    BY <1>7, OutcomeType DEF Refreshed
  <2> QED BY <1>7, <2>2, <2>3 DEF Refreshed, TypeOK
<1>8. ASSUME NEW i \in Importers, NEW ok \in BOOLEAN, Archived(i, ok) PROVE TypeOK'
  <2>1. faults' \in 0 .. MaxFaults
    BY <1>8, OutcomeType DEF Archived, TypeOK
  <2>2. imp' \in [Importers -> Imports]
    BY <1>8, IdleIsImport DEF Archived, Returns, TypeOK
  <2>3. /\ source' \in [Sources -> OrNone(Contents)]
        /\ archive' \in [Sources -> OrNone(Contents)]
    BY <1>8, ImportTypes DEF Archived, TypeOK, OrNone
  <2> QED BY <1>8, <2>1, <2>2, <2>3 DEF Archived, TypeOK
<1>9. ASSUME NEW i \in Importers, CleanedUp(i) PROVE TypeOK'
  BY <1>9, IdleIsImport DEF CleanedUp, AfterFailure, TypeOK, OrNone
<1>10. ASSUME NEW i \in Importers, Crashed(i) PROVE TypeOK'
  <2>1. faults' \in 0 .. MaxFaults
    BY <1>10, IngestAssumption DEF Crashed, TypeOK
  <2> QED BY <1>10, <2>1, IdleIsImport DEF Crashed, TypeOK
<1>11. CASE UNCHANGED vars
  BY <1>11 DEF vars, TypeOK
<1> QED
  BY <1>1, <1>2, <1>3, <1>4, <1>5, <1>6, <1>7, <1>8, <1>9, <1>10, <1>11 DEF Next

\* Types, and what an import under way holds, for any number of importers and
\* any faults: nothing half copied is promoted or archived.
THEOREM TypeCorrect == Spec => []TypeOK
BY TypeInit, TypeStep, PTL DEF Spec

-----------------------------------------------------------------------------

\* The path of an import whose content no row of its source names is the path
\* of no row.
LEMMA NoRowNames ==
    ASSUME TypeOK, DistinctNames, NEW i \in Importers, imp[i].at # "idle",
           row[imp[i].of] # imp[i].hash
    PROVE  \A s \in Sources : DestPath(s, row[s]) # Dest(i)
BY ImportTypes DEF DestPath, Dest, DistinctNames

LEMMA FreshInit == Init => IInv
BY TypeInit DEF IInv, Init, RowHasFile, Fresh, Idle

LEMMA FreshStep ==
    ASSUME OneImporter, DistinctNames, RefreshAccepted, IInv, [Next]_vars
    PROVE  RowHasFile' /\ Fresh'
<1> USE DEF IInv
<1>1. ASSUME NEW s \in Sources, NEW c \in Contents, Published(s, c)
      PROVE  RowHasFile' /\ Fresh'
  BY <1>1 DEF Published, RowHasFile, Fresh, Dest, DestPath
<1>2. ASSUME NEW i \in Importers, NEW s \in Sources, Hashed(i, s)
      PROVE  RowHasFile' /\ Fresh'
  BY <1>2 DEF Hashed, RowHasFile, Fresh, Dest, DestPath, OneImporter, TypeOK
<1>3. ASSUME NEW i \in Importers, Checked(i) PROVE RowHasFile' /\ Fresh'
  <2>1. RowHasFile'
    BY <1>3 DEF Checked, RowHasFile, DestPath
  <2>2. imp'[i].at \in {"idle", "staging"}
    BY <1>3, ImportTypes DEF Checked, Returns, Idle, TypeOK, Imports
  <2>3. imp'[i].at = "staging" => row'[imp'[i].of] # imp'[i].hash
    BY <1>3, ImportTypes DEF Checked, Returns, Idle, TypeOK, Existing, Imports
  <2> QED BY <2>1, <2>2, <2>3 DEF Fresh, OneImporter
<1>4. ASSUME NEW i \in Importers, NEW ok \in BOOLEAN, Staged(i, ok)
      PROVE  RowHasFile' /\ Fresh'
  <2>1. RowHasFile'
    BY <1>4 DEF Staged, RowHasFile, DestPath
  <2>2. /\ imp'[i].at \in {"staging", "failing"}
        /\ imp'[i].of = imp[i].of /\ imp'[i].hash = imp[i].hash
        /\ row' = row
    BY <1>4, ImportTypes DEF Staged, MovesTo, TypeOK, Imports
  <2>3. row[imp[i].of] # imp[i].hash
    BY <1>4 DEF Staged, Fresh
  <2> QED BY <2>1, <2>2, <2>3 DEF Fresh, OneImporter
<1>5. ASSUME NEW i \in Importers, NEW ok \in BOOLEAN, Promoted(i, ok)
      PROVE  RowHasFile' /\ Fresh'
  <2>1. /\ imp[i].at = "staging" /\ imp[i].staged \in Contents
        /\ Dest(i) \in Names \X Contents /\ imp[i] \in Imports
    BY <1>5, ImportTypes DEF Promoted, Promotable
  <2>2. /\ imp'[i].at \in {"failing", "promoted"}
        /\ imp'[i].of = imp[i].of /\ imp'[i].hash = imp[i].hash
        /\ row' = row
    BY <1>5, <2>1 DEF Promoted, MovesTo, TypeOK, Imports
  <2>3. files' = files \/ files' = [files EXCEPT ![Dest(i)] = imp[i].staged]
    BY <1>5 DEF Promoted
  <2>4. \A p \in Names \X Contents : files[p] # None => files'[p] # None
    BY <2>1, <2>3, IngestAssumption DEF TypeOK
  <2>5. RowHasFile'
    <3> SUFFICES ASSUME NEW s \in Sources, row[s] # None
                 PROVE  files'[DestPath(s, row[s])] # None
      BY <2>2 DEF RowHasFile, DestPath
    <3>1. DestPath(s, row[s]) \in Names \X Contents
      BY IngestAssumption DEF DestPath, TypeOK, OrNone
    <3> QED BY <2>4, <3>1 DEF RowHasFile
  <2>6. imp'[i].at = "promoted" => files'[Dest(i)] # None
    BY <1>5, <2>1, IngestAssumption DEF Promoted, MovesTo, TypeOK, Imports
  <2>7. Dest(i)' = Dest(i)
    BY <2>2 DEF Dest, DestPath
  <2>8. row[imp[i].of] # imp[i].hash
    BY <2>1 DEF Fresh
  <2> QED BY <2>2, <2>5, <2>6, <2>7, <2>8 DEF Fresh, OneImporter
<1>6. ASSUME NEW i \in Importers, NEW ok \in BOOLEAN, Inserted(i, ok)
      PROVE  RowHasFile' /\ Fresh'
  <2>1. /\ imp[i].at = "promoted" /\ imp[i] \in Imports
        /\ imp[i].of \in Sources /\ files' = files
    BY <1>6, ImportTypes DEF Inserted
  <2>2. row[imp[i].of] # imp[i].hash /\ files[Dest(i)] # None
    BY <2>1 DEF Fresh
  <2>3. row' = row \/ row' = [row EXCEPT ![imp[i].of] = imp[i].hash]
    BY <1>6 DEF Inserted
  <2>4. RowHasFile'
    BY <2>1, <2>2, <2>3 DEF RowHasFile, Dest, DestPath, TypeOK
  <2>5. /\ imp'[i].at \in {"failing", "archiving", "refreshing", "idle"}
        /\ imp'[i].at = "failing" => /\ imp'[i].of = imp[i].of
                                    /\ imp'[i].hash = imp[i].hash
                                    /\ row' = row
    BY <1>6, <2>1 DEF Inserted, MovesTo, Returns, Idle, TypeOK, Imports
  <2> QED BY <2>2, <2>4, <2>5 DEF Fresh, OneImporter
<1>7. ASSUME NEW i \in Importers, NEW ok \in BOOLEAN, Refreshed(i, ok)
      PROVE  RowHasFile' /\ Fresh'
  <2>1. ok
    BY <1>7 DEF Refreshed, Outcome, RefreshAccepted
  <2> QED BY <1>7, <2>1 DEF Refreshed, Returns, Idle, RowHasFile, Fresh,
                            OneImporter, TypeOK, DestPath
<1>8. ASSUME NEW i \in Importers, NEW ok \in BOOLEAN, Archived(i, ok)
      PROVE  RowHasFile' /\ Fresh'
  BY <1>8 DEF Archived, Returns, Idle, RowHasFile, Fresh, OneImporter, TypeOK,
              DestPath
<1>9. ASSUME NEW i \in Importers, CleanedUp(i) PROVE RowHasFile' /\ Fresh'
  <2>1. imp[i].at = "failing" /\ row' = row
    BY <1>9 DEF CleanedUp
  <2>2. \A s \in Sources : DestPath(s, row[s]) # Dest(i)
    BY <2>1, NoRowNames DEF Fresh
  <2>3. RowHasFile'
    <3> SUFFICES ASSUME NEW s \in Sources, row[s] # None
                 PROVE  files'[DestPath(s, row[s])] # None
      BY <2>1 DEF RowHasFile, DestPath
    <3>1. DestPath(s, row[s]) \in Names \X Contents
      BY IngestAssumption DEF DestPath, TypeOK, OrNone
    <3> QED BY <1>9, <2>2, <3>1 DEF CleanedUp, RowHasFile, TypeOK
  <2>4. imp'[i].at = "idle"
    BY <1>9 DEF CleanedUp, AfterFailure, Idle, TypeOK
  <2> QED BY <2>3, <2>4 DEF Fresh, OneImporter
<1>10. ASSUME NEW i \in Importers, Crashed(i) PROVE RowHasFile' /\ Fresh'
  BY <1>10 DEF Crashed, Idle, RowHasFile, Fresh, OneImporter, TypeOK, DestPath
<1>11. CASE UNCHANGED vars
  BY <1>11 DEF vars, RowHasFile, Fresh, Dest, DestPath
<1> QED
  BY <1>1, <1>2, <1>3, <1>4, <1>5, <1>6, <1>7, <1>8, <1>9, <1>10, <1>11 DEF Next

LEMMA FreshInvariant ==
    ASSUME OneImporter, DistinctNames, RefreshAccepted
    PROVE  Spec => []IInv
<1>1. IInv /\ [Next]_vars => IInv'
  BY TypeStep, FreshStep DEF IInv
<1> QED BY <1>1, FreshInit, PTL DEF Spec

\* With one import at a time, distinct names and a refresh that succeeds, no
\* failure and no crash leaves a row without its file.
THEOREM RowKeepsFile ==
    ASSUME OneImporter, DistinctNames, RefreshAccepted
    PROVE  Spec => []RowHasFile
<1>1. IInv => RowHasFile
  BY DEF IInv
<1> QED BY <1>1, FreshInvariant, PTL

LEMMA NamedStep ==
    ASSUME OneImporter, DistinctNames, IInv, [Next]_vars,
           NEW s \in Sources, row[s] # None
    PROVE  files'[DestPath(s, row[s])] = files[DestPath(s, row[s])]
<1> DEFINE path == DestPath(s, row[s])
<1> USE DEF IInv
<1>1. path \in Names \X Contents
  BY IngestAssumption DEF DestPath, TypeOK, OrNone
<1>2. ASSUME NEW i \in Importers, imp[i].at \in {"staging", "failing"}
      PROVE  path # Dest(i)
  BY <1>2, NoRowNames DEF Fresh
<1>3. ASSUME NEW i \in Importers, NEW ok \in BOOLEAN, Promoted(i, ok)
      PROVE  files'[path] = files[path]
  <2>1. path # Dest(i)
    BY <1>2, <1>3 DEF Promoted, Promotable
  <2> QED BY <1>1, <1>3, <2>1 DEF Promoted, TypeOK
<1>4. ASSUME NEW i \in Importers, CleanedUp(i) PROVE files'[path] = files[path]
  <2>1. path # Dest(i)
    BY <1>2, <1>4 DEF CleanedUp
  <2> QED BY <1>1, <1>4, <2>1 DEF CleanedUp, TypeOK
<1>5. files' = files \/ \E i \in Importers :
         CleanedUp(i) \/ \E ok \in BOOLEAN : Promoted(i, ok)
  BY DEF Next, vars, Published, Hashed, Checked, Staged, Inserted, Refreshed,
         Archived, Crashed
<1> QED BY <1>3, <1>4, <1>5

\* Under the same conditions, a step never rewrites or removes a file that a
\* row names before and after it.
THEOREM NamedFilesKept ==
    ASSUME OneImporter, DistinctNames, RefreshAccepted
    PROVE  Spec => NamedFileUntouched
<1>1. IInv /\ [Next]_vars =>
         [\A s \in Sources : (row[s] # None /\ row'[s] = row[s]) =>
             files'[DestPath(s, row[s])] = files[DestPath(s, row[s])]]_vars
  BY NamedStep
<1> QED BY <1>1, FreshInvariant, PTL DEF Spec, NamedFileUntouched

-----------------------------------------------------------------------------

LEMMA SteadyInit == Init => SteadyInv
BY FreshInit DEF SteadyInv, Init, StoredAsHashed, Steady, Idle

LEMMA SteadyStep ==
    ASSUME OneImporter, ~WhileImported, SteadyInv, [Next]_vars
    PROVE  StoredAsHashed' /\ Steady'
<1> USE DEF SteadyInv, IInv
<1>1. ASSUME NEW s \in Sources, NEW c \in Contents, Published(s, c)
      PROVE  StoredAsHashed' /\ Steady'
  <2>1. \A i \in Importers : source'[imp[i].of] = source[imp[i].of]
    BY <1>1 DEF Published, TypeOK
  <2> QED BY <1>1, <2>1 DEF Published, StoredAsHashed, Steady, Dest, DestPath
<1>2. ASSUME NEW i \in Importers, NEW s \in Sources, Hashed(i, s)
      PROVE  StoredAsHashed' /\ Steady'
  BY <1>2 DEF Hashed, StoredAsHashed, Steady, OneImporter, TypeOK
<1>3. ASSUME NEW i \in Importers, Checked(i) PROVE StoredAsHashed' /\ Steady'
  <2>1. \/ imp'[i] = Idle
        \/ /\ imp'[i].at = "staging" /\ imp'[i].staged = Partial
           /\ imp'[i].of = imp[i].of /\ imp'[i].hash = imp[i].hash
    BY <1>3, ImportTypes DEF Checked, Returns, TypeOK, Imports
  <2>2. imp[i].at = "hashed" /\ source' = source /\ files' = files
    BY <1>3 DEF Checked
  <2> QED BY <2>1, <2>2 DEF StoredAsHashed, Steady, OneImporter, Idle
<1>4. ASSUME NEW i \in Importers, NEW ok \in BOOLEAN, Staged(i, ok)
      PROVE  StoredAsHashed' /\ Steady'
  <2>1. imp[i].at = "staging" /\ source' = source /\ files' = files
    BY <1>4 DEF Staged
  <2>2. Copied(i) = imp[i].hash
    BY <2>1 DEF Copied, Steady
  <2>3. \/ imp'[i].at = "failing"
        \/ /\ imp'[i].at = "staging" /\ imp'[i].staged = imp[i].hash
           /\ imp'[i].of = imp[i].of /\ imp'[i].hash = imp[i].hash
    BY <1>4, <2>2, ImportTypes DEF Staged, MovesTo, TypeOK, Imports
  <2> QED BY <2>1, <2>3 DEF StoredAsHashed, Steady, OneImporter
<1>5. ASSUME NEW i \in Importers, NEW ok \in BOOLEAN, Promoted(i, ok)
      PROVE  StoredAsHashed' /\ Steady'
  <2>1. /\ imp[i].at = "staging" /\ imp[i].staged = imp[i].hash
        /\ imp[i] \in Imports /\ Dest(i) \in Names \X Contents
        /\ source' = source
    BY <1>5, ImportTypes DEF Promoted, Promotable, Steady
  <2>2. /\ imp'[i].at \in {"failing", "promoted"}
        /\ imp'[i].of = imp[i].of /\ imp'[i].hash = imp[i].hash
    BY <1>5, <2>1 DEF Promoted, MovesTo, TypeOK, Imports
  <2>3. files' = files \/ files' = [files EXCEPT ![Dest(i)] = imp[i].hash]
    BY <1>5, <2>1 DEF Promoted
  <2>4. StoredAsHashed'
    BY <2>1, <2>3 DEF StoredAsHashed, TypeOK, Dest, DestPath
  <2>5. imp'[i].at = "promoted" => files'[Dest(i)] = imp[i].hash
    BY <1>5, <2>1 DEF Promoted, MovesTo, TypeOK, Imports
  <2>6. Dest(i)' = Dest(i)
    BY <2>2 DEF Dest, DestPath
  <2> QED BY <2>1, <2>2, <2>4, <2>5, <2>6 DEF Steady, OneImporter
<1>6. ASSUME NEW i \in Importers, NEW ok \in BOOLEAN, Inserted(i, ok)
      PROVE  StoredAsHashed' /\ Steady'
  <2>1. /\ imp[i].at = "promoted" /\ imp[i] \in Imports /\ imp[i].of \in Sources
        /\ source' = source /\ files' = files
    BY <1>6, ImportTypes DEF Inserted
  <2>2. /\ imp'[i].at \in {"failing", "archiving", "refreshing", "idle"}
        /\ imp'[i].at = "archiving" =>
              /\ imp'[i].of = imp[i].of /\ imp'[i].hash = imp[i].hash
              /\ row'[imp[i].of] = imp[i].hash
    BY <1>6, <2>1 DEF Inserted, MovesTo, Returns, Idle, TypeOK, Imports
  <2> QED BY <2>1, <2>2 DEF StoredAsHashed, Steady, OneImporter, Dest
<1>7. ASSUME NEW i \in Importers, NEW ok \in BOOLEAN, Refreshed(i, ok)
      PROVE  StoredAsHashed' /\ Steady'
  <2>1. imp'[i].at \in {"idle", "failing"}
    BY <1>7, ImportTypes DEF Refreshed, MovesTo, Returns, Idle, TypeOK, Imports
  <2> QED BY <1>7, <2>1 DEF Refreshed, StoredAsHashed, Steady, OneImporter
<1>8. ASSUME NEW i \in Importers, NEW ok \in BOOLEAN, Archived(i, ok)
      PROVE  StoredAsHashed' /\ Steady'
  BY <1>8 DEF Archived, Returns, Idle, StoredAsHashed, Steady, OneImporter, TypeOK
<1>9. ASSUME NEW i \in Importers, CleanedUp(i) PROVE StoredAsHashed' /\ Steady'
  BY <1>9 DEF CleanedUp, AfterFailure, Idle, StoredAsHashed, Steady, OneImporter,
              TypeOK
<1>10. ASSUME NEW i \in Importers, Crashed(i) PROVE StoredAsHashed' /\ Steady'
  BY <1>10 DEF Crashed, Idle, StoredAsHashed, Steady, OneImporter, TypeOK
<1>11. CASE UNCHANGED vars
  BY <1>11 DEF vars, StoredAsHashed, Steady, Dest, DestPath
<1> QED
  BY <1>1, <1>2, <1>3, <1>4, <1>5, <1>6, <1>7, <1>8, <1>9, <1>10, <1>11 DEF Next

LEMMA SteadyInvariant ==
    ASSUME OneImporter, DistinctNames, RefreshAccepted, ~WhileImported
    PROVE  Spec => []SteadyInv
<1>1. SteadyInv /\ [Next]_vars => SteadyInv'
  BY TypeStep, FreshStep, SteadyStep DEF SteadyInv, IInv
<1> QED BY <1>1, SteadyInit, PTL DEF Spec

\* When sources stand still while they are imported, too, every file at a
\* destination path is whole and has the content its name tells.
THEOREM FilesAsHashed ==
    ASSUME OneImporter, DistinctNames, RefreshAccepted, ~WhileImported
    PROVE  Spec => []StoredAsHashed
<1>1. SteadyInv => StoredAsHashed
  BY DEF SteadyInv
<1> QED BY <1>1, SteadyInvariant, PTL

\* Under the same conditions, only a file that was imported, with its row and
\* its copy in place, leaves the drop directory for the archive.
THEOREM ArchivedIsImported ==
    ASSUME OneImporter, DistinctNames, RefreshAccepted, ~WhileImported
    PROVE  Spec => ArchivesImportedOnly
<1>1. ASSUME SteadyInv, NEW i \in Importers, NEW ok \in BOOLEAN, Archived(i, ok),
             NEW s \in Sources, archive'[s] # archive[s]
      PROVE  /\ row[s] = archive'[s]
             /\ files[DestPath(s, archive'[s])] = archive'[s]
  <2>1. s = imp[i].of /\ archive'[s] = source[s]
    BY <1>1 DEF Archived, SteadyInv, IInv, TypeOK
  <2> QED BY <1>1, <2>1 DEF Archived, SteadyInv, Steady, Dest
<1>2. SteadyInv /\ [Next]_vars =>
         [\A s \in Sources : archive'[s] # archive[s] =>
             /\ row[s] = archive'[s]
             /\ files[DestPath(s, archive'[s])] = archive'[s]]_vars
  <2>1. [Next]_vars => \/ archive' = archive
                       \/ \E i \in Importers, ok \in BOOLEAN : Archived(i, ok)
    BY DEF Next, vars, Published, Hashed, Checked, Staged, Promoted, Inserted,
           Refreshed, CleanedUp, Crashed
  <2> QED BY <1>1, <2>1
<1> QED BY <1>2, SteadyInvariant, PTL DEF Spec, ArchivesImportedOnly
=============================================================================
