---------------------------- MODULE StudioIngest ----------------------------
(***************************************************************************)
(* Studio's import of files other programs leave for it: the drop          *)
(* directory (ingest/file-drop.ts), bundle directories (bundle-upload.ts)  *)
(* and downloaded artifacts (github-artifact.ts).  All three hash a        *)
(* source, look for a database row with that hash, stage a copy, rename it *)
(* into place, insert the row, and remove the copy when a step fails.      *)
(*                                                                         *)
(* A content stands for its hash.  A scan of the drop directory is its     *)
(* imports one by one, in any order.  Left out: size limits, rejected      *)
(* sources, the staging directory a crash leaves behind, HTTP uploads.     *)
(***************************************************************************)
EXTENDS Naturals

CONSTANTS
    Importers,     \* processes and requests that import
    Sources,       \* what the database keys a row by: drop files, bundle
                   \*   directories, artifacts
    Kind,          \* [Sources -> {"drop", "bundle", "artifact"}]
    Names, Name,   \* [Sources -> Names]: the source's file or folder name
    Contents,
    None,          \* no file, no row
    Partial,       \* a copy not finished
    Archiving,     \* importers called with archiveAfterImport
    Refusable,     \* operations the system may refuse
    MaxFaults,     \* bound: refused operations and crashes
    MaxPublished,  \* bound: contents published
    WhileImported  \* may a source change while it is imported?

ASSUME IngestAssumption ==
    /\ Kind \in [Sources -> {"drop", "bundle", "artifact"}]
    /\ Name \in [Sources -> Names]
    /\ None \notin Sources \cup Contents
    /\ Partial \notin Contents \cup {None}
    /\ Archiving \subseteq Importers
    /\ MaxFaults \in Nat /\ MaxPublished \in Nat /\ WhileImported \in BOOLEAN

VARIABLES
    source,      \* what each source holds now
    archive,     \* dropDir/.imported
    files,       \* what stands at each destination path
    row,         \* ingest_files: the content hash stored for each source
    imp,         \* where each importer stands
    faults, published

vars == <<source, archive, files, row, imp, faults, published>>

Idle == [at |-> "idle", of |-> None, hash |-> None, staged |-> None]

Init ==
    /\ source = [s \in Sources |-> None]
    /\ archive = [s \in Sources |-> None]
    /\ files = [p \in Names \X Contents |-> None]
    /\ row = [s \in Sources |-> None]
    /\ imp = [i \in Importers |-> Idle]
    /\ faults = 0
    /\ published = 0

-----------------------------------------------------------------------------
(* The world around Studio                                                  *)

\* Another program writes a source, over an earlier content or not.
Published(s, c) ==
    /\ published < MaxPublished
    /\ source[s] # c
    /\ WhileImported \/ \A i \in Importers : imp[i].of # s
    /\ source' = [source EXCEPT ![s] = c]
    /\ published' = published + 1
    /\ UNCHANGED <<archive, files, row, imp, faults>>

\* An operation succeeds, or the system refuses it.
Outcome(operation, ok) ==
    IF ok THEN UNCHANGED faults
    ELSE /\ operation \in Refusable
         /\ faults < MaxFaults
         /\ faults' = faults + 1

\* The process is killed: what it staged is forgotten, the rest stands.
Crashed(i) ==
    /\ imp[i].at # "idle"
    /\ faults < MaxFaults
    /\ faults' = faults + 1
    /\ imp' = [imp EXCEPT ![i] = Idle]
    /\ UNCHANGED <<source, archive, files, row, published>>

-----------------------------------------------------------------------------
(* One import                                                               *)

MovesTo(i, at) == imp' = [imp EXCEPT ![i].at = at]
Returns(i) == imp' = [imp EXCEPT ![i] = Idle]

DestPath_NameOnly(s, hash) ==                                   \* mutant
    <<Name[s], CHOOSE c \in Contents : TRUE>>

\* uniqueDestPath
DestPath(s, hash) == <<Name[s], hash>>

Dest(i) == DestPath(imp[i].of, imp[i].hash)

\* hashFile, hashBundleContents, a finished download.
Hashed(i, s) ==
    /\ imp[i].at = "idle"
    /\ source[s] # None
    /\ imp' = [imp EXCEPT ![i] = [at |-> "hashed", of |-> s, hash |-> source[s],
                                  staged |-> None]]
    /\ UNCHANGED <<source, archive, files, row, faults, published>>

Existing_Never(i) == FALSE                                      \* mutant

\* findIngestFileBySourceKey: the row names this very content.
Existing(i) == row[imp[i].of] = imp[i].hash

\* The import stops at an existing row; else withAtomicStagingDir.
Checked(i) ==
    /\ imp[i].at = "hashed"
    /\ IF Existing(i)
         THEN Returns(i)
         ELSE imp' = [imp EXCEPT ![i].at = "staging", ![i].staged = Partial]
    /\ UNCHANGED <<source, archive, files, row, faults, published>>

\* What is copied: a source is read again, a download is in memory.
Copied(i) ==
    IF Kind[imp[i].of] = "artifact" THEN imp[i].hash ELSE source[imp[i].of]

\* copyFile, copyDirectoryRecursive, writeFile; a source may be gone by now.
Staged(i, ok) ==
    /\ imp[i].at = "staging" /\ imp[i].staged = Partial
    /\ IF Copied(i) = None
         THEN ~ok /\ MovesTo(i, "failing") /\ UNCHANGED faults
         ELSE /\ Outcome("stage", ok)
              /\ IF ok THEN imp' = [imp EXCEPT ![i].staged = Copied(i)]
                 ELSE MovesTo(i, "failing")
    /\ UNCHANGED <<source, archive, files, row, published>>

Promotable_Unawaited(i) == imp[i].at = "staging"                \* mutant

Promotable(i) == imp[i].at = "staging" /\ imp[i].staged # Partial

\* rename() replaces a file, but not a directory that holds anything.
Occupied(i) == Kind[imp[i].of] = "bundle" /\ files[Dest(i)] # None

\* promoteStagingPath, then the staging directory is removed.
Promoted(i, ok) ==
    /\ Promotable(i)
    /\ IF Occupied(i)
         THEN ~ok /\ MovesTo(i, "failing") /\ UNCHANGED <<files, faults>>
         ELSE /\ Outcome("promote", ok)
              /\ MovesTo(i, IF ok THEN "promoted" ELSE "failing")
              /\ files' = IF ok THEN [files EXCEPT ![Dest(i)] = imp[i].staged]
                          ELSE files
    /\ UNCHANGED <<source, archive, row, published>>

Archives(i) == Kind[imp[i].of] = "drop" /\ i \in Archiving

\* insertIngestFile.  A refusal stands also for the staging directory's.
Inserted(i, ok) ==
    /\ imp[i].at = "promoted"
    /\ Outcome("insert", ok)
    /\ row' = IF ok THEN [row EXCEPT ![imp[i].of] = imp[i].hash] ELSE row
    /\ CASE ~ok -> MovesTo(i, "failing")
         [] ok /\ Archives(i) -> MovesTo(i, "archiving")
         [] ok /\ Kind[imp[i].of] = "bundle" -> MovesTo(i, "refreshing")
         [] OTHER -> Returns(i)
    /\ UNCHANGED <<source, archive, files, published>>

\* importStudioRegistry, inside the try of a bundle import.
Refreshed(i, ok) ==
    /\ imp[i].at = "refreshing"
    /\ Outcome("refresh", ok)
    /\ IF ok THEN Returns(i) ELSE MovesTo(i, "failing")
    /\ UNCHANGED <<source, archive, files, row, published>>

AfterFailure_Archives(i) ==                                     \* mutant
    IF Archives(i) THEN [imp[i] EXCEPT !.at = "archiving"] ELSE Idle

\* What is left to do when the failed import's destination is removed.
AfterFailure(i) == Idle

\* The catch of an import: rm(destPath).
CleanedUp(i) ==
    /\ imp[i].at = "failing"
    /\ files' = [files EXCEPT ![Dest(i)] = None]
    /\ imp' = [imp EXCEPT ![i] = AfterFailure(i)]
    /\ UNCHANGED <<source, archive, row, faults, published>>

\* archiveAfterImport: rename whatever the drop file is now.
Archived(i, ok) ==
    /\ imp[i].at = "archiving"
    /\ LET s == imp[i].of IN
       IF source[s] = None
         THEN ~ok /\ UNCHANGED <<source, archive, faults>>
         ELSE /\ Outcome("archive", ok)
              /\ archive' = IF ok THEN [archive EXCEPT ![s] = source[s]] ELSE archive
              /\ source' = IF ok THEN [source EXCEPT ![s] = None] ELSE source
    /\ Returns(i)
    /\ UNCHANGED <<files, row, published>>

Next ==
    \/ \E s \in Sources, c \in Contents : Published(s, c)
    \/ \E i \in Importers :
          \/ \E s \in Sources : Hashed(i, s)
          \/ Checked(i)
          \/ \E ok \in BOOLEAN : \/ Staged(i, ok)
                                 \/ Promoted(i, ok)
                                 \/ Inserted(i, ok)
                                 \/ Refreshed(i, ok)
                                 \/ Archived(i, ok)
          \/ CleanedUp(i)
          \/ Crashed(i)

Spec == Init /\ [][Next]_vars

-----------------------------------------------------------------------------
(* Properties                                                               *)

At == {"idle", "hashed", "staging", "promoted", "refreshing", "archiving",
       "failing"}
OrNone(S) == S \cup {None}

\* Where an importer can stand: an import under way knows its source and hash,
\* and what it promotes or archives was copied whole.
Imports ==
    {m \in [at : At, of : OrNone(Sources), hash : OrNone(Contents),
            staged : OrNone(Contents \cup {Partial})] :
        /\ m.at # "idle" => m.of \in Sources /\ m.hash \in Contents
        /\ m.at = "staging" => m.staged # None
        /\ m.at \in {"promoted", "refreshing", "archiving"} =>
              m.staged \in Contents}

\* Types.
TypeOK ==
    /\ source \in [Sources -> OrNone(Contents)]
    /\ archive \in [Sources -> OrNone(Contents)]
    /\ files \in [Names \X Contents -> OrNone(Contents \cup {Partial})]
    /\ row \in [Sources -> OrNone(Contents)]
    /\ imp \in [Importers -> Imports]
    /\ faults \in 0 .. MaxFaults
    /\ published \in 0 .. MaxPublished

\* docs/STUDIO-IMPORT-BUNDLE.md promises idempotent bookkeeping: a source with
\* a row is not imported again.  Then the file its row names must be there, or
\* the evidence is gone for good; no failure and no crash between the rename
\* and the row may leave a row without its file.
RowHasFile ==
    \A s \in Sources : row[s] # None => files[DestPath(s, row[s])] # None

\* A file a row names is not rewritten or removed by any later import, failed
\* or not: Studio may be showing it.
NamedFileUntouched ==
    [][\A s \in Sources : (row[s] # None /\ row'[s] = row[s]) =>
          files'[DestPath(s, row[s])] = files[DestPath(s, row[s])]]_vars

\* Under every destination path stands the content its name tells, whole: a
\* crash while copying leaves no partial file for the next import to find.
StoredAsHashed ==
    \A n \in Names, c \in Contents : files[<<n, c>>] \in {None, c}

\* file-drop.ts:41 "Move successfully imported files": what is moved out of the
\* drop directory has its copy in place and its row.
ArchivesImportedOnly ==
    [][\A s \in Sources : archive'[s] # archive[s] =>
          /\ row[s] = archive'[s]
          /\ files[DestPath(s, archive'[s])] = archive'[s]]_vars

-----------------------------------------------------------------------------
(* The inductive invariant of StudioIngestProofs                            *)

\* Where these properties hold: one import at a time, no two sources of one
\* file name, and a registry refresh that does not fail.
OneImporter == \A i, j \in Importers : i = j
DistinctNames == \A s, t \in Sources : Name[s] = Name[t] => s = t
RefreshAccepted == "refresh" \notin Refusable

\* An import past its check is one whose path no row names yet; once it has
\* promoted, its file is there.
Fresh ==
    \A i \in Importers :
        /\ imp[i].at \in {"staging", "promoted", "failing"} =>
              row[imp[i].of] # imp[i].hash
        /\ imp[i].at = "promoted" => files[Dest(i)] # None

\* While sources stand still, what is hashed is what is copied, promoted and
\* archived.
Steady ==
    \A i \in Importers :
        /\ imp[i].at \in {"hashed", "staging", "promoted", "archiving"} =>
              source[imp[i].of] = imp[i].hash
        /\ imp[i].at = "staging" => imp[i].staged \in {Partial, imp[i].hash}
        /\ imp[i].at = "promoted" => files[Dest(i)] = imp[i].hash
        /\ imp[i].at = "archiving" => row[imp[i].of] = imp[i].hash
                                      /\ files[Dest(i)] = imp[i].hash

IInv == TypeOK /\ RowHasFile /\ Fresh

SteadyInv == IInv /\ StoredAsHashed /\ Steady
=============================================================================
