SPECIFICATION Spec
CONSTANTS
  i1 = i1
  i2 = i2
  drop = drop
  bundle = bundle
  copied = copied
  artifact = artifact
  c1 = c1
  c2 = c2
  None = None
  Partial = Partial
  Importers = {i1}
  Sources = {drop, bundle, artifact}
  Kind <- MixedKind
  Names = {"run.jsonl", "bundle", "ci.zip"}
  Name <- MixedName
  Contents = {c1, c2}
  Archiving = {i1}
  Refusable = {"stage", "promote", "insert", "archive"}
  MaxFaults = 2
  MaxPublished = 5
  WhileImported = FALSE
INVARIANTS RowHasFile StoredAsHashed
PROPERTIES NamedFileUntouched ArchivesImportedOnly
CHECK_DEADLOCK FALSE
