SPECIFICATION Spec
CONSTANTS
  i1 = i1
  i2 = i2
  drop = drop
  bundle = bundle
  copied = copied
  artifact = artifact
  c1 = c1
  c2 = c2
  None = None
  Partial = Partial
  Importers = {i1}
  Sources = {bundle, copied}
  Kind <- BundleKind
  Names = {"bundle"}
  Name <- BundleName
  Contents = {c1}
  Archiving = {i1}
  Refusable = {}
  MaxFaults = 0
  MaxPublished = 2
  WhileImported = FALSE
INVARIANTS RowHasFile
CHECK_DEADLOCK FALSE
