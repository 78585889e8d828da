--------------------------- MODULE StudioIngestMC ---------------------------
(***************************************************************************)
(* Small instances of StudioIngest: a drop file, a bundle and an artifact  *)
(* of different names; and two bundle directories of one folder name.      *)
(***************************************************************************)
EXTENDS StudioIngest, TLC

CONSTANTS i1, i2, drop, bundle, copied, artifact, c1, c2

MixedKind == (drop :> "drop") @@ (bundle :> "bundle") @@ (artifact :> "artifact")
MixedName == (drop :> "run.jsonl") @@ (bundle :> "bundle") @@ (artifact :> "ci.zip")

BundleKind == (bundle :> "bundle") @@ (copied :> "bundle")
BundleName == (bundle :> "bundle") @@ (copied :> "bundle")
=============================================================================
