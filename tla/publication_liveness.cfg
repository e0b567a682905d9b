SPECIFICATION FairSpec
CONSTANTS
  A = A
  B = B
  Manifests = {A}
  NoManifest = NoManifest
  Synchronized = FALSE
  MaxAttempts = 2
  MaxEdits = 0
  MaxCrashes = 1
  MaxRev = 1
  MaxPreviews = 1
  MaxLate = 1
  MaxRemote = 2
  MaxDirect = 1
  DirectKinds = {"password"}
  LifecycleKinds = {"delete"}
PROPERTY OpenOpsResolve
