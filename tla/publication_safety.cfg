SPECIFICATION Spec
CONSTANTS
  A = A
  B = B
  Manifests <- MCManifests
  NoManifest = NoManifest
  Synchronized = TRUE
  MaxAttempts = 1
  MaxEdits = 1
  MaxCrashes = 1
  MaxRev = 1
  MaxPreviews = 1
  MaxLate = 1
  MaxRemote = 1
  MaxDirect = 1
  DirectKinds = {"republish", "settings"}
  LifecycleKinds = {"unpublish"}
SYMMETRY Symmetry
INVARIANTS TypeOK PublishedAtExactRevision NotAheadOfRemote
PROPERTIES CompletedNotBehind OnlyRepliesLowerRevision
