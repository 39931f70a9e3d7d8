CONSTANTS
  Names = {"short:1", "long:50000", "long:50001"}
  Labels = {"short:1", "long"}
  Label <- MCLabel
  Keys = {"k1", "k2"}
  Fingerprints <- MCFingerprints
  Fingerprint <- MCFingerprint
  Roles = {"exit"}
  Times <- MCTimes
  Generations <- MCGenerations
  MaxEntries = 3
  NoPin = NoPin
SPECIFICATION Spec
INVARIANTS
  OnlyPinnedKeys
PROPERTY RefinesPinStore
