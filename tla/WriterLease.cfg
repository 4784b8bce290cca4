CONSTANTS
  w1 = w1  w2 = w2  w3 = w3  o1 = o1  o2 = o2  NoOne = NoOne
  Writers = {w1, w2, w3}
  OwnerOf <- Owners
  SyncWriters = {w2, w3}
  Backends = {"local-file-lock", "memory"}
  TTL = 2
  MaxFence = 5
SPECIFICATION Spec
INVARIANTS SuccessMeansUndisturbed SnapshotCoherent
PROPERTIES
  FencesStrictlyIncrease LiveLeaseOnlyReleasedByOwner WritesInFenceOrderLocally
