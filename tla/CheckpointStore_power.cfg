SPECIFICATION FairSpec
CONSTANTS
    Managers = {m1, m2}
    Restorers = {r1}
    None = None
    MaxVersion = 3
INVARIANTS TypeOK RecoveryIsWhole NoLostCheckpoint RestoreIsCurrent StoreInv
PROPERTIES AtomicSpec AtomicSteps ActiveSlotUntouched ManifestDescribesActive LockReleased
