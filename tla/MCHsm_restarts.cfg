SPECIFICATION Spec
CONSTANTS
    derived1 = derived1  derived2 = derived2
    OtherIds = {"other"}
    DerivedKeys = {derived1, derived2}
    Configured = derived1
    Lifetime = 0
    MaxTime = 1
    MaxPairs = 6
CHECK_DEADLOCK FALSE
INVARIANTS
    IInv
    MemoryIsSaved
    SignedAndSealedSurvive
    PublishedIsUsed
    DeletedStaysDeleted
