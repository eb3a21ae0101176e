SPECIFICATION Spec
CONSTANTS
    Block <- MCBlock
    Parent <- MCParent
INVARIANTS NoLostWakeUp TablesAgree
PROPERTY EventuallyResolved
