\* Three concurrent emits, three sequence numbers a life, one restart.
SPECIFICATION Spec
CONSTANTS
    Emitters = {e1, e2, e3}
    MaxSeq = 3
    MaxLives = 2
SYMMETRY Symmetry
INVARIANTS TypeOK AckedIsDurable NothingAfterUnconfirmed NoDuplicateRecord 
CHECK_DEADLOCK FALSE
