\* A restart appends after the torn tail that sealed the previous life.
SPECIFICATION Spec
CONSTANTS
    Emitters = {e1, e2, e3}
    MaxSeq = 3
    MaxLives = 2
SYMMETRY Symmetry
INVARIANT AckedIsReadable
CHECK_DEADLOCK FALSE
