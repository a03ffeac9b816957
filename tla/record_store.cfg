\* Two sessions, one column of the row at a time: every column of every table has its turn.
SPECIFICATION Spec
CONSTANTS
    Sessions = {s1, s2}
    s1 = s1
    s2 = s2
    FocusBound = 1
SYMMETRY Symmetry
INVARIANTS
    TypeOK
    BreachIsForeign
PROPERTIES
    EditsAreLocal
    BackstopIsForStaleRows
