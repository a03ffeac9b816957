SPECIFICATION Spec
CONSTANTS
    r1 = r1
    r2 = r2
    r3 = r3
    NoTxn = NoTxn
    NoRow = NoRow
    Txns = {t1, t2}
    Rows = {r1, r2, r3}
    Employees <- MCEmployees
    Requester = 1
    Heads = {4}
    Delegable <- MCDelegable
    Chains <- MCChains
SYMMETRY MCSymmetry
INVARIANTS
    TypeOK
    VerdictMatchesRows
    ChainInOrder
    DeciderOwnsVerdict
    VerdictHasDecider
    LockDiscipline
    Evidence
    NobodyIsStranded
PROPERTIES
    DecisionsAreFinal
    DecideReportsVerdict
    ImplementsLifecycle
