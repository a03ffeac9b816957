SPECIFICATION Spec
CONSTANTS
    NoPolicy = NoPolicy
    NoChain = NoChain
    Admins = {a1, a2}
    Rows = {r1, r2, r3, r4, r5}
    Policies = {p1}
    Employees <- MCEmployees
    Proposals <- MCProposals
    EditedSteps <- MCEditedSteps
    EditedNumbers <- MCNumbers
    MaxChainSteps = 2
SYMMETRY MCSymmetry
INVARIANTS
    TypeOK
    OneRowPerStep
    ChainIsWhole
    ReplacedIsResolvable
    TableDiscipline
PROPERTIES
    ConflictWasOvertaken
    ImplementsTable
