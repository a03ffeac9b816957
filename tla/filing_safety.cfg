SPECIFICATION Spec
CONSTANTS
    NoId = NoId
    NoPolicy = NoPolicy
    p1 = p1
    Filers = {f1, f2}
    Ids = {i1, i2}
    FileAttempts = 3
    Requesters = {1}
    Employees <- MCEmployees
    Policies = {p1}
    ChainsOf <- MCChains
    Delegable <- MCDelegable
    Answers <- MCAnswers
SYMMETRY MCSymmetry
INVARIANTS
    TypeOK
    OneHolder
    FiledWhole
    FilingDiscipline
PROPERTIES
    ExhaustedWasOvertaken
    ImplementsClaim
