SPECIFICATION Spec
CONSTANTS
    NoId = NoId
    NoPolicy = NoPolicy
    p1 = p1
    Filers = {f1, f2}
    Ids = {i1, i2}
    FileAttempts = 2
    Requesters = {1}
    Employees <- MCEmployees
    Policies = {p1}
    ChainsOf <- MCByHead
    Delegable <- MCNone
    Answers <- MCHeads
INVARIANTS
    PreviewedProblemsRefused
