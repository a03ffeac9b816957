SPECIFICATION Spec
CONSTANTS
    r1 = r1
    r2 = r2
    r3 = r3
    NoTxn = NoTxn
    NoRow = NoRow
    Txns = {t1, t2}
    Rows = {r1, r2}
    Employees <- MCEmployees
    Requester = 1
    Heads = {3}
    Delegable <- MCDelegable
    Chains <- MCPairs
PROPERTIES
    LostDecisionReportsVerdict
