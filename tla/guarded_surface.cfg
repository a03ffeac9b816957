SPECIFICATION Spec
CONSTANTS
    Layered = TRUE
    NoTenant = NoTenant
    NoWindow = NoWindow
    NoSession = NoSession
    NoUser = NoUser
    Composed = composed
    t1 = t1
    u1 = u1
    u2 = u2
    ghost = ghost
    rq1 = rq1
    Sessions = {s1, s2}
    Tenants = {t1}
    Users = {u1, u2, ghost}
    EmployeeOf <- MCEmployeeOf
    Employees <- MCEmployees
    Windows = {w1, w2}
    Days <- MCDays
    Periods <- MCPeriods
    RequestsOf <- MCRequestsOf
    ApproverOf <- MCApproverOf
SYMMETRY MCSymmetry
INVARIANTS
    TypeOK
    SurfaceDiscipline
PROPERTIES
    RevokedOnce
    NotActiveIsHonest
    DecidesByConsent
    TenantFence
    StatusTellsTheEffect
    ImplementsRegister
