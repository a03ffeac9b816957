----------------------- MODULE GuardedSurface_proofs -----------------------
(***************************************************************************)
(* What TLAPS proves about the guarded surface and the delegation verbs,   *)
(* for every number of handlers, tenants, employees, windows and days.     *)
(***************************************************************************)
EXTENDS GuardedSurfaceInv, TLAPS

Inv == TypeOK /\ SurfaceDiscipline

-----------------------------------------------------------------------------
(* Constants and records.                                                  *)

\* No window is mistaken for a row that is not there.
LEMMA WindowFacts ==
  ASSUME NEW w, w \in Window
  PROVE  /\ w # NotThere /\ w.status \in {"active", "revoked"}
         /\ w.home \in Databases /\ w.approver_id \in Employees
         /\ w.delegate_to_id \in Employees /\ w.approver_id # w.delegate_to_id
         /\ w.valid_from \in Days /\ w.valid_to \in Days
         /\ w.valid_from <= w.valid_to
  BY DEF Window, WindowOf, NotThere

LEMMA NoCallFacts ==
  /\ NoCall \in Locals /\ Knows("idle", NoCall)
  /\ Claims("idle", NoCall) = {} /\ Marks("idle", NoCall) = {}
  <1>1. NoCall \in Locals
    BY DEF NoCall, Locals, Databases
  <1>2. /\ NoCall.verb = "none" /\ NoCall.gone = {}
        /\ NoCall.home = Composed /\ NoCall.tenant = NoTenant
    BY DEF NoCall
  <1>3. rpool(NoCall.verb, NoCall.tenant) = Composed
    BY <1>2 DEF rpool
  <1> QED BY <1>1, <1>2, <1>3 DEF Knows, RunsAt, Claims, Marks

\* rpool leads to a database.
LEMMA PoolType ==
  ASSUME NEW verb, NEW tenant \in Tenants \union {NoTenant}
  PROVE  rpool(verb, tenant) \in Databases
  BY DEF rpool, Databases

\* The statuses and codes of the answers.
LEMMA StatusOfCode ==
  ASSUME NEW code \in Codes
  PROVE  /\ http_status(code) \in {200, 201, 403, 404, 409, 422, 500}
         /\ http_status(code) \in 400..499
              => code \notin {"created", "revoked", "decided", "database_error"}
  BY DEF Codes, http_status

-----------------------------------------------------------------------------
(* The inductive invariant.                                                *)

LEMMA InitInv == Init => Inv
  <1> SUFFICES ASSUME Init PROVE Inv
    OBVIOUS
  <1>1. TypeOK
    BY SurfaceAssumption, NoCallFacts DEF Init, TypeOK, PCs
  <1>2. SurfaceDiscipline
    <2>1. \A s \in Sessions : pc[s] = "idle" /\ tx[s] = NoCall
      BY DEF Init
    <2>2. \A w \in Windows : windows[w] = NotThere
      BY DEF Init
    <2> QED BY <2>1, <2>2, NoCallFacts DEF SurfaceDiscipline
  <1> QED BY <1>1, <1>2 DEF Inv

\* No other handler than s claims a window or marks a request of s's at this statement.
Unclaimed(s, label, c) ==
    \A u \in Sessions : u # s =>
        /\ Claims(label, c) \intersect Claims(pc[u], tx[u]) = {}
        /\ Marks(label, c) \intersect Marks(pc[u], tx[u]) = {}

\* Every window in the table was created by a token of its approver's.
Granted ==
    \A w \in Windows : windows[w] # NotThere =>
        granter[w] \in Users /\ EmployeeOf[granter[w]] = windows[w].approver_id

LEMMA DisciplineParts ==
  SurfaceDiscipline <=>
    /\ \A s \in Sessions : Knows(pc[s], tx[s])
    /\ \A s \in Sessions : Unclaimed(s, pc[s], tx[s])
    /\ Granted
  BY DEF SurfaceDiscipline, Unclaimed, Granted

\* A statement that writes no row: the other handlers are where they were.
LEMMA QuietStep ==
  ASSUME Inv, NEW s \in Sessions, NEW label \in PCs, NEW c \in Locals,
         pc' = [pc EXCEPT ![s] = label], tx' = [tx EXCEPT ![s] = c],
         UNCHANGED <<windows, decider, today, granter>>, answer' \in Answers \union {NoAnswer},
         Knows(label, c), Unclaimed(s, label, c)
  PROVE  Inv'
  <1>1. TypeOK'
    BY DEF Inv, TypeOK
  <1>2. \A u \in Sessions : /\ pc'[u] = IF u = s THEN label ELSE pc[u]
                            /\ tx'[u] = IF u = s THEN c ELSE tx[u]
    BY DEF Inv, TypeOK
  <1>3. \A l, d : Knows(l, d)' <=> Knows(l, d)
    BY DEF Knows, LentTo
  <1>4. \A u \in Sessions : Knows(pc[u], tx[u])'
    BY <1>2, <1>3 DEF Inv, SurfaceDiscipline
  <1>5. \A u, v \in Sessions : u # v =>
            /\ Claims(pc[u], tx[u])' \intersect Claims(pc[v], tx[v])' = {}
            /\ Marks(pc[u], tx[u])' \intersect Marks(pc[v], tx[v])' = {}
    BY <1>2 DEF Inv, SurfaceDiscipline, Unclaimed
  <1> QED BY <1>1, <1>4, <1>5 DEF Inv, SurfaceDiscipline

\* The answer of a handler that is done.
LEMMA RespondFacts ==
  ASSUME Inv, NEW s \in Sessions, NEW code \in Codes, Respond(s, code)
  PROVE  /\ pc' = [pc EXCEPT ![s] = "idle"] /\ tx' = [tx EXCEPT ![s] = NoCall]
         /\ answer' \in Answers
         /\ answer'.session = s /\ answer'.code = code
         /\ answer'.status = http_status(code)
  BY StatusOfCode DEF Respond, Answers

LEMMA ReturnKeeps ==
  ASSUME Inv, NEW s \in Sessions, NEW code \in Codes, Return(s, code)
  PROVE  Inv'
  <1>1. "idle" \in PCs /\ Knows("idle", NoCall)
    BY NoCallFacts DEF PCs
  <1>2. Unclaimed(s, "idle", NoCall)
    BY NoCallFacts DEF Unclaimed
  <1>3. /\ pc' = [pc EXCEPT ![s] = "idle"] /\ tx' = [tx EXCEPT ![s] = NoCall]
        /\ answer' \in Answers /\ UNCHANGED <<windows, decider, today, granter>>
    BY RespondFacts DEF Return
  <1>4. NoCall \in Locals
    BY NoCallFacts
  <1> QED BY <1>1, <1>2, <1>3, <1>4, QuietStep

LEMMA StepKeeps ==
  ASSUME Inv, NEW s \in Sessions, NEW label \in PCs, NEW c \in Locals, Step(s, label, c),
         Knows(label, c), Unclaimed(s, label, c)
  PROVE  Inv'
  <1>1. /\ pc' = [pc EXCEPT ![s] = label] /\ tx' = [tx EXCEPT ![s] = c]
        /\ UNCHANGED <<windows, decider, today, granter>>
    BY DEF Step
  <1>2. answer' \in Answers \union {NoAnswer}
    BY DEF Step
  <1> QED BY <1>1, <1>2, QuietStep

\* A verb begins with a statement that claims nothing.
LEMMA BeginKeeps ==
  ASSUME Inv, NEW s \in Sessions, NEW label \in {"get", "select"},
         NEW c \in Locals, Step(s, label, c), Knows(label, c)
  PROVE  Inv'
  <1>1. label \in PCs /\ Claims(label, c) = {} /\ Marks(label, c) = {}
    BY DEF PCs, Knows, RunsAt, Claims, Marks
  <1>2. Unclaimed(s, label, c)
    BY <1>1 DEF Unclaimed
  <1> QED BY <1>1, <1>2, StepKeeps

\* What the locals of a transaction that begins hold.
LEMMA BegunFacts ==
  ASSUME Inv, NEW verb \in {"create", "revoke", "decide", "read"},
         NEW user \in Users \union {NoUser}, user = NoUser => verb = "read",
         NEW tenant \in Tenants \union {NoTenant}
  PROVE  /\ Begun(verb, user, tenant) \in Locals
         /\ Begun(verb, user, tenant).verb = verb
         /\ Begun(verb, user, tenant).home = rpool(verb, tenant)
         /\ Begun(verb, user, tenant).tenant = tenant
         /\ Begun(verb, user, tenant).user = user
         /\ user # NoUser => Begun(verb, user, tenant).actor = EmployeeOf[user]
         /\ \A w \in Begun(verb, user, tenant).gone : windows[w].status = "revoked"
  <1> DEFINE c == Begun(verb, user, tenant)
  <1>1. c.actor \in Employees \union {Nobody}
    BY SurfaceAssumption DEF Begun, ActorOf
  <1>2. c.gone \subseteq Windows
    BY DEF Begun
  <1>3. c \in Locals
    BY <1>1, <1>2, PoolType DEF Begun, Locals, Inv, TypeOK
  <1> QED BY <1>3 DEF Begun, ActorOf

LEMMA CreateKeeps ==
  ASSUME Inv, NEW s \in Sessions, NEW user \in Users,
         NEW tenant \in Tenants \union {NoTenant},
         NEW delegate \in Employees, NEW period \in Periods,
         CreateDelegation(s, user, tenant, delegate, period)
  PROVE  Inv'
  <1> DEFINE approver == ActorOf(user)
             fault == CreationFault(approver, delegate, period[1], period[2])
             row == [home |-> rpool("create", tenant), approver_id |-> approver,
                     delegate_to_id |-> delegate, valid_from |-> period[1],
                     valid_to |-> period[2], status |-> "active"]
             begun == Begun("create", user, tenant)
             locals(w) == [begun EXCEPT !.window = w, !.row = row]
  <1>1. approver \in Employees \union {Nobody}
    BY SurfaceAssumption DEF ActorOf
  <1>2. fault \in {"none", "self_delegation_refused", "delegation_window_invalid"}
    BY DEF CreationFault
  <1>3. \/ Return(s, "not_delegation_approver")
        \/ fault # "none" /\ Return(s, fault)
        \/ /\ approver # Nobody /\ fault = "none"
           /\ \E w \in Fresh : Step(s, "insert", locals(w))
    BY DEF CreateDelegation
  <1>4. CASE Return(s, "not_delegation_approver")
    BY <1>4, ReturnKeeps DEF Codes
  <1>5. CASE fault # "none" /\ Return(s, fault)
    <2>1. fault \in Codes
      BY <1>2, <1>5 DEF Codes
    <2> QED BY <2>1, <1>5, ReturnKeeps
  <1>6. CASE /\ approver # Nobody /\ fault = "none"
             /\ \E w \in Fresh : Step(s, "insert", locals(w))
    <2>1. PICK w \in Fresh : Step(s, "insert", locals(w))
      BY <1>6
    <2>2. /\ w \in Windows /\ windows[w] = NotThere
          /\ \A u \in Sessions : tx[u].verb = "create" => tx[u].window # w
      BY DEF Fresh
    <2>3. row \in Window
      <3>1. /\ approver # delegate /\ ~ (period[2] < period[1])
            /\ period[1] \in Days /\ period[2] \in Days /\ approver \in Employees
        BY <1>1, <1>6, SurfaceAssumption DEF CreationFault
      <3>2. period[1] \in Nat /\ period[2] \in Nat /\ rpool("create", tenant) \in Databases
        BY <3>1, PoolType, SurfaceAssumption
      <3> QED BY <3>1, <3>2 DEF Window, WindowOf
    <2>4. /\ begun \in Locals /\ begun.verb = "create" /\ begun.user = user
          /\ begun.home = rpool("create", tenant) /\ begun.tenant = tenant
          /\ begun.actor = approver /\ \A v \in begun.gone : windows[v].status = "revoked"
      BY SurfaceAssumption, BegunFacts DEF ActorOf
    <2> DEFINE c == locals(w)
    <2>5. c \in Locals
      BY <2>2, <2>3, <2>4 DEF Locals
    <2>6. /\ c.verb = "create" /\ c.window = w /\ c.row = row /\ c.user = user
          /\ c.home = rpool("create", tenant) /\ c.tenant = tenant /\ c.actor = approver
          /\ \A v \in c.gone : windows[v].status = "revoked"
      BY <2>4 DEF Locals
    <2>7. /\ row.home = rpool("create", tenant) /\ row.approver_id = approver
          /\ row.status = "active"
      OBVIOUS
    <2>8. approver = EmployeeOf[user]
      BY DEF ActorOf
    <2> HIDE DEF row, begun, locals, fault, approver, c
    <2>9. Knows("insert", c)
      BY <2>2, <2>3, <2>6, <2>7, <2>8 DEF Knows, RunsAt
    <2>10. /\ Claims("insert", c) = {w} /\ Marks("insert", c) = {}
           /\ \A u \in Sessions : w \notin Claims(pc[u], tx[u])
      <3>1. ASSUME NEW u \in Sessions PROVE w \notin Claims(pc[u], tx[u])
        <4>1. Knows(pc[u], tx[u])
          BY DEF Inv, SurfaceDiscipline
        <4>2. CASE tx[u].verb = "create"
          BY <2>2, <4>2 DEF Claims
        <4>3. CASE tx[u].verb = "revoke" /\ pc[u] = "commit"
          BY <2>2, <4>1, <4>3 DEF Claims, Knows
        <4> QED BY <4>2, <4>3 DEF Claims
      <3> QED BY <2>6, <3>1 DEF Claims, Marks
    <2>11. Unclaimed(s, "insert", c)
      BY <2>10 DEF Unclaimed
    <2>12. Step(s, "insert", c)
      BY <2>1 DEF c
    <2> QED BY <2>5, <2>9, <2>11, <2>12, StepKeeps DEF PCs
  <1> QED BY <1>3, <1>4, <1>5, <1>6

LEMMA CallKeeps ==
  ASSUME Inv, NEW s \in Sessions, Call(s)
  PROVE  Inv'
  <1>1. NoUser \notin Users
    BY SurfaceAssumption
  <1>2. PICK tenant \in Tenants \union {NoTenant} :
        \/ \E user \in Users, delegate \in Employees, period \in Periods :
                CreateDelegation(s, user, tenant, delegate, period)
        \/ \E user \in Users, w \in Windows : RevokeDelegation(s, user, tenant, w)
        \/ \E user \in Users, decision \in {"approve", "other"}, r \in Requests :
                Decide(s, user, tenant, decision, r)
        \/ \E r \in Requests : GetRequest(s, tenant, r)
    BY DEF Call
  <1>3. ASSUME NEW user \in Users, NEW w \in Windows, RevokeDelegation(s, user, tenant, w)
        PROVE  Inv'
    <2> DEFINE begun == Begun("revoke", user, tenant)
               c == [begun EXCEPT !.window = w]
    <2>1. CASE Return(s, "not_delegation_approver")
      BY <2>1, ReturnKeeps DEF Codes
    <2>2. CASE Step(s, "get", c)
      <3>1. /\ begun \in Locals /\ begun.verb = "revoke" /\ begun.user = user
            /\ begun.home = rpool("revoke", tenant) /\ begun.tenant = tenant
            /\ begun.actor = EmployeeOf[user]
            /\ \A v \in begun.gone : windows[v].status = "revoked"
        BY <1>1, BegunFacts
      <3> HIDE DEF begun
      <3>2. /\ c \in Locals /\ c.verb = "revoke" /\ c.user = user /\ c.window = w
            /\ c.home = rpool("revoke", tenant) /\ c.tenant = tenant
            /\ c.actor = EmployeeOf[user]
            /\ \A v \in c.gone : windows[v].status = "revoked"
        BY <3>1 DEF Locals
      <3> HIDE DEF c
      <3>3. Knows("get", c)
        BY <3>2 DEF Knows, RunsAt
      <3> QED BY <2>2, <3>2, <3>3, BeginKeeps
    <2> QED BY <1>3, <2>1, <2>2 DEF RevokeDelegation
  <1>4. ASSUME NEW user \in Users, NEW decision, NEW r \in Requests,
               Decide(s, user, tenant, decision, r)
        PROVE  Inv'
    <2> DEFINE begun == Begun("decide", user, tenant)
               c == [begun EXCEPT !.request = r]
    <2>1. CASE Return(s, "not_step_approver") \/ Return(s, "invalid_decision")
      BY <2>1, ReturnKeeps DEF Codes
    <2>2. CASE Step(s, "select", c)
      <3>1. /\ begun \in Locals /\ begun.verb = "decide" /\ begun.user = user
            /\ begun.home = rpool("decide", tenant) /\ begun.tenant = tenant
            /\ begun.actor = EmployeeOf[user]
            /\ \A v \in begun.gone : windows[v].status = "revoked"
        BY <1>1, BegunFacts
      <3> HIDE DEF begun
      <3>2. /\ c \in Locals /\ c.verb = "decide" /\ c.user = user /\ c.request = r
            /\ c.home = rpool("decide", tenant) /\ c.tenant = tenant
            /\ c.actor = EmployeeOf[user]
            /\ \A v \in c.gone : windows[v].status = "revoked"
        BY <3>1 DEF Locals
      <3> HIDE DEF c
      <3>3. Knows("select", c)
        BY <3>2 DEF Knows, RunsAt
      <3> QED BY <2>2, <3>2, <3>3, BeginKeeps
    <2> QED BY <1>4, <2>1, <2>2 DEF Decide
  <1>5. ASSUME NEW r \in Requests, GetRequest(s, tenant, r)
        PROVE  Inv'
    <2> DEFINE begun == Begun("read", NoUser, tenant)
               c == [begun EXCEPT !.request = r]
    <2>1. /\ begun \in Locals /\ begun.verb = "read"
          /\ begun.home = rpool("read", tenant) /\ begun.tenant = tenant
          /\ \A v \in begun.gone : windows[v].status = "revoked"
      BY BegunFacts
    <2>2. Step(s, "select", c)
      BY <1>5 DEF GetRequest
    <2> HIDE DEF begun
    <2>3. /\ c \in Locals /\ c.verb = "read" /\ c.request = r
          /\ c.home = rpool("read", tenant) /\ c.tenant = tenant
          /\ \A v \in c.gone : windows[v].status = "revoked"
      BY <2>1 DEF Locals
    <2> HIDE DEF c
    <2>4. Knows("select", c)
      BY <2>3 DEF Knows, RunsAt
    <2> QED BY <2>2, <2>3, <2>4, BeginKeeps
  <1> QED BY <1>2, <1>3, <1>4, <1>5, CreateKeeps

\* A handler that moves on with the locals it has.
LEMMA GoOnKeeps ==
  ASSUME Inv, NEW s \in Sessions, NEW label \in PCs, Step(s, label, tx[s]),
         Knows(label, tx[s]), Unclaimed(s, label, tx[s])
  PROVE  Inv'
  BY StepKeeps DEF Inv, TypeOK

LEMMA InsertKeeps ==
  ASSUME Inv, NEW s \in Sessions, InsertDelegation(s)
  PROVE  Inv'
  <1>1. pc[s] = "insert" /\ Step(s, "commit", tx[s]) /\ Knows("insert", tx[s])
    BY DEF InsertDelegation, Inv, SurfaceDiscipline
  <1>2. /\ Knows("commit", tx[s]) /\ Claims("commit", tx[s]) = Claims("insert", tx[s])
        /\ Marks("commit", tx[s]) = {}
    BY <1>1 DEF Knows, RunsAt, Claims, Marks
  <1>3. "commit" \in PCs
    BY DEF PCs
  <1>4. Unclaimed(s, "commit", tx[s])
    BY <1>1, <1>2 DEF Inv, SurfaceDiscipline, Unclaimed
  <1> QED BY <1>1, <1>2, <1>3, <1>4, GoOnKeeps

LEMMA GetKeeps ==
  ASSUME Inv, NEW s \in Sessions, GetDelegation(s)
  PROVE  Inv'
  <1>1. pc[s] = "get" /\ Knows("get", tx[s])
    BY DEF GetDelegation, Inv, SurfaceDiscipline
  <1>2. CASE Return(s, "approval_request_not_found") \/ Return(s, "not_delegation_approver")
    BY <1>2, ReturnKeeps DEF Codes
  <1>3. CASE /\ Known(s) /\ windows[tx[s].window].approver_id = tx[s].actor
             /\ Step(s, "update", tx[s])
    <2>1. /\ Knows("update", tx[s]) /\ Claims("update", tx[s]) = {}
          /\ Marks("update", tx[s]) = {} /\ Unclaimed(s, "update", tx[s])
      BY <1>1, <1>3 DEF Knows, RunsAt, Claims, Marks, Known, Unclaimed
    <2>2. "update" \in PCs
      BY DEF PCs
    <2> QED BY <1>3, <2>1, <2>2, GoOnKeeps
  <1> QED BY <1>2, <1>3 DEF GetDelegation

\* The UPDATE takes its row: nobody has it, and nobody is about to create it.
LEMMA RevokeKeeps ==
  ASSUME Inv, NEW s \in Sessions, Revoke(s)
  PROVE  Inv'
  <1>1. /\ pc[s] = "update" /\ Knows("update", tx[s]) /\ Step(s, "commit", tx[s])
        /\ windows[tx[s].window].status = "active" /\ LockedBy(tx[s].window) = {}
    BY DEF Revoke, Inv, SurfaceDiscipline
  <1>2. /\ Knows("commit", tx[s]) /\ Claims("commit", tx[s]) = {tx[s].window}
        /\ Marks("commit", tx[s]) = {}
    BY <1>1 DEF Knows, RunsAt, Claims, Marks
  <1>3. ASSUME NEW u \in Sessions, u # s
        PROVE  tx[s].window \notin Claims(pc[u], tx[u])
    <2>1. Knows(pc[u], tx[u])
      BY DEF Inv, SurfaceDiscipline
    <2>2. CASE tx[u].verb = "create"
      BY <1>1, <2>1, <2>2 DEF Knows, RunsAt, Claims
    <2>3. CASE tx[u].verb = "revoke" /\ pc[u] = "commit"
      BY <1>1, <2>3 DEF LockedBy, Claims
    <2> QED BY <2>2, <2>3 DEF Claims
  <1>4. "commit" \in PCs
    BY DEF PCs
  <1>5. Unclaimed(s, "commit", tx[s])
    BY <1>2, <1>3 DEF Unclaimed
  <1> QED BY <1>1, <1>2, <1>4, <1>5, GoOnKeeps

\* A handler that neither claims a window nor marks a row at its next statement.
LEMMA HarmlessKeeps ==
  ASSUME Inv, NEW s \in Sessions, NEW label \in PCs, Step(s, label, tx[s]),
         Knows(label, tx[s]), Claims(label, tx[s]) = {}, Marks(label, tx[s]) = {}
  PROVE  Inv'
  <1>1. Unclaimed(s, label, tx[s])
    BY DEF Unclaimed
  <1> QED BY <1>1, GoOnKeeps

LEMMA SelectKeeps ==
  ASSUME Inv, NEW s \in Sessions, SelectRequest(s)
  PROVE  Inv'
  <1>1. pc[s] = "select" /\ Knows("select", tx[s])
    BY DEF SelectRequest, Inv, SurfaceDiscipline
  <1>2. CASE \/ Return(s, "approval_request_not_found") \/ Return(s, "found")
             \/ Return(s, "not_pending")
    BY <1>2, ReturnKeeps DEF Codes
  <1>3. CASE /\ tx[s].request \in RequestsOf[tx[s].home] /\ tx[s].verb = "decide"
             /\ Step(s, "check", tx[s])
    <2>1. /\ Knows("check", tx[s]) /\ Claims("check", tx[s]) = {}
          /\ Marks("check", tx[s]) = {}
      BY <1>1, <1>3 DEF Knows, RunsAt, Claims, Marks
    <2> QED BY <1>3, <2>1, HarmlessKeeps DEF PCs
  <1> QED BY <1>2, <1>3 DEF SelectRequest

\* A window the check has found: active, and so not one that was revoked before.
LEMMA LendingLends ==
  ASSUME Inv, NEW s \in Sessions, NEW w \in Lending(s)
  PROVE  LentTo(w, tx[s], ApproverOf[tx[s].request])
  <1>1. /\ w \in Windows
        /\ Lends(windows[w], tx[s].home, ApproverOf[tx[s].request], tx[s].actor, tx[s].began)
    BY DEF Lending
  <1>2. \A v \in tx[s].gone : windows[v].status = "revoked"
    BY DEF Inv, SurfaceDiscipline, Knows
  <1> QED BY <1>1, <1>2 DEF Lends, LentTo, NotThere

LEMMA CheckKeeps ==
  ASSUME Inv, NEW s \in Sessions, CheckDelegation(s)
  PROVE  Inv'
  <1>1. pc[s] = "check" /\ Knows("check", tx[s])
    BY DEF CheckDelegation, Inv, SurfaceDiscipline
  <1>2. CASE Return(s, "not_step_approver")
    BY <1>2, ReturnKeeps DEF Codes
  <1>3. CASE /\ ApproverOf[tx[s].request] = tx[s].actor \/ Lending(s) # {}
             /\ Step(s, "mark", tx[s])
    <2>1. \/ tx[s].actor = ApproverOf[tx[s].request]
          \/ \E w \in Windows : LentTo(w, tx[s], ApproverOf[tx[s].request])
      BY <1>3, LendingLends DEF Lending
    <2>2. tx[s].verb = "decide"
      BY <1>1 DEF Knows, RunsAt
    <2>3. /\ Knows("mark", tx[s]) /\ Claims("mark", tx[s]) = {}
          /\ Marks("mark", tx[s]) = {}
      BY <1>1, <2>1, <2>2 DEF Knows, RunsAt, Claims, Marks
    <2> QED BY <1>3, <2>3, HarmlessKeeps DEF PCs
  <1> QED BY <1>2, <1>3 DEF CheckDelegation

\* Who decides is an employee: the approver, or the delegate of a window.
LEMMA DeciderIsEmployee ==
  ASSUME Inv, NEW c \in Locals, Knows("mark", c), c.verb = "decide"
  PROVE  c.actor \in Employees
  <1>1. c.request \in Requests
    BY DEF Knows
  <1>2. CASE c.actor = ApproverOf[c.request]
    BY <1>1, <1>2, SurfaceAssumption
  <1>3. ASSUME NEW w \in Windows, LentTo(w, c, ApproverOf[c.request])
        PROVE  c.actor \in Employees
    <2>1. windows[w] \in Window /\ windows[w].delegate_to_id = c.actor
      BY <1>3 DEF LentTo, Inv, TypeOK
    <2> QED BY <2>1, WindowFacts
  <1> QED BY <1>2, <1>3 DEF Knows

\* The UPDATE of a decision takes its row: nobody else has marked it.
LEMMA MarkKeeps ==
  ASSUME Inv, NEW s \in Sessions, MarkDecided(s)
  PROVE  Inv'
  <1>1. /\ pc[s] = "mark" /\ Knows("mark", tx[s]) /\ MarkedBy(tx[s].request) = {}
        /\ tx[s] \in Locals
    BY DEF MarkDecided, Inv, TypeOK, SurfaceDiscipline
  <1>2. CASE Return(s, "decided")
    BY <1>2, ReturnKeeps DEF Codes
  <1>3. CASE decider[tx[s].request] = Nobody /\ Step(s, "commit", tx[s])
    <2>1. tx[s].verb = "decide"
      BY <1>1 DEF Knows, RunsAt
    <2>2. tx[s].actor \in Employees
      BY <1>1, <2>1, DeciderIsEmployee
    <2>3. /\ Knows("commit", tx[s]) /\ Claims("commit", tx[s]) = {}
          /\ Marks("commit", tx[s]) = {tx[s].request}
      BY <1>1, <1>3, <2>1, <2>2 DEF Knows, RunsAt, Claims, Marks
    <2>4. \A u \in Sessions : tx[s].request \notin Marks(pc[u], tx[u])
      BY <1>1 DEF MarkedBy, Marks
    <2>5. Unclaimed(s, "commit", tx[s])
      BY <2>3, <2>4 DEF Unclaimed
    <2> QED BY <1>3, <2>3, <2>5, GoOnKeeps DEF PCs
  <1> QED BY <1>2, <1>3 DEF MarkDecided

\* What the commit of a create or a revocation writes.
LEMMA CommitFacts ==
  ASSUME Inv, NEW s \in Sessions, Commit(s)
  PROVE  /\ pc[s] = "commit" /\ tx[s].verb \in {"create", "revoke"}
         /\ tx[s].window \in Windows /\ Committed(s) \in Window
         /\ Committed(s).home = tx[s].home /\ Committed(s).approver_id = tx[s].actor
         /\ tx[s].user \in Users /\ EmployeeOf[tx[s].user] = tx[s].actor
         /\ \A w \in Windows : windows'[w] = IF w = tx[s].window THEN Committed(s)
                                             ELSE windows[w]
         /\ \A w \in Windows :
                granter'[w] = IF w = tx[s].window /\ tx[s].verb = "create"
                              THEN tx[s].user ELSE granter[w]
         /\ tx[s].verb = "create" =>
                windows[tx[s].window] = NotThere /\ Committed(s).status = "active"
         /\ tx[s].verb = "revoke" =>
                /\ windows[tx[s].window] \in Window
                /\ windows[tx[s].window].status = "active"
                /\ windows[tx[s].window].approver_id = tx[s].actor
                /\ Committed(s) = [windows[tx[s].window] EXCEPT !.status = "revoked"]
                /\ Committed(s).status = "revoked"
  <1> DEFINE old == windows[tx[s].window]
             revoked == [old EXCEPT !.status = "revoked"]
  <1>1. pc[s] = "commit" /\ Knows("commit", tx[s])
    BY DEF Commit, Inv, SurfaceDiscipline
  <1>2. tx[s].verb \in {"create", "revoke"} /\ tx[s].window \in Windows
    BY <1>1 DEF Knows, Commit
  <1>3. /\ \A w \in Windows : windows'[w] = IF w = tx[s].window THEN Committed(s)
                                            ELSE windows[w]
        /\ \A w \in Windows :
                granter'[w] = IF w = tx[s].window /\ tx[s].verb = "create"
                              THEN tx[s].user ELSE granter[w]
        /\ tx[s].user \in Users /\ EmployeeOf[tx[s].user] = tx[s].actor
    BY <1>1, <1>2 DEF Commit, Knows, Inv, TypeOK
  <1>4. CASE tx[s].verb = "create"
    BY <1>1, <1>2, <1>3, <1>4 DEF Committed, Knows
  <1>5. CASE tx[s].verb = "revoke"
    <2>1. /\ old \in Window /\ old.status = "active"
          /\ old.home = tx[s].home /\ old.approver_id = tx[s].actor
      BY <1>1, <1>2, <1>5 DEF Knows, Inv, TypeOK
    <2>2. /\ revoked \in Window /\ revoked.status = "revoked"
          /\ revoked.home = old.home /\ revoked.approver_id = old.approver_id
      BY <2>1 DEF Window, WindowOf
    <2>3. Committed(s) = revoked
      BY <1>5 DEF Committed
    <2> HIDE DEF revoked
    <2> QED BY <1>1, <1>2, <1>3, <1>5, <2>1, <2>2, <2>3 DEF revoked
  <1> QED BY <1>2, <1>4, <1>5

\* A window in the table keeps its terms, and stays revoked once it is.
LEMMA TermsStay ==
  ASSUME Inv, NEW s \in Sessions, Commit(s), NEW w \in Windows, windows[w] # NotThere
  PROVE  /\ windows'[w] # NotThere
         /\ windows'[w].home = windows[w].home
         /\ windows'[w].approver_id = windows[w].approver_id
         /\ windows'[w].delegate_to_id = windows[w].delegate_to_id
         /\ windows'[w].valid_from = windows[w].valid_from
         /\ windows'[w].valid_to = windows[w].valid_to
         /\ granter'[w] = granter[w]
         /\ w # tx[s].window => windows'[w] = windows[w]
  <1>1. CASE w # tx[s].window
    BY <1>1, CommitFacts
  <1>2. CASE w = tx[s].window
    <2> DEFINE old == windows[tx[s].window]
               revoked == [old EXCEPT !.status = "revoked"]
    <2>1. /\ tx[s].verb = "revoke" /\ old \in Window /\ Committed(s) = revoked
          /\ Committed(s) \in Window /\ windows'[w] = Committed(s)
          /\ granter'[w] = granter[w]
      BY <1>2, CommitFacts
    <2>2. /\ revoked.home = old.home /\ revoked.approver_id = old.approver_id
          /\ revoked.delegate_to_id = old.delegate_to_id
          /\ revoked.valid_from = old.valid_from /\ revoked.valid_to = old.valid_to
      BY <2>1 DEF Window, WindowOf
    <2>3. windows'[w] # NotThere
      BY <2>1, WindowFacts
    <2> QED BY <1>2, <2>1, <2>2, <2>3
  <1> QED BY <1>1, <1>2

\* Windows stay revoked, whoever commits.
LEMMA RevokedStays ==
  ASSUME Inv, NEW s \in Sessions, Commit(s), NEW w, windows[w].status = "revoked",
         w \in Windows
  PROVE  windows'[w].status = "revoked"
  <1>1. w # tx[s].window
    BY CommitFacts DEF NotThere
  <1> QED BY <1>1, CommitFacts

\* What another handler knows, in parts: of the window it writes, ...
KnowsWindow(label, c) ==
    /\ c.verb = "create" =>
            /\ windows[c.window] = NotThere
            /\ c.row \in Window
            /\ c.row.home = c.home /\ c.row.approver_id = c.actor
            /\ c.row.status = "active"
    /\ c.verb = "revoke" /\ label # "get" =>
            /\ windows[c.window] # NotThere
            /\ windows[c.window].home = c.home
            /\ windows[c.window].approver_id = c.actor
    /\ c.verb = "revoke" /\ label = "commit" => windows[c.window].status = "active"

\* ... of the windows it decides through, ...
KnowsLent(label, c) ==
    /\ \A w \in c.gone : windows[w].status = "revoked"
    /\ label \in {"mark", "commit"} /\ c.verb = "decide" =>
            \/ c.actor = ApproverOf[c.request]
            \/ \E w \in Windows : LentTo(w, c, ApproverOf[c.request])

\* ... of the request it decides, ...
KnowsRequest(label, c) ==
    label = "commit" /\ c.verb = "decide" =>
        c.actor \in Employees /\ decider[c.request] = Nobody

\* ... and what it has from its own beginning.
KnowsSelf(label, c) ==
    /\ RunsAt(label, c.verb)
    /\ c.home = rpool(c.verb, c.tenant)
    /\ c.verb \in {"create", "revoke", "decide"} =>
            c.user \in Users /\ c.actor = EmployeeOf[c.user]
    /\ c.verb \in {"create", "revoke"} => c.window \in Windows
    /\ c.verb \in {"decide", "read"} => c.request \in Requests
    /\ label \in {"check", "mark", "commit"} /\ c.verb = "decide" =>
            c.request \in RequestsOf[c.home]

LEMMA KnowsParts ==
  ASSUME NEW label, NEW c
  PROVE  Knows(label, c) <=>
            /\ KnowsSelf(label, c) /\ KnowsWindow(label, c)
            /\ KnowsLent(label, c) /\ KnowsRequest(label, c)
  BY DEF Knows, KnowsSelf, KnowsWindow, KnowsLent, KnowsRequest

\* The commit of s leaves another handler's window as it knows it: they claim different
\* windows, and a revocation changes neither home nor approver.
LEMMA WindowStaysKnown ==
  ASSUME Inv, NEW s \in Sessions, Commit(s), NEW u \in Sessions, u # s,
         pc'[u] = pc[u], tx'[u] = tx[u]
  PROVE  KnowsWindow(pc[u], tx[u])'
  <1>1. /\ Knows(pc[u], tx[u]) /\ Claims(pc[s], tx[s]) = {tx[s].window}
        /\ Claims(pc[s], tx[s]) \intersect Claims(pc[u], tx[u]) = {}
    BY CommitFacts DEF Inv, SurfaceDiscipline, Claims
  <1>2. CASE tx[u].verb = "create"
    <2>1. tx[u].window \in Windows /\ tx[u].window # tx[s].window
      BY <1>1, <1>2 DEF Claims, Knows
    <2>2. windows'[tx[u].window] = windows[tx[u].window]
      BY <2>1, CommitFacts
    <2> QED BY <1>1, <1>2, <2>2 DEF Knows, KnowsWindow
  <1>3. CASE tx[u].verb = "revoke"
    <2>1. /\ tx[u].window \in Windows
          /\ pc[u] = "commit" => tx[u].window # tx[s].window
      BY <1>1, <1>3 DEF Claims, Knows
    <2>2. CASE pc[u] = "get"
      BY <1>3, <2>2 DEF KnowsWindow
    <2>3. CASE pc[u] # "get"
      <3>1. windows[tx[u].window] # NotThere
        BY <1>1, <1>3, <2>3 DEF Knows
      <3> QED BY <1>1, <1>3, <2>1, <2>3, <3>1, TermsStay DEF Knows, KnowsWindow
    <2> QED BY <2>2, <2>3
  <1> QED BY <1>2, <1>3 DEF KnowsWindow

LEMMA LentStaysKnown ==
  ASSUME Inv, NEW s \in Sessions, Commit(s), NEW u \in Sessions,
         pc'[u] = pc[u], tx'[u] = tx[u]
  PROVE  KnowsLent(pc[u], tx[u])'
  <1>1. KnowsLent(pc[u], tx[u]) /\ tx[u] \in Locals
    BY KnowsParts DEF Inv, TypeOK, SurfaceDiscipline
  <1>2. \A w \in tx[u].gone : w \in Windows /\ windows[w].status = "revoked"
    BY <1>1 DEF KnowsLent, Locals
  <1>3. \A w \in tx[u].gone : windows'[w].status = "revoked"
    BY <1>2, RevokedStays
  <1>4. ASSUME NEW w \in Windows, LentTo(w, tx[u], ApproverOf[tx[u].request])
        PROVE  LentTo(w, tx[u], ApproverOf[tx[u].request])'
    BY <1>4, TermsStay DEF LentTo
  <1> QED BY <1>1, <1>3, <1>4 DEF KnowsLent

\* The windows a commit leaves in the table were all created by their approvers' tokens.
LEMMA CommitGrants ==
  ASSUME Inv, NEW s \in Sessions, Commit(s)
  PROVE  Granted'
  <1> SUFFICES ASSUME NEW w \in Windows, windows'[w] # NotThere
               PROVE  /\ granter'[w] \in Users
                      /\ EmployeeOf[granter'[w]] = windows'[w].approver_id
    BY DEF Granted
  <1>1. CASE windows[w] # NotThere
    BY <1>1, TermsStay DEF Inv, SurfaceDiscipline
  <1>2. CASE windows[w] = NotThere
    <2>1. w = tx[s].window
      BY <1>2, CommitFacts
    <2>2. tx[s].verb = "create"
      BY <1>2, <2>1, CommitFacts, WindowFacts
    <2> QED BY <2>1, <2>2, CommitFacts
  <1> QED BY <1>1, <1>2

\* A step that ends one handler and leaves the others where they were.
LEMMA LeavingKeeps ==
  ASSUME Inv, NEW s \in Sessions,
         pc' = [pc EXCEPT ![s] = "idle"], tx' = [tx EXCEPT ![s] = NoCall],
         TypeOK', Granted', Knows("idle", NoCall)',
         \A u \in Sessions : u # s /\ pc'[u] = pc[u] /\ tx'[u] = tx[u]
            => Knows(pc[u], tx[u])'
  PROVE  Inv'
  <1>1. \A u \in Sessions : /\ pc'[u] = IF u = s THEN "idle" ELSE pc[u]
                            /\ tx'[u] = IF u = s THEN NoCall ELSE tx[u]
    BY DEF Inv, TypeOK
  <1>2. \A u \in Sessions : Knows(pc[u], tx[u])'
    <2>1. CASE \E u \in Sessions : u = s
      <3>1. Knows(pc[s], tx[s])'
        BY <1>1 DEF Knows
      <3> QED BY <1>1, <3>1
    <2> QED BY <2>1
  <1>3. \A u, v \in Sessions : u # v =>
            /\ Claims(pc[u], tx[u])' \intersect Claims(pc[v], tx[v])' = {}
            /\ Marks(pc[u], tx[u])' \intersect Marks(pc[v], tx[v])' = {}
    BY <1>1, NoCallFacts DEF Inv, SurfaceDiscipline, Claims, Marks
  <1> QED BY <1>2, <1>3 DEF Inv, SurfaceDiscipline, Granted

LEMMA NoCallKnows == Knows("idle", NoCall)'
  <1>1. NoCall.verb = "none" /\ NoCall.gone = {}
    BY DEF NoCall
  <1>2. NoCall.home = rpool(NoCall.verb, NoCall.tenant)
    BY NoCallFacts DEF Knows
  <1> QED BY <1>1, <1>2 DEF Knows, RunsAt

LEMMA CommitKeeps ==
  ASSUME Inv, NEW s \in Sessions, Commit(s)
  PROVE  Inv'
  <1>1. PICK code \in {"created", "revoked", "database_error"} :
          /\ Respond(s, code) /\ UNCHANGED <<decider, today>>
          /\ windows' = [windows EXCEPT ![tx[s].window] = Committed(s)]
          /\ granter' = [granter EXCEPT ![tx[s].window] =
                            IF tx[s].verb = "create" THEN tx[s].user ELSE @]
    BY DEF Commit
  <1>2. /\ pc' = [pc EXCEPT ![s] = "idle"] /\ tx' = [tx EXCEPT ![s] = NoCall]
        /\ answer' \in Answers
    BY <1>1, RespondFacts DEF Codes
  <1>3. TypeOK'
    BY <1>1, <1>2, CommitFacts, NoCallFacts DEF Inv, TypeOK, PCs
  <1>4. ASSUME NEW u \in Sessions, u # s, pc'[u] = pc[u], tx'[u] = tx[u]
        PROVE  Knows(pc[u], tx[u])'
    <2>1. /\ KnowsSelf(pc[u], tx[u]) /\ KnowsLent(pc[u], tx[u])
          /\ KnowsRequest(pc[u], tx[u]) /\ tx[u] \in Locals
      BY KnowsParts DEF Inv, TypeOK, SurfaceDiscipline
    <2>2. KnowsSelf(pc[u], tx[u])' /\ KnowsRequest(pc[u], tx[u])'
      BY <1>1, <1>4, <2>1 DEF KnowsSelf, KnowsRequest
    <2>3. KnowsWindow(pc[u], tx[u])'
      BY <1>4, WindowStaysKnown
    <2>4. KnowsLent(pc[u], tx[u])'
      BY <1>4, LentStaysKnown
    <2> QED BY <2>2, <2>3, <2>4 DEF Knows, KnowsSelf, KnowsWindow, KnowsLent, KnowsRequest
  <1>5. \A u \in Sessions : u # s /\ pc'[u] = pc[u] /\ tx'[u] = tx[u]
            => Knows(pc[u], tx[u])'
    BY <1>4
  <1>6. Granted'
    BY CommitGrants
  <1> QED BY <1>2, <1>3, <1>5, <1>6, NoCallKnows, LeavingKeeps

\* The commit of a decision: only its request's row is another, and nobody else has
\* marked that one.
LEMMA DecisionKeeps ==
  ASSUME Inv, NEW s \in Sessions, CommitDecision(s)
  PROVE  Inv'
  <1>1. PICK code \in {"decided", "database_error"} :
          /\ Respond(s, code) /\ UNCHANGED <<windows, today, granter>>
          /\ decider' = [decider EXCEPT ![tx[s].request] = tx[s].actor]
    BY DEF CommitDecision
  <1>2. /\ pc' = [pc EXCEPT ![s] = "idle"] /\ tx' = [tx EXCEPT ![s] = NoCall]
        /\ answer' \in Answers
    BY <1>1, RespondFacts DEF Codes
  <1>3. /\ pc[s] = "commit" /\ tx[s].verb = "decide" /\ Knows("commit", tx[s])
        /\ tx[s].request \in Requests /\ tx[s].actor \in Employees
    BY DEF CommitDecision, Inv, SurfaceDiscipline, Knows
  <1>4. TypeOK'
    BY <1>1, <1>2, <1>3, NoCallFacts DEF Inv, TypeOK, PCs
  <1>5. ASSUME NEW u \in Sessions, u # s, pc'[u] = pc[u], tx'[u] = tx[u]
        PROVE  Knows(pc[u], tx[u])'
    <2>1. /\ Knows(pc[u], tx[u])
          /\ Marks(pc[s], tx[s]) \intersect Marks(pc[u], tx[u]) = {}
      BY <1>5 DEF Inv, SurfaceDiscipline
    <2>2. ASSUME pc[u] = "commit", tx[u].verb = "decide"
          PROVE  decider'[tx[u].request] = decider[tx[u].request]
      <3>1. tx[u].request # tx[s].request /\ tx[u].request \in Requests
        BY <1>3, <2>1, <2>2 DEF Marks, Knows
      <3> QED BY <1>1, <3>1 DEF Inv, TypeOK
    <2> QED BY <1>1, <1>5, <2>1, <2>2 DEF Knows, LentTo
  <1>6. Granted'
    BY <1>1 DEF Granted, Inv, SurfaceDiscipline
  <1> QED BY <1>2, <1>4, <1>5, <1>6, NoCallKnows, LeavingKeeps

LEMMA OtherStepsKeep ==
  ASSUME Inv, NEW s \in Sessions,
         RevokeLost(s) \/ ReasonTooLong(s) \/ Abort(s)
  PROVE  Inv'
  BY ReturnKeeps DEF RevokeLost, ReasonTooLong, Abort, Codes

LEMMA StepInv == Inv /\ [Next]_vars => Inv'
  <1> SUFFICES ASSUME Inv, [Next]_vars PROVE Inv'
    OBVIOUS
  <1>1. ASSUME NEW s \in Sessions, Call(s) \/ Proceed(s) \/ ReasonTooLong(s) \/ Abort(s)
        PROVE  Inv'
    BY <1>1, CallKeeps, InsertKeeps, GetKeeps, RevokeKeeps, CommitKeeps, SelectKeeps,
       CheckKeeps, MarkKeeps, DecisionKeeps, OtherStepsKeep
       DEF Proceed
  <1>2. ASSUME UNCHANGED <<windows, decider, pc, tx, granter>>, today' \in Days,
               answer' \in Answers \union {NoAnswer}
        PROVE  Inv'
    <2>1. \A l, d : Knows(l, d)' <=> Knows(l, d)
      BY <1>2 DEF Knows, LentTo
    <2> QED BY <1>2, <2>1 DEF Inv, TypeOK, SurfaceDiscipline, Claims, Marks
  <1>3. CASE Midnight
    BY <1>2, <1>3 DEF Midnight
  <1>4. CASE UNCHANGED vars
    BY <1>2, <1>4 DEF vars, Inv, TypeOK
  <1> QED BY <1>1, <1>3, <1>4 DEF Next

\* In every reachable state the table, the handlers' locals and the answers hold what
\* their types allow: no window from somebody to themselves, none that ends before it
\* starts.
THEOREM SurfaceTypeCorrect == Spec => []TypeOK
  <1>1. Inv => TypeOK
    BY DEF Inv
  <1> QED BY <1>1, InitInv, StepInv, PTL DEF Spec

\* What a handler has read of its window (get_delegation) is still so when it commits:
\* the row lock of revoke_delegation and the fresh id of insert_delegation are enough.
THEOREM SurfaceDisciplineHolds == Spec => []SurfaceDiscipline
  <1>1. Inv => SurfaceDiscipline
    BY DEF Inv
  <1> QED BY <1>1, InitInv, StepInv, PTL DEF Spec

-----------------------------------------------------------------------------
(* What the answers mean.                                                  *)

\* What a handler answers without having written: refusals, what a SELECT has found,
\* or the database's error.
Quiet(u, code) ==
    /\ Return(u, code)
    /\ code = "delegation_not_active" => RevokeLost(u)
    /\ code \in {"found", "not_pending"} => SelectRequest(u)
    /\ code = "decided" => MarkDecided(u)

LEMMA QuietAnswer ==
  ASSUME Inv, NEW u \in Sessions,
         Call(u) \/ Proceed(u) \/ ReasonTooLong(u) \/ Abort(u),
         ~ Commit(u), ~ CommitDecision(u)
  PROVE  /\ windows' = windows /\ decider' = decider
         /\ answer' = NoAnswer
            \/ \E code \in Codes \ {"created", "revoked"} : Quiet(u, code)
  <1>1. ASSUME NEW label, NEW c, Step(u, label, c)
        PROVE  windows' = windows /\ decider' = decider /\ answer' = NoAnswer
    BY <1>1 DEF Step
  <1>2. ASSUME NEW code, Return(u, code) PROVE windows' = windows /\ decider' = decider
    BY <1>2 DEF Return
  <1>3. CASE Call(u)
    <2>1. ASSUME NEW user \in Users, NEW tenant, NEW delegate, NEW period,
                 CreateDelegation(u, user, tenant, delegate, period)
          PROVE  \/ Return(u, "not_delegation_approver")
                 \/ Return(u, "self_delegation_refused")
                 \/ Return(u, "delegation_window_invalid")
                 \/ \E c : Step(u, "insert", c)
      BY <2>1 DEF CreateDelegation, CreationFault
    <2>2. ASSUME NEW user, NEW tenant, NEW w, RevokeDelegation(u, user, tenant, w)
          PROVE  Return(u, "not_delegation_approver") \/ \E c : Step(u, "get", c)
      BY <2>2 DEF RevokeDelegation
    <2>3. ASSUME NEW user, NEW tenant, NEW decision, NEW r,
                 Decide(u, user, tenant, decision, r)
          PROVE  \/ Return(u, "not_step_approver") \/ Return(u, "invalid_decision")
                 \/ \E c : Step(u, "select", c)
      BY <2>3 DEF Decide
    <2>4. ASSUME NEW tenant, NEW r, GetRequest(u, tenant, r)
          PROVE  \E c : Step(u, "select", c)
      BY <2>4 DEF GetRequest
    <2>5. \/ Return(u, "not_delegation_approver") \/ Return(u, "self_delegation_refused")
          \/ Return(u, "delegation_window_invalid") \/ Return(u, "not_step_approver")
          \/ Return(u, "invalid_decision") \/ \E label, c : Step(u, label, c)
      BY <1>3, <2>1, <2>2, <2>3, <2>4 DEF Call
    <2> QED BY <2>5, <1>1, <1>2 DEF Codes, Quiet
  <1>4. CASE InsertDelegation(u) \/ Revoke(u)
    BY <1>1, <1>4 DEF InsertDelegation, Revoke
  <1>5. CASE GetDelegation(u)
    BY <1>1, <1>2, <1>5 DEF GetDelegation, Codes, Quiet
  <1>6. CASE RevokeLost(u)
    <2>1. Return(u, "delegation_not_active")
      BY <1>6 DEF RevokeLost
    <2> QED BY <2>1, <1>2, <1>6 DEF Codes, Quiet
  <1>7. CASE CheckDelegation(u)
    <2>1. Return(u, "not_step_approver") \/ \E c : Step(u, "mark", c)
      BY <1>7 DEF CheckDelegation
    <2> QED BY <2>1, <1>1, <1>2 DEF Codes, Quiet
  <1>8. CASE SelectRequest(u)
    <2>1. \/ Return(u, "found") \/ Return(u, "approval_request_not_found")
          \/ Return(u, "not_pending") \/ \E c : Step(u, "check", c)
      BY <1>8 DEF SelectRequest
    <2> QED BY <2>1, <1>1, <1>2, <1>8 DEF Codes, Quiet
  <1>9. CASE MarkDecided(u)
    <2>1. Return(u, "decided") \/ \E c : Step(u, "commit", c)
      BY <1>9 DEF MarkDecided
    <2> QED BY <2>1, <1>1, <1>2, <1>9 DEF Codes, Quiet
  <1>10. CASE ReasonTooLong(u) \/ Abort(u)
    <2>1. Return(u, "database_error")
      BY <1>10 DEF ReasonTooLong, Abort
    <2> QED BY <2>1, <1>2 DEF Codes, Quiet
  <1> QED BY <1>3, <1>4, <1>5, <1>6, <1>7, <1>8, <1>9, <1>10 DEF Proceed

\* Whoever answers in a step has taken it.
LEMMA AnswerBy ==
  ASSUME Inv, Next, NEW s \in Sessions, answer'.session = s
  PROVE  \/ Commit(s)
         \/ CommitDecision(s)
         \/ /\ windows' = windows /\ decider' = decider
            /\ \E code \in Codes \ {"created", "revoked"} : Quiet(s, code)
  <1>1. answer' # NoAnswer
    BY SurfaceAssumption DEF NoAnswer
  <1>2. PICK u \in Sessions : Call(u) \/ Proceed(u) \/ ReasonTooLong(u) \/ Abort(u)
    BY <1>1 DEF Next, Midnight
  <1>3. CASE Commit(u) \/ CommitDecision(u)
    <2>1. \E code : Respond(u, code)
      BY <1>3 DEF Commit, CommitDecision
    <2>2. u = s
      BY <2>1 DEF Respond
    <2> QED BY <1>3, <2>2
  <1>4. CASE ~ Commit(u) /\ ~ CommitDecision(u)
    <2>1. /\ windows' = windows /\ decider' = decider
          /\ \E code \in Codes \ {"created", "revoked"} : Quiet(u, code)
      BY <1>1, <1>2, <1>4, QuietAnswer
    <2>2. u = s
      BY <2>1 DEF Quiet, Return, Respond
    <2> QED BY <2>1, <2>2
  <1> QED BY <1>3, <1>4

LEMMA CodeOf ==
  ASSUME NEW s, NEW code, Respond(s, code)
  PROVE  answer'.code = code /\ answer'.status = http_status(code)
  BY DEF Respond

\* Which step gives which answer.
LEMMA AnsweredBy ==
  ASSUME Inv, Next, NEW s \in Sessions
  PROVE  /\ Responds(s, "revoked") => Commit(s) /\ tx[s].verb = "revoke"
         /\ Responds(s, "created") => Commit(s) /\ tx[s].verb = "create"
         /\ Responds(s, "delegation_not_active") => RevokeLost(s)
         /\ Responds(s, "decided") => MarkDecided(s) \/ CommitDecision(s)
         /\ Responds(s, "found") => SelectRequest(s) /\ Return(s, "found")
         /\ Responds(s, "not_pending") => SelectRequest(s) /\ Return(s, "not_pending")
  <1>1. CASE answer'.session # s
    BY <1>1 DEF Responds
  <1>2. CASE Commit(s)
    <2>1. \/ Respond(s, IF tx[s].verb = "create" THEN "created" ELSE "revoked")
          \/ Respond(s, "database_error")
      BY <1>2 DEF Commit
    <2>2. \/ answer'.code = IF tx[s].verb = "create" THEN "created" ELSE "revoked"
          \/ answer'.code = "database_error"
      BY <2>1, CodeOf
    <2> QED BY <1>2, <2>2, CommitFacts DEF Responds
  <1>3. CASE CommitDecision(s)
    <2>1. Respond(s, "decided") \/ Respond(s, "database_error")
      BY <1>3 DEF CommitDecision
    <2>2. answer'.code \in {"decided", "database_error"}
      BY <2>1, CodeOf
    <2> QED BY <1>3, <2>2 DEF Responds
  <1>4. CASE \E code \in Codes \ {"created", "revoked"} : Quiet(s, code)
    <2>1. PICK code \in Codes \ {"created", "revoked"} : Quiet(s, code)
      BY <1>4
    <2>2. answer'.code = code
      BY <2>1, CodeOf DEF Quiet, Return
    <2> QED BY <2>1, <2>2 DEF Responds, Quiet
  <1> QED BY <1>1, <1>2, <1>3, <1>4, AnswerBy

\* A request is decided by the commit of a handler that has marked it.
LEMMA DecidedBy ==
  ASSUME Inv, [Next]_vars, NEW r \in Requests, decider'[r] # decider[r]
  PROVE  \E s \in Sessions : /\ CommitDecision(s) /\ tx[s].request = r
                             /\ Knows("commit", tx[s]) /\ decider'[r] = tx[s].actor
  <1>1. PICK s \in Sessions : CommitDecision(s)
    BY QuietAnswer DEF Next, Midnight, Commit, vars
  <1>2. /\ decider' = [decider EXCEPT ![tx[s].request] = tx[s].actor]
        /\ Knows("commit", tx[s])
    BY <1>1 DEF CommitDecision, Inv, SurfaceDiscipline
  <1>3. tx[s].request = r /\ decider'[r] = tx[s].actor
    BY <1>2 DEF Inv, TypeOK
  <1> QED BY <1>1, <1>2, <1>3

-----------------------------------------------------------------------------
(* The properties.                                                         *)

\* Of any number of revocations of one window that race or repeat, one succeeds, its
\* approver's: revoke_delegation's UPDATE finds the window active only once.
THEOREM RevocationsAreOne == Spec => RevokedOnce
  <1> DEFINE Once == \A s \in Sessions : Responds(s, "revoked") =>
                        /\ windows[tx[s].window].status = "active"
                        /\ windows'[tx[s].window].status = "revoked"
                        /\ windows[tx[s].window].approver_id = tx[s].actor
  <1>1. Inv /\ [Next]_vars => [Once]_vars
    <2> SUFFICES ASSUME Inv, Next, NEW s \in Sessions, Responds(s, "revoked")
                 PROVE  /\ windows[tx[s].window].status = "active"
                        /\ windows'[tx[s].window].status = "revoked"
                        /\ windows[tx[s].window].approver_id = tx[s].actor
      OBVIOUS
    <2>1. Commit(s) /\ tx[s].verb = "revoke"
      BY AnsweredBy
    <2>2. windows'[tx[s].window] = Committed(s)
      BY <2>1, CommitFacts
    <2> QED BY <2>1, <2>2, CommitFacts
  <1> QED BY <1>1, InitInv, StepInv, PTL DEF Spec, RevokedOnce

\* A 409 is true: the UPDATE that matched no row waited for whoever held it, and the
\* window it read is revoked.
THEOREM NotActiveHolds == Spec => NotActiveIsHonest
  <1> DEFINE Honest == \A s \in Sessions : Responds(s, "delegation_not_active") =>
                            windows[tx[s].window].status = "revoked"
  <1>1. Inv /\ [Next]_vars => [Honest]_vars
    <2> SUFFICES ASSUME Inv, Next, NEW s \in Sessions,
                        Responds(s, "delegation_not_active")
                 PROVE  windows[tx[s].window].status = "revoked"
      OBVIOUS
    <2>1. RevokeLost(s)
      BY AnsweredBy
    <2>2. /\ pc[s] = "update" /\ Knows("update", tx[s])
          /\ windows[tx[s].window].status # "active"
      BY <2>1 DEF RevokeLost, Inv, SurfaceDiscipline
    <2>3. tx[s].window \in Windows /\ windows[tx[s].window] # NotThere
      BY <2>2 DEF Knows, RunsAt
    <2>4. windows[tx[s].window] \in Window
      BY <2>3 DEF Inv, TypeOK
    <2> QED BY <2>2, <2>4, WindowFacts
  <1> QED BY <1>1, InitInv, StepInv, PTL DEF Spec, NotActiveIsHonest

\* Whoever decides is the approver or holds a window that a token of the approver's
\* created, for the day the call began, not revoked before it: between the check and the
\* commit a window may be revoked, but nothing else about it can change.
THEOREM DecisionsHaveConsent == Spec => DecidesByConsent
  <1> DEFINE Consent == \A r \in Requests : decider'[r] # decider[r] =>
            \E s \in Sessions :
                /\ pc[s] = "commit" /\ tx[s].request = r /\ tx[s].user \in Users
                /\ decider[r] = Nobody /\ decider'[r] = EmployeeOf[tx[s].user]
                /\ \/ decider'[r] = ApproverOf[r]
                   \/ \E w \in Windows : Consents(w, s, ApproverOf[r], decider'[r])
  <1>1. Inv /\ [Next]_vars => [Consent]_vars
    <2> SUFFICES ASSUME Inv, [Next]_vars, NEW r \in Requests, decider'[r] # decider[r]
                 PROVE  \E s \in Sessions :
                            /\ pc[s] = "commit" /\ tx[s].request = r
                            /\ tx[s].user \in Users /\ decider[r] = Nobody
                            /\ decider'[r] = EmployeeOf[tx[s].user]
                            /\ \/ decider'[r] = ApproverOf[r]
                               \/ \E w \in Windows :
                                    Consents(w, s, ApproverOf[r], decider'[r])
      OBVIOUS
    <2>1. PICK s \in Sessions : /\ CommitDecision(s) /\ tx[s].request = r
                                /\ Knows("commit", tx[s]) /\ decider'[r] = tx[s].actor
      BY DecidedBy
    <2>2. pc[s] = "commit" /\ tx[s].verb = "decide"
      BY <2>1 DEF CommitDecision
    <2>3. /\ tx[s].user \in Users /\ tx[s].actor = EmployeeOf[tx[s].user]
          /\ decider[r] = Nobody
          /\ \/ tx[s].actor = ApproverOf[r]
             \/ \E w \in Windows : LentTo(w, tx[s], ApproverOf[r])
      BY <2>1, <2>2 DEF Knows
    <2>4. ASSUME NEW w \in Windows, LentTo(w, tx[s], ApproverOf[r])
          PROVE  Consents(w, s, ApproverOf[r], decider'[r])
      <3>1. /\ windows[w] \in Window /\ granter[w] \in Users
            /\ EmployeeOf[granter[w]] = windows[w].approver_id
        BY <2>4 DEF LentTo, Inv, TypeOK, SurfaceDiscipline
      <3> QED BY <2>1, <2>4, <3>1, WindowFacts DEF LentTo, Consents
    <2> QED BY <2>1, <2>2, <2>3, <2>4
  <1> QED BY <1>1, InitInv, StepInv, PTL DEF Spec, DecidesByConsent

\* With the request-pool layer, a call routed to a tenant reads and writes no other
\* database, whichever verb it is and whatever runs beside it.
THEOREM TenantsAreFenced == Spec => TenantFence
  <1> DEFINE Fence == \A s \in Sessions :
        Layered /\ tx[s].tenant # NoTenant /\ pc[s] # "idle" =>
            /\ pc[s] = "commit" /\ pc'[s] = "idle" =>
                /\ \A w \in Windows : windows'[w] # windows[w] =>
                        windows'[w].home = tx[s].tenant
                /\ \A r \in Requests : decider'[r] # decider[r] =>
                        r \in RequestsOf[tx[s].tenant]
            /\ answer'.session = s /\ answer'.code \in {"found", "decided", "not_pending"} =>
                tx[s].request \in RequestsOf[tx[s].tenant]
  <1>1. Inv /\ [Next]_vars => [Fence]_vars
    <2> SUFFICES ASSUME Inv, Next, NEW s \in Sessions,
                        Layered, tx[s].tenant # NoTenant, pc[s] # "idle"
                 PROVE  /\ pc[s] = "commit" /\ pc'[s] = "idle" =>
                            /\ \A w \in Windows : windows'[w] # windows[w] =>
                                    windows'[w].home = tx[s].tenant
                            /\ \A r \in Requests : decider'[r] # decider[r] =>
                                    r \in RequestsOf[tx[s].tenant]
                        /\ answer'.session = s
                           /\ answer'.code \in {"found", "decided", "not_pending"} =>
                                tx[s].request \in RequestsOf[tx[s].tenant]
      OBVIOUS
    <2>1. tx[s].home = tx[s].tenant /\ Knows(pc[s], tx[s])
      <3>1. Knows(pc[s], tx[s])
        BY DEF Inv, SurfaceDiscipline
      <3>2. tx[s].verb \in BoundVerbs /\ tx[s].home = rpool(tx[s].verb, tx[s].tenant)
        BY <3>1 DEF Knows, RunsAt, BoundVerbs
      <3> QED BY <3>1, <3>2 DEF rpool
    <2>2. ASSUME pc[s] = "commit", pc'[s] = "idle", NEW w \in Windows,
                 windows'[w] # windows[w]
          PROVE  windows'[w].home = tx[s].tenant
      <3>1. PICK u \in Sessions : Commit(u)
        BY <2>2, QuietAnswer DEF Next, Midnight, CommitDecision
      <3>2. u = s
        BY <2>2, <3>1 DEF Commit, Respond, Inv, TypeOK
      <3>3. w = tx[s].window /\ windows'[w] = Committed(s)
        BY <2>2, <3>1, <3>2, CommitFacts
      <3> QED BY <2>1, <3>1, <3>2, <3>3, CommitFacts
    <2>3. ASSUME pc[s] = "commit", pc'[s] = "idle", NEW r \in Requests,
                 decider'[r] # decider[r]
          PROVE  r \in RequestsOf[tx[s].tenant]
      <3>1. PICK u \in Sessions : CommitDecision(u) /\ tx[u].request = r
        BY <2>3, DecidedBy
      <3>2. u = s
        BY <2>3, <3>1 DEF CommitDecision, Respond, Inv, TypeOK
      <3> QED BY <2>1, <2>3, <3>1, <3>2 DEF Knows, CommitDecision
    <2>4. ASSUME answer'.session = s, answer'.code \in {"found", "decided", "not_pending"}
          PROVE  tx[s].request \in RequestsOf[tx[s].tenant]
      <3>1. CASE answer'.code = "decided"
        <4>1. MarkDecided(s) \/ CommitDecision(s)
          BY <2>4, <3>1, AnsweredBy DEF Responds
        <4>2. pc[s] \in {"mark", "commit"} /\ tx[s].verb = "decide"
          BY <2>1, <4>1 DEF MarkDecided, CommitDecision, Knows, RunsAt
        <4> QED BY <2>1, <4>2 DEF Knows
      <3>2. CASE answer'.code \in {"found", "not_pending"}
        <4>1. SelectRequest(s)
          BY <2>4, <3>2, AnsweredBy DEF Responds
        <4>2. CASE tx[s].request \notin RequestsOf[tx[s].home]
          <5>1. Return(s, "approval_request_not_found")
            BY <4>1, <4>2 DEF SelectRequest
          <5> QED BY <3>2, <5>1, CodeOf DEF Return
        <4> QED BY <2>1, <4>2
      <3> QED BY <2>4, <3>1, <3>2
    <2> QED BY <2>2, <2>3, <2>4
  <1> QED BY <1>1, InitInv, StepInv, PTL DEF Spec, TenantFence

\* http_status tells a client what it may conclude: a 4xx has written nothing, a 201 or
\* 200 has.
THEOREM StatusIsHonest == Spec => StatusTellsTheEffect
  <1> DEFINE Tells == \A s \in Sessions : answer'.session = s =>
            /\ answer'.status \in 400..499 => UNCHANGED <<windows, decider>>
            /\ answer'.code \in {"created", "revoked"} => windows' # windows
  <1>1. Inv /\ [Next]_vars => [Tells]_vars
    <2> SUFFICES ASSUME Inv, Next, NEW s \in Sessions, answer'.session = s
                 PROVE  /\ answer'.status \in 400..499 => UNCHANGED <<windows, decider>>
                        /\ answer'.code \in {"created", "revoked"} => windows' # windows
      OBVIOUS
    <2>1. CASE Commit(s)
      <3>1. PICK code \in {"created", "revoked", "database_error"} : Respond(s, code)
        BY <2>1 DEF Commit
      <3>2. answer'.status = http_status(code) /\ code \in Codes
        BY <3>1, CodeOf DEF Codes
      <3>3. answer'.status \notin 400..499
        BY <3>1, <3>2, StatusOfCode
      <3>4. windows'[tx[s].window].status # windows[tx[s].window].status
        BY <2>1, CommitFacts DEF NotThere
      <3> QED BY <3>3, <3>4
    <2>2. CASE CommitDecision(s)
      <3>1. PICK code \in {"decided", "database_error"} : Respond(s, code)
        BY <2>2 DEF CommitDecision
      <3>2. /\ answer'.status = http_status(code) /\ code \in Codes
            /\ answer'.code = code
        BY <3>1, CodeOf DEF Codes
      <3>3. answer'.status \notin 400..499
        BY <3>1, <3>2, StatusOfCode
      <3> QED BY <3>1, <3>2, <3>3
    <2>3. CASE /\ windows' = windows /\ decider' = decider
               /\ \E code \in Codes \ {"created", "revoked"} : Quiet(s, code)
      BY <2>3, CodeOf DEF Quiet, Return
    <2> QED BY <2>1, <2>2, <2>3, AnswerBy
  <1> QED BY <1>1, InitInv, StepInv, PTL DEF Spec, StatusTellsTheEffect

\* The verbs implement the register everybody relies on: granted once, to somebody else,
\* revoked at most once, never edited.
THEOREM SurfaceImplementsRegister == Spec => ImplementsRegister
  <1>1. Init => Register!Init
    BY DEF Init, Register!Init, NotThere, Register!NoTerms, Nobody
  <1>2. Inv /\ [Next]_vars => [Register!Next]_(Register!register)
    <2> SUFFICES ASSUME Inv, [Next]_vars PROVE [Register!Next]_(Register!register)
      OBVIOUS
    <2>1. CASE windows' = windows
      BY <2>1 DEF Register!register
    <2>2. ASSUME NEW s \in Sessions, Commit(s) PROVE Register!Next
      <3>1. PICK w \in Windows, new \in Window :
                /\ w = tx[s].window /\ new = Committed(s)
                /\ windows' = [windows EXCEPT ![w] = new]
        BY <2>2, CommitFacts DEF Commit
      <3> DEFINE terms(v) == [approver_id |-> v.approver_id,
                              delegate_to_id |-> v.delegate_to_id,
                              valid_from |-> v.valid_from, valid_to |-> v.valid_to]
      <3>2. /\ \A v \in Windows : windows'[v] = IF v = w THEN new ELSE windows[v]
            /\ [v \in Windows |-> windows[v].status]'
                 = [[v \in Windows |-> windows[v].status] EXCEPT ![w] = new.status]
            /\ [v \in Windows |-> terms(windows[v])]'
                 = [[v \in Windows |-> terms(windows[v])] EXCEPT ![w] = terms(new)]
        BY <3>1 DEF Inv, TypeOK
      <3>3. CASE tx[s].verb = "create"
        <4>1. windows[w].status = "absent" /\ new.status = "active"
          BY <2>2, <3>1, <3>3, CommitFacts DEF NotThere
        <4>2. terms(new) \in Register!Terms
          BY <3>1, WindowFacts DEF Register!Terms
        <4>3. ([v \in Windows |-> terms(windows[v])]')[w] = terms(new)
          BY <3>2
        <4>4. Register!Grant(w)
          BY <3>2, <4>1, <4>2, <4>3 DEF Register!Grant
        <4> QED BY <4>4 DEF Register!Next
      <3>4. CASE tx[s].verb = "revoke"
        <4>1. /\ windows[w] \in Window /\ windows[w].status = "active"
              /\ new = [windows[w] EXCEPT !.status = "revoked"] /\ new.status = "revoked"
          BY <2>2, <3>1, <3>4, CommitFacts
        <4>2. terms(new) = terms(windows[w])
          BY <4>1 DEF Window, WindowOf
        <4>3. [v \in Windows |-> terms(windows[v])]' = [v \in Windows |-> terms(windows[v])]
          BY <3>2, <4>2
        <4>4. Register!Revoke(w)
          BY <3>2, <4>1, <4>3 DEF Register!Revoke
        <4> QED BY <4>4 DEF Register!Next
      <3> QED BY <2>2, <3>3, <3>4, CommitFacts
    <2> QED BY <2>1, <2>2, QuietAnswer DEF Next, Midnight, CommitDecision, vars
  <1> QED BY <1>1, <1>2, InitInv, StepInv, PTL DEF Spec, ImplementsRegister, Register!Spec
=============================================================================
