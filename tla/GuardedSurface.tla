--------------------------- MODULE GuardedSurface ---------------------------
(***************************************************************************)
(* The guarded HTTP surface and the delegation verbs behind it: handlers   *)
(* that run at once, each on the database its request was routed to and    *)
(* for the employee its token resolves to, create and revoke delegation    *)
(* windows, decide a request, in person or through a window, and read one. *)
(* One action per SQL statement, at READ COMMITTED.  A request here has    *)
(* one step with one approver, so that a decision is its row's mark; the   *)
(* turns, the quorums and the other refusals of `decide` are               *)
(* DecisionEngine's.                                                       *)
(***************************************************************************)
EXTENDS Delegations, FiniteSets

CONSTANTS
    Sessions,      \* handlers: each runs one request at a time
    Tenants,       \* the databases a tenant router may route a request to
    Composed,      \* the database the service was composed with
    NoTenant,      \* no PgPool among the request's extensions
    Layered,       \* the verbs are mounted with the bind_request_pool layer
    Users,         \* the principals of the tokens
    EmployeeOf,    \* what the ActorResolver answers for each of them
    Employees,
    Windows,       \* delegation ids, as drawn by Uuid::new_v4
    Days,          \* the days of the model: Midnight ends with the last
    Periods,       \* the valid_from and valid_to a client may send
    RequestsOf,    \* the approval requests in each database
    ApproverOf,    \* the employee each of them is assigned to
    NoWindow, NoSession, NoUser

Databases == Tenants \union {Composed}
Requests == UNION {RequestsOf[d] : d \in Databases}

ASSUME SurfaceAssumption ==
    /\ Composed \notin Tenants /\ NoTenant \notin Databases /\ Layered \in BOOLEAN
    /\ Employees \subseteq Nat \ {Nobody}
    /\ EmployeeOf \in [Users -> Employees \union {Nobody}]
    /\ Days \subseteq Nat \ {0} /\ 1 \in Days /\ Periods \subseteq Days \X Days
    /\ DOMAIN RequestsOf = Databases /\ ApproverOf \in [Requests -> Employees]
    /\ NoWindow \notin Windows /\ NoSession \notin Sessions /\ NoUser \notin Users

VARIABLES
    windows,   \* the committed rows of delegations
    decider,   \* of each request: decided_by, Nobody while it is pending
    today,
    pc,        \* the next statement of each handler
    tx,        \* its local variables
    answer,    \* the response sent in this step, if one is
    granter    \* history: whose token created each window

vars == <<windows, decider, today, pc, tx, answer, granter>>

NotThere == [home |-> Composed, approver_id |-> Nobody, delegate_to_id |-> Nobody,
             valid_from |-> 0, valid_to |-> 0, status |-> "absent"]

Window == WindowOf(Databases, Employees, Days)

Locals == [verb : {"none", "create", "revoke", "decide", "read"},
           tenant : Tenants \union {NoTenant},     \* where the request was routed
           home : Databases,                       \* rpool(): where its statements run
           user : Users \union {NoUser},           \* the principal of its token
           actor : Employees \union {Nobody},
           began : Days \union {0},                \* CURRENT_DATE of its transaction
           window : Windows \union {NoWindow},     \* written or locked by it, or asked for
           row : Window \union {NotThere},         \* what it inserts
           request : Requests \union {NoWindow},
           gone : SUBSET Windows]                  \* history: revoked before it began

NoCall == [verb |-> "none", tenant |-> NoTenant, home |-> Composed, user |-> NoUser,
           actor |-> Nobody, began |-> 0, window |-> NoWindow, row |-> NotThere,
           request |-> NoWindow, gone |-> {}]

PCs == {"idle", "insert", "get", "update", "select", "check", "mark", "commit"}

NoAnswer == [session |-> NoSession, code |-> "none", status |-> 0]

Answers == [session : Sessions, code : Codes, status : {200, 201, 403, 404, 409, 422, 500}]

Init ==
    /\ windows = [w \in Windows |-> NotThere]
    /\ decider = [r \in Requests |-> Nobody]
    /\ today = 1
    /\ pc = [s \in Sessions |-> "idle"]
    /\ tx = [s \in Sessions |-> NoCall]
    /\ answer = NoAnswer
    /\ granter = [w \in Windows |-> NoUser]

-----------------------------------------------------------------------------
(* The pool law and the session.                                           *)

\* A composer that merges the delegation verbs after the layer.
LayeredTooEarly == {"decide", "read"}

\* The verbs create_guarded_approvals_routes registers before bind_request_pool's layer,
\* which wraps those only.
BoundVerbs == {"create", "revoke", "decide", "read"}

\* rpool that prefers the pool it was composed with.
HomePool(verb, tenant) == Composed

\* rpool: the pool bind_request_pool copied from the request, else the composed one.
rpool(verb, tenant) ==
    IF Layered /\ verb \in BoundVerbs /\ tenant # NoTenant THEN tenant ELSE Composed

\* actor: the employee the composition's ActorResolver links to the principal of the
\* token; never one that the body names.
ActorOf(user) == EmployeeOf[user]

\* The handler answers; what it has not committed is undone.
Respond(s, code) ==
    /\ pc' = [pc EXCEPT ![s] = "idle"]
    /\ tx' = [tx EXCEPT ![s] = NoCall]
    /\ answer' = [session |-> s, code |-> code, status |-> http_status(code)]

Return(s, code) == Respond(s, code) /\ UNCHANGED <<windows, decider, today, granter>>

\* The handler goes on to its next statement.
Step(s, label, locals) ==
    /\ pc' = [pc EXCEPT ![s] = label]
    /\ tx' = [tx EXCEPT ![s] = locals]
    /\ answer' = NoAnswer
    /\ UNCHANGED <<windows, decider, today, granter>>

\* The transaction begins, in the database of the request and on today's date.
Begun(verb, user, tenant) ==
    [verb |-> verb, tenant |-> tenant, home |-> rpool(verb, tenant), user |-> user,
     actor |-> IF user = NoUser THEN Nobody ELSE ActorOf(user),
     began |-> today, window |-> NoWindow, row |-> NotThere, request |-> NoWindow,
     gone |-> IF verb = "decide" THEN {w \in Windows : windows[w].status = "revoked"}
              ELSE {}]

\* An UPDATE that waits for nobody.
NobodyLocks(w) == {}

\* A row another handler has updated and not committed.
LockedBy(w) == {u \in Sessions : pc[u] = "commit" /\ tx[u].verb = "revoke" /\ tx[u].window = w}

\* Ids nobody has drawn yet; with Windows used up, the model creates no more.
Fresh == {w \in Windows : windows[w] = NotThere
                /\ \A u \in Sessions : tx[u].verb = "create" => tx[u].window # w}

-----------------------------------------------------------------------------
(* POST /approvals/delegations                                             *)

\* The handler and the checks of create_delegation: the approver is the token's.
CreateDelegation(s, user, tenant, delegate, period) ==
    LET approver == ActorOf(user)
        fault    == CreationFault(approver, delegate, period[1], period[2])
    IN
    /\ pc[s] = "idle"
    /\ \/ approver = Nobody /\ Return(s, "not_delegation_approver")
       \/ approver # Nobody /\ fault # "none" /\ Return(s, fault)
       \/ /\ approver # Nobody /\ fault = "none"
          /\ \E w \in Fresh :
                Step(s, "insert", [Begun("create", user, tenant) EXCEPT
                    !.window = w,
                    !.row = [home |-> rpool("create", tenant), approver_id |-> approver,
                             delegate_to_id |-> delegate, valid_from |-> period[1],
                             valid_to |-> period[2], status |-> "active"]])

\* insert_delegation.
InsertDelegation(s) == pc[s] = "insert" /\ Step(s, "commit", tx[s])

\* The CHECK on the length of `reason`, where the migration could add it.
ReasonTooLong(s) == pc[s] = "insert" /\ Return(s, "database_error")

-----------------------------------------------------------------------------
(* POST /approvals/delegations/:id/revoke                                  *)

RevokeDelegation(s, user, tenant, w) ==
    /\ pc[s] = "idle"
    /\ IF ActorOf(user) = Nobody
       THEN Return(s, "not_delegation_approver")
       ELSE Step(s, "get", [Begun("revoke", user, tenant) EXCEPT !.window = w])

\* The window is in the database of the request.
Known(s) == windows[tx[s].window] # NotThere /\ windows[tx[s].window].home = tx[s].home

\* get_delegation, and who may revoke.
GetDelegation(s) ==
    /\ pc[s] = "get"
    /\ \/ ~ Known(s) /\ Return(s, "approval_request_not_found")
       \/ /\ Known(s) /\ windows[tx[s].window].approver_id # tx[s].actor
          /\ Return(s, "not_delegation_approver")
       \/ /\ Known(s) /\ windows[tx[s].window].approver_id = tx[s].actor
          /\ Step(s, "update", tx[s])

\* A revocation that does not ask for the status.
RevokeWhatever(s) ==
    /\ pc[s] = "update"
    /\ LockedBy(tx[s].window) = {}
    /\ Step(s, "commit", tx[s])

\* revoke_delegation: the UPDATE waits for whoever holds the row, ...
Revoke(s) ==
    /\ pc[s] = "update"
    /\ LockedBy(tx[s].window) = {}
    /\ windows[tx[s].window].status = "active"
    /\ Step(s, "commit", tx[s])

\* A loser that does not wait for the winner's commit, ...
LoseEarly(s) ==
    /\ pc[s] = "update"
    /\ LockedBy(tx[s].window) # {} \/ windows[tx[s].window].status # "active"
    /\ Return(s, "delegation_not_active")

\* ... and then matches it only if it is still active.
RevokeLost(s) ==
    /\ pc[s] = "update"
    /\ LockedBy(tx[s].window) = {}
    /\ windows[tx[s].window].status # "active"
    /\ Return(s, "delegation_not_active")

\* The row a commit leaves, were a revoked window deleted.
DeletedWhenRevoked(s) == IF tx[s].verb = "create" THEN tx[s].row ELSE NotThere

\* The row the commit of a create or a revoke leaves.
Committed(s) ==
    IF tx[s].verb = "create" THEN tx[s].row
    ELSE [windows[tx[s].window] EXCEPT !.status = "revoked"]

\* The commit of either and the answer; the acknowledgement may be lost on the way.
Commit(s) ==
    /\ pc[s] = "commit" /\ tx[s].verb \in {"create", "revoke"}
    /\ windows' = [windows EXCEPT ![tx[s].window] = Committed(s)]
    /\ granter' = [granter EXCEPT ![tx[s].window] =
                        IF tx[s].verb = "create" THEN tx[s].user ELSE @]
    /\ \/ Respond(s, IF tx[s].verb = "create" THEN "created" ELSE "revoked")
       \/ Respond(s, "database_error")
    /\ UNCHANGED <<decider, today>>

-----------------------------------------------------------------------------
(* POST /approvals/requests/:id/decide and GET /approvals/requests/:id.    *)

\* The handler of decide: the actor first, then the word in the body.
Decide(s, user, tenant, decision, r) ==
    /\ pc[s] = "idle"
    /\ \/ ActorOf(user) = Nobody /\ Return(s, "not_step_approver")
       \/ /\ ActorOf(user) # Nobody /\ decision \notin {"approve", "reject"}
          /\ Return(s, "invalid_decision")
       \/ /\ ActorOf(user) # Nobody /\ decision \in {"approve", "reject"}
          /\ Step(s, "select", [Begun("decide", user, tenant) EXCEPT !.request = r])

\* Whoever asks: the handler of a read does not look at the principal.
GetRequest(s, tenant, r) ==
    /\ pc[s] = "idle"
    /\ Step(s, "select", [Begun("read", NoUser, tenant) EXCEPT !.request = r])

\* get_request: the row of whichever database the pool leads to.  A read answers it,
\* decide goes on while it is pending.
SelectRequest(s) ==
    LET request == tx[s].request
        there   == request \in RequestsOf[tx[s].home]
    IN
    /\ pc[s] = "select"
    /\ \/ ~ there /\ Return(s, "approval_request_not_found")
       \/ there /\ tx[s].verb = "read" /\ Return(s, "found")
       \/ /\ there /\ tx[s].verb = "decide" /\ decider[request] # Nobody
          /\ Return(s, "not_pending")
       \/ /\ there /\ tx[s].verb = "decide" /\ decider[request] = Nobody
          /\ Step(s, "check", tx[s])

\* The windows delegation_exists_for finds.
Lending(s) ==
    {w \in Windows : Lends(windows[w], tx[s].home, ApproverOf[tx[s].request],
                           tx[s].actor, tx[s].began)}

\* actor_may_decide of the pending row: its approver, or a delegate of theirs.
CheckDelegation(s) ==
    LET may == ApproverOf[tx[s].request] = tx[s].actor \/ Lending(s) # {} IN
    /\ pc[s] = "check"
    /\ \/ ~ may /\ Return(s, "not_step_approver")
       \/ may /\ Step(s, "mark", tx[s])

\* A row another handler has marked and not committed.
MarkedBy(r) ==
    {u \in Sessions : pc[u] = "commit" /\ tx[u].verb = "decide" /\ tx[u].request = r}

\* mark_step_decided and finish_request: the UPDATE waits for whoever holds the row and
\* matches it only while it is pending; else the request is re-read and answered.
MarkDecided(s) ==
    /\ pc[s] = "mark"
    /\ MarkedBy(tx[s].request) = {}
    /\ \/ decider[tx[s].request] = Nobody /\ Step(s, "commit", tx[s])
       \/ decider[tx[s].request] # Nobody /\ Return(s, "decided")

\* The commit of a decision.  What authorised it was read two statements before.
CommitDecision(s) ==
    /\ pc[s] = "commit" /\ tx[s].verb = "decide"
    /\ decider' = [decider EXCEPT ![tx[s].request] = tx[s].actor]
    /\ Respond(s, "decided") \/ Respond(s, "database_error")
    /\ UNCHANGED <<windows, today, granter>>

-----------------------------------------------------------------------------

\* The connection is lost or the client goes away: at any await.
Abort(s) == pc[s] # "idle" /\ Return(s, "database_error")

Midnight ==
    /\ today + 1 \in Days
    /\ today' = today + 1
    /\ answer' = NoAnswer
    /\ UNCHANGED <<windows, decider, pc, tx, granter>>

Call(s) ==
    \E tenant \in Tenants \union {NoTenant} :
        \/ \E user \in Users, delegate \in Employees, period \in Periods :
                CreateDelegation(s, user, tenant, delegate, period)
        \/ \E user \in Users, w \in Windows : RevokeDelegation(s, user, tenant, w)
        \/ \E user \in Users, decision \in {"approve", "other"}, r \in Requests :
                Decide(s, user, tenant, decision, r)
        \/ \E r \in Requests : GetRequest(s, tenant, r)

Proceed(s) == \/ InsertDelegation(s) \/ GetDelegation(s) \/ Revoke(s) \/ RevokeLost(s)
              \/ Commit(s) \/ SelectRequest(s) \/ CheckDelegation(s)
              \/ MarkDecided(s) \/ CommitDecision(s)

Next == \/ \E s \in Sessions : Call(s) \/ Proceed(s) \/ ReasonTooLong(s) \/ Abort(s)
        \/ Midnight

Spec == Init /\ [][Next]_vars

-----------------------------------------------------------------------------
(* Properties.                                                             *)

\* The type invariant: the windows in the table have an approver and a delegate who are
\* two employees, and days in order.
TypeOK ==
    /\ windows \in [Windows -> Window \union {NotThere}]
    /\ decider \in [Requests -> Employees \union {Nobody}]
    /\ granter \in [Windows -> Users \union {NoUser}]
    /\ today \in Days
    /\ pc \in [Sessions -> PCs]
    /\ tx \in [Sessions -> Locals]
    /\ answer \in Answers \union {NoAnswer}

\* The response of this step is the session's, with this code.
Responds(s, code) == answer'.session = s /\ answer'.code = code

\* docs/approvals-engine.md:153-155: of the revocations of one window that race or
\* repeat, one succeeds, and it is its approver's.
RevokedOnce ==
    [][\A s \in Sessions : Responds(s, "revoked") =>
            /\ windows[tx[s].window].status = "active"
            /\ windows'[tx[s].window].status = "revoked"
            /\ windows[tx[s].window].approver_id = tx[s].actor]_vars

\* A 409 delegation_not_active is true: the window is revoked, and stays it, although the
\* handler that answers has not revoked it.
NotActiveIsHonest ==
    [][\A s \in Sessions : Responds(s, "delegation_not_active") =>
            windows[tx[s].window].status = "revoked"]_vars

\* A window that lets a delegate decide in an approver's stead in handler s: created by a
\* token of the approver's own, for this delegate, in the database of the request, for
\* the day the call began, and not revoked before that.
Consents(w, s, approver, delegate) ==
    /\ windows[w].status \in {"active", "revoked"} /\ w \notin tx[s].gone
    /\ granter[w] \in Users /\ EmployeeOf[granter[w]] = approver
    /\ windows[w].approver_id = approver /\ windows[w].delegate_to_id = delegate
    /\ windows[w].home = tx[s].home
    /\ windows[w].valid_from <= tx[s].began /\ tx[s].began <= windows[w].valid_to

\* docs/approvals-engine.md:146-148 and 158: consent is structural, and a revocation stops
\* the decisions.  Whose decision is committed is the approver of the step or holds the
\* approver's consent, whatever is granted, revoked or expires while the call runs.  The
\* check is two statements before the commit, so a window may be revoked in between: what
\* holds is that a revocation committed before the call began has taken effect.
DecidesByConsent ==
    [][\A r \in Requests : decider'[r] # decider[r] =>
            \E s \in Sessions :
                /\ pc[s] = "commit" /\ tx[s].request = r /\ tx[s].user \in Users
                /\ decider[r] = Nobody /\ decider'[r] = EmployeeOf[tx[s].user]
                /\ \/ decider'[r] = ApproverOf[r]
                   \/ \E w \in Windows : Consents(w, s, ApproverOf[r], decider'[r])]_vars

\* The pool law (request_pool.rs:3-11): under the layered mount a call that was routed to
\* a tenant reads, locks and writes that tenant's rows only.
TenantFence ==
    [][\A s \in Sessions : Layered /\ tx[s].tenant # NoTenant /\ pc[s] # "idle" =>
            /\ pc[s] = "commit" /\ pc'[s] = "idle" =>
                /\ \A w \in Windows : windows'[w] # windows[w] =>
                        windows'[w].home = tx[s].tenant
                /\ \A r \in Requests : decider'[r] # decider[r] =>
                        r \in RequestsOf[tx[s].tenant]
            /\ answer'.session = s /\ answer'.code \in {"found", "decided", "not_pending"} =>
                tx[s].request \in RequestsOf[tx[s].tenant]]_vars

\* What a client may conclude from the status: a 201 or 200 has written what it says, a
\* 4xx nothing; after a 500 alone it does not know.
StatusTellsTheEffect ==
    [][\A s \in Sessions : answer'.session = s =>
            /\ answer'.status \in 400..499 => UNCHANGED <<windows, decider>>
            /\ answer'.code \in {"created", "revoked"} => windows' # windows]_vars

\* Every window is granted once, by its approver, and revoked at most once.
Register == INSTANCE DelegationRegister WITH
    state <- [w \in Windows |-> windows[w].status],
    terms <- [w \in Windows |->
                [approver_id |-> windows[w].approver_id,
                 delegate_to_id |-> windows[w].delegate_to_id,
                 valid_from |-> windows[w].valid_from, valid_to |-> windows[w].valid_to]]

ImplementsRegister == Register!Spec
=============================================================================
