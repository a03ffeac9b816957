------------------------------- MODULE Filing -------------------------------
(***************************************************************************)
(* `file` for ONE resource: several sessions file it at once, while the    *)
(* requests filed before are decided or withdrawn, policies are switched,  *)
(* chains replaced, delegations edited, and the host's resolver answers    *)
(* what it likes.  One action per SQL statement or resolver call of the    *)
(* transaction, at READ COMMITTED.  The decision engine appears as the     *)
(* transactions that move a filed request out of pending (DecisionEngine   *)
(* has their statements).                                                  *)
(***************************************************************************)
EXTENDS ChainResolution, FiniteSets

CONSTANTS
    Filers,         \* database sessions: each runs one filing at a time
    Ids,            \* request ids, as drawn by Uuid::new_v4
    FileAttempts,   \* FILE_ATTEMPTS: the laps one filing takes (5 in the code)
    Requesters,     \* the employees who file
    Employees,      \* the employees who may be asked
    Policies,       \* the policies of this resource type
    ChainsOf,       \* the template chains a policy may be given, broken ones included
    Delegable,      \* the (approver, delegate) pairs a window may exist for
    Answers,        \* what the resolver may name: sequences of employees
    NoId, NoPolicy

ASSUME FilerAssumption == FileAttempts \in Nat \ {0}
ASSUME IdAssumption == NoId \notin Ids /\ NoPolicy \notin Policies
ASSUME TemplateAssumption ==
    /\ Requesters \subseteq Employees /\ Employees \subseteq Nat \ {Nobody}
    /\ Delegable \subseteq {p \in Employees \X Employees : p[1] # p[2]}
    /\ Answers \subseteq Seq(Employees)
    /\ ChainsOf \subseteq Seq(TemplateOf(Employees))
    /\ \A c \in ChainsOf : \A i, j \in DOMAIN c :    \* the partial unique on
            i # j => c[i].step_no # c[j].step_no     \* (policy_id, step_no)
    /\ \A c \in ChainsOf : \A i \in DOMAIN c :       \* whoever a template names
            c[i].approver_kind = "specific_employee" =>
                c[i].approver_ref \in Employees \union {NoRef}

VARIABLES
    requests,     \* the committed rows of approval_requests and their steps
    deciding,     \* the status an open engine transaction has given a request
    active,       \* the active policy of the resource type
    templates,    \* the live templates of each policy, in step order
    delegations,  \* the pairs with an active window that covers today
    pc,           \* the next statement of each session's filing
    tx,           \* its local variables
    answer        \* what the session's last filing returned

config  == <<active, templates, delegations>>
session == <<pc, tx, answer>>
vars    == <<requests, deciding, config, session>>

Verdicts      == {"approved", "rejected", "withdrawn"}
RequestStatus == {"pending"} \union Verdicts

ChainRows == Seq(ChainRowOf(Nat, Employees))

\* `from` is a history field: the templates the rows were resolved from.
RequestRow == [status : RequestStatus \union {"absent"}, requested_by : Employees \union {Nobody},
               policy : Policies \union {NoPolicy}, rows : ChainRows,
               from : ChainsOf \union {<<>>}]

Absent == [status |-> "absent", requested_by |-> Nobody, policy |-> NoPolicy,
           rows |-> <<>>, from |-> <<>>]

Refusals == {"invalid_quorum", "missing_approver_ref", "no_org_scope",
             "step_resolution_failed", "invalid_approval_chain",
             "filing_race_exhausted", "database_error"}

\* FilingOutcome: the request just filed, or the one that already held the resource
\* (request_id and verdict are that request's); or the refusal.
Outcomes == {"none", "filed", "already_filed"} \union Refusals

Locals == [requested_by : Employees \union {Nobody},
           lap : 0..FileAttempts,
           id : Ids \union {NoId},            \* the request row this lap inserted
           policy : Policies \union {NoPolicy},
           templates : ChainsOf \union {<<>>},
           next : Nat,                        \* the next template to resolve
           members : ChainRows,               \* resolved, not yet delegated
           rows : ChainRows,
           overtaken : 0..FileAttempts]       \* history: filings committed since

NoCall == [requested_by |-> Nobody, lap |-> 0, id |-> NoId,
           policy |-> NoPolicy, templates |-> <<>>, next |-> 1, members |-> <<>>,
           rows |-> <<>>, overtaken |-> 0]

PCs == {"idle", "find", "policy", "insert", "templates", "resolve", "delegate",
        "steps", "commit"}

Init ==
    /\ requests = [i \in Ids |-> Absent]
    /\ deciding = [i \in Ids |-> "none"]
    /\ active \in Policies \union {NoPolicy}
    /\ templates \in [Policies -> ChainsOf]
    /\ delegations \in SUBSET Delegable
    /\ pc = [t \in Filers |-> "idle"]
    /\ tx = [t \in Filers |-> NoCall]
    /\ answer = [t \in Filers |-> "none"]

-----------------------------------------------------------------------------
(* The lookup and the partial unique index.                                *)

\* The WHERE of find_live_request: not refused, withdrawn or absent.
FoundByFile(status) == status \in {"pending", "approved"}

\* The index as it was before a rejected request freed its resource.
HeldUntilWithdrawn(status) == status \in {"pending", "approved", "rejected"}

\* The predicate of approval_requests_one_live_per_resource.
HeldByIndex(status) == status \in {"pending", "approved"}

Holding(i) == HeldByIndex(requests[i].status)

\* The session has an uncommitted row in the index.
HasInserted(t) == tx[t].id # NoId

Goto(t, label) == pc' = [pc EXCEPT ![t] = label]

Set(t, locals) == tx' = [tx EXCEPT ![t] = locals]

\* The filing returns; what it has written and not committed is undone.
Return(t, outcome) ==
    /\ Goto(t, "idle")
    /\ Set(t, NoCall)
    /\ answer' = [answer EXCEPT ![t] = outcome]
    /\ UNCHANGED <<requests, deciding, config>>

Step(t, label, locals) ==
    /\ Goto(t, label)
    /\ Set(t, locals)
    /\ UNCHANGED <<requests, deciding, config, answer>>

-----------------------------------------------------------------------------
(* file                                                                    *)

\* The call begins its first lap.
File(t, requester) ==
    /\ pc[t] = "idle"
    /\ Goto(t, "find")
    /\ Set(t, [NoCall EXCEPT !.requested_by = requester, !.lap = 1])
    /\ answer' = [answer EXCEPT ![t] = "none"]
    /\ UNCHANGED <<requests, deciding, config>>

\* find_live_request: the holder is handed back, whoever filed it.
FindLive(t) ==
    /\ pc[t] = "find"
    /\ \/ /\ \E i \in Ids : FoundByFile(requests[i].status)
          /\ Return(t, "already_filed")
       \/ /\ \A i \in Ids : ~ FoundByFile(requests[i].status)
          /\ Step(t, "policy", tx[t])

\* find_active_policy.
FindPolicy(t) ==
    /\ pc[t] = "policy"
    /\ Step(t, "insert", [tx[t] EXCEPT !.policy = active])

\* The index makes the INSERT wait for every open transaction that has inserted, or
\* is changing, a row of this resource that the index holds.
InsertMayGo(t) ==
    /\ \A u \in Filers \ {t} : ~ HasInserted(u)
    /\ \A i \in Ids : Holding(i) => deciding[i] = "none"

\* An INSERT that does not wait for the open transactions.
ImpatientInsert(t) ==
    /\ pc[t] = "insert"
    /\ \A i \in Ids : ~ Holding(i)
    /\ \E i \in Ids :
        /\ \A u \in Filers : tx[u].id # i
        /\ Step(t, IF tx[t].policy = NoPolicy THEN "commit" ELSE "templates",
                [tx[t] EXCEPT !.id = i])

\* insert_request of a fresh id into a resource nobody holds.  A refused request is
\* history that no statement here reads again: the model reuses its id.
InsertRequest(t) ==
    /\ pc[t] = "insert"
    /\ InsertMayGo(t)
    /\ \A i \in Ids : ~ Holding(i)
    /\ \E i \in Ids :
        Step(t, IF tx[t].policy = NoPolicy THEN "commit" ELSE "templates",
             [tx[t] EXCEPT !.id = i])

\* A loser that takes one lap more than FILE_ATTEMPTS, ...
LoseOnceMore(t) ==
    /\ pc[t] = "insert"
    /\ InsertMayGo(t)
    /\ \E i \in Ids : Holding(i)
    /\ IF tx[t].lap <= FileAttempts
       THEN Step(t, "find", [tx[t] EXCEPT !.lap = @ + 1, !.policy = NoPolicy])
       ELSE Return(t, "filing_race_exhausted")

\* ... and one that does not count its laps.
LoseForEver(t) ==
    /\ pc[t] = "insert"
    /\ InsertMayGo(t)
    /\ \E i \in Ids : Holding(i)
    /\ Step(t, "find", [tx[t] EXCEPT !.policy = NoPolicy])

\* insert_request meets a committed holder: the unique violation.  The transaction is
\* rolled back and the filing takes another lap, or has taken its last.
LoseRace(t) ==
    /\ pc[t] = "insert"
    /\ InsertMayGo(t)
    /\ \E i \in Ids : Holding(i)
    /\ IF tx[t].lap < FileAttempts
       THEN Step(t, "find", [tx[t] EXCEPT !.lap = @ + 1, !.policy = NoPolicy])
       ELSE Return(t, "filing_race_exhausted")

\* templates_for_policy.
ReadTemplates(t) ==
    /\ pc[t] = "templates"
    /\ Step(t, "resolve", [tx[t] EXCEPT !.templates = templates[tx[t].policy]])

\* What the resolver may name for a template: one employee for a manager or a head,
\* any holders for a role or position, and nobody is asked for the other kinds.
Named(template) ==
    IF ~ Dynamic(template) THEN {<<>>}
    ELSE IF template.approver_kind \in NeedsRef THEN Answers
    ELSE {a \in Answers : Len(a) = 1}

\* resolve_members of the next template.  A dynamic kind may always be refused: the
\* resolver errs, or no org scope is bound.
Resolve(t) ==
    LET template == tx[t].templates[tx[t].next]
        refusal  == TemplateRefusal(template)
    IN
    /\ pc[t] = "resolve"
    /\ tx[t].next \in DOMAIN tx[t].templates
    /\ \/ refusal # "none" /\ Return(t, refusal)
       \/ /\ refusal = "none" /\ Dynamic(template)
          /\ \E code \in {"no_org_scope", "step_resolution_failed"} : Return(t, code)
       \/ /\ refusal = "none"
          /\ \E named \in Named(template) :
                LET members == Members(template, named) IN
                Step(t, IF members = <<>> THEN "resolve" ELSE "delegate",
                     [tx[t] EXCEPT !.members = members, !.next = @ + 1])

\* apply_delegation of the next member: find_active_delegation_for, then the row.
Delegate(t) ==
    LET m == Head(tx[t].members)
        delegates == {p \in delegations : p[1] = m.assigned_to}
        push(row) == Step(t, IF Len(tx[t].members) = 1 THEN "resolve" ELSE "delegate",
                          [tx[t] EXCEPT !.members = Tail(@), !.rows = Append(@, row)])
    IN
    /\ pc[t] = "delegate"
    /\ \/ delegates = {} /\ push(m)
       \/ \E p \in delegates : push(Delegated(m, p[2]))

\* All templates resolved: validate_chain, then insert_step for every row.  Nobody
\* else can see or meet the rows of an uncommitted request.
InsertSteps(t) ==
    /\ pc[t] = "resolve"
    /\ tx[t].next \notin DOMAIN tx[t].templates
    /\ IF Accepts(tx[t].templates, tx[t].rows)
       THEN Step(t, "commit", tx[t])
       ELSE Return(t, "invalid_approval_chain")

\* The request row as this filing wrote it.
Filed(t) ==
    [status |-> IF tx[t].policy = NoPolicy THEN "approved" ELSE "pending",
     requested_by |-> tx[t].requested_by, policy |-> tx[t].policy,
     rows |-> tx[t].rows, from |-> tx[t].templates]

CommitFiling(t) ==
    /\ pc[t] = "commit"
    /\ requests' = [requests EXCEPT ![tx[t].id] = Filed(t)]
    /\ Goto(t, "idle")
    /\ tx' = [u \in Filers |->
                IF u = t THEN NoCall
                ELSE IF pc[u] = "idle" \/ tx[u].overtaken = FileAttempts THEN tx[u]
                ELSE [tx[u] EXCEPT !.overtaken = @ + 1]]
    /\ answer' = [answer EXCEPT ![t] = "filed"]
    /\ UNCHANGED <<deciding, config>>

\* The connection is lost or the caller's future is dropped: at any await.
Abort(t) == pc[t] # "idle" /\ Return(t, "database_error")

-----------------------------------------------------------------------------
(* What happens to the requests and the configuration meanwhile.           *)

\* A decide or withdraw writes the verdict of a pending request, ...
EngineWrites(i, verdict) ==
    /\ requests[i].status = "pending"
    /\ deciding[i] = "none"
    /\ deciding' = [deciding EXCEPT ![i] = verdict]
    /\ UNCHANGED <<requests, config, session>>

\* ... commits it or not.  The model forgets the chain of a refused request.
EngineEnds(i) ==
    /\ deciding[i] # "none"
    /\ deciding' = [deciding EXCEPT ![i] = "none"]
    /\ \/ requests' = [requests EXCEPT ![i] =
                IF deciding[i] = "approved" THEN [@ EXCEPT !.status = "approved"]
                ELSE [Absent EXCEPT !.status = deciding[i]]]
       \/ UNCHANGED requests
    /\ UNCHANGED <<config, session>>

\* The composing service keeps at most one policy active per resource type.
SwitchPolicy(p) ==
    /\ active' = p
    /\ UNCHANGED <<requests, deciding, templates, delegations, session>>

\* replace_chain, or rows edited one by one into a broken chain.
EditChain(p, c) ==
    /\ templates' = [templates EXCEPT ![p] = c]
    /\ UNCHANGED <<requests, deciding, active, delegations, session>>

EditDelegation(p) ==
    /\ delegations' = IF p \in delegations THEN delegations \ {p}
                                           ELSE delegations \union {p}
    /\ UNCHANGED <<requests, deciding, active, templates, session>>

-----------------------------------------------------------------------------

Proceed(t) == \/ FindLive(t) \/ FindPolicy(t) \/ InsertRequest(t) \/ LoseRace(t)
              \/ ReadTemplates(t) \/ Resolve(t) \/ Delegate(t) \/ InsertSteps(t)
              \/ CommitFiling(t)

Call(t) == \E requester \in Requesters : File(t, requester)

Engine(i) == \/ \E verdict \in Verdicts : EngineWrites(i, verdict)
             \/ EngineEnds(i)

Configuration == \/ \E p \in Policies \union {NoPolicy} : SwitchPolicy(p)
                 \/ \E p \in Policies, c \in ChainsOf : EditChain(p, c)
                 \/ \E p \in Delegable : EditDelegation(p)

Next == \/ \E t \in Filers : Call(t) \/ Proceed(t) \/ Abort(t)
        \/ \E i \in Ids : Engine(i)
        \/ Configuration

Spec == Init /\ [][Next]_vars

\* A filing that has started is run to its end, the transactions of the engine end,
\* and PostgreSQL queues those who wait at the index.
FairSpec ==
    /\ Spec
    /\ \A t \in Filers : WF_vars(Proceed(t)) /\ SF_vars(InsertRequest(t) \/ LoseRace(t))
    /\ \A i \in Ids : WF_vars(EngineEnds(i))

-----------------------------------------------------------------------------
(* Properties.                                                             *)

\* The type invariant.
TypeOK ==
    /\ requests \in [Ids -> RequestRow]
    /\ deciding \in [Ids -> Verdicts \union {"none"}]
    /\ active \in Policies \union {NoPolicy}
    /\ templates \in [Policies -> ChainsOf]
    /\ delegations \subseteq Delegable
    /\ pc \in [Filers -> PCs]
    /\ tx \in [Filers -> Locals]
    /\ answer \in [Filers -> Outcomes]

\* file is idempotent per resource: whatever filings, decisions and withdrawals
\* interleave, at most one pending or approved request holds the resource.
OneHolder == \A i, j \in Ids : Holding(i) /\ Holding(j) => i = j

\* A request was pre-approved with no rows, or has a chain the engine can walk, with
\* rows at every step its templates number.
Whole(row) ==
    IF row.policy = NoPolicy THEN row.rows = <<>> /\ row.status = "approved"
    ELSE /\ Walkable(row.rows)
         /\ Numbers(row.rows) = Numbers(row.from)

\* docs/approvals-engine.md:66-77: a request that would park on a step nobody can
\* decide is never filed, nor half of one, whatever fails or is edited meanwhile.
FiledWhole == \A i \in Ids : Holding(i) => Whole(requests[i])

\* The filing in session t returns in this step with this outcome.
Returns(t, outcome) == pc[t] # "idle" /\ pc'[t] = "idle" /\ answer'[t] = outcome

\* filing_race_exhausted is an honest 503: each of its laps was lost to another filing
\* that committed after the call began.
ExhaustedWasOvertaken ==
    [][\A t \in Filers :
            Returns(t, "filing_race_exhausted") => tx[t].overtaken = FileAttempts]_vars

\* One resource, one claim: the filings together implement ResourceClaim.
Holder == IF \E i \in Ids : Holding(i) THEN CHOOSE i \in Ids : Holding(i) ELSE NoId

Claim == INSTANCE ResourceClaim WITH holder <- Holder

ImplementsClaim == Claim!Spec

\* The rows of a request at one step, in the order they were resolved.
RowsAt(row, n) == SelectSeq(row.rows, LAMBDA r : r.step_no = n)

\* approval_chain_service.rs:52-53: a filing through a chain the preview has a problem
\* with would be refused.  So no filed chain has a step with a problem.
PreviewedProblemsRefused ==
    \A i \in Ids : \A k \in DOMAIN requests[i].rows :
        StepProblem(RowsAt(requests[i], requests[i].rows[k].step_no),
                    requests[i].requested_by) = "none"

\* Every filing returns, within its laps, whoever else files, refuses or withdraws.
FilingsReturn == \A t \in Filers : pc[t] # "idle" ~> pc[t] = "idle"
=============================================================================
