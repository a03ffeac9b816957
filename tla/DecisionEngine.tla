--------------------------- MODULE DecisionEngine ---------------------------
(***************************************************************************)
(* The decision engine of backbone-approvals: what `decide`, `withdraw`    *)
(* and `escalate_overdue_step` do to ONE filed request and its chain of    *)
(* step rows, when several callers run them at once.                       *)
(*                                                                         *)
(* Every verb is one PostgreSQL transaction at READ COMMITTED.  An action  *)
(* of this module is one SQL statement of the transaction, or its commit:  *)
(* a SELECT sees the last committed version of a row, or the transaction's *)
(* own; an UPDATE waits for the transaction that wrote the row last, then  *)
(* re-evaluates its WHERE on the version it finds.  `steps` and `request`  *)
(* are the committed versions, `newSteps` and `newRequest` the newest ones *)
(* (uncommitted where a row is locked).                                    *)
(***************************************************************************)
EXTENDS ApprovalChain, FiniteSets

CONSTANTS
    Txns,        \* database sessions: each runs one call at a time
    Rows,        \* ids of the materialised rows of approval_steps
    Employees,   \* employee ids, in the order ORDER BY assigned_to gives them
    Requester,   \* the employee who filed the request
    Heads,       \* whom the resolver may name as the department head
    Delegable,   \* the (approver, delegate) pairs a window may exist for
    Chains,      \* the chains a filing may have materialised, see ValidChain
    NoTxn,       \* nobody holds the row's lock
    NoRow        \* no row chosen

\* The values the engine writes; the enums also have draft and cancelled, delegated
\* and escalated, which no statement of the engine writes.
ApprovalStatus     == {"pending", "approved", "rejected", "withdrawn"}
ApprovalStepStatus == {"pending", "approved", "rejected", "skipped"}

ChainRow == ChainRowOf(Nat \ {0}, Employees)

ValidChain(c) == c \in [Rows -> ChainRow] /\ Walkable(c)

ASSUME TxnAssumption == NoTxn \notin Txns
ASSUME RowAssumption == NoRow \notin Rows /\ Rows # {}
ASSUME EmployeeAssumption ==
    /\ Employees \subseteq Nat \ {Nobody}
    /\ Requester \in Employees
    /\ Heads \subseteq Employees
    /\ Delegable \subseteq {p \in Employees \X Employees : p[1] # p[2]}
ASSUME ChainAssumption == \A c \in Chains : ValidChain(c)

VARIABLES
    chain,        \* what filing wrote of each row and no statement changes
    request,      \* the committed row of approval_requests
    newRequest,   \* its newest version
    requestLock,  \* who wrote newRequest and has not committed
    steps,        \* the committed rows of approval_steps
    newSteps,     \* their newest versions
    stepLock,     \* who wrote newSteps[r] and has not committed
    delegations,  \* the pairs with an active window that covers today
    overdue,      \* the step numbers whose sla_due_at has passed
    pc,           \* the next statement of each session's call
    tx,           \* the local variables of each session's call
    answer        \* what the session's last call returned

committed == <<request, steps>>
locks     == <<newRequest, requestLock, newSteps, stepLock>>
world     == <<chain, delegations, overdue>>
session   == <<pc, tx, answer>>
vars      == <<committed, locks, world, session>>

StepNos == {chain[r].step_no : r \in Rows}
RowsAt(n) == {r \in Rows : chain[r].step_no = n}

\* Only the columns a statement of these verbs may write.  `actor` is a
\* history field: the table has no column for who decided a row.
StepRow == [status : ApprovalStepStatus,
            assigned_to : Employees \union {Nobody},
            delegated_from : Employees \union {Nobody},
            actor : Employees \union {Nobody}]
RequestRow == [status : ApprovalStatus, current_step : Nat,
               decided_by : Employees \union {Nobody}, deleted : BOOLEAN]

UnreadRow == [status |-> "skipped", assigned_to |-> Nobody,
              delegated_from |-> Nobody, actor |-> Nobody]

Refusals == {"not_found", "not_pending", "self_approval_forbidden",
             "out_of_turn", "no_such_step", "not_step_approver",
             "not_requester", "step_not_overdue", "step_resolution_failed",
             "database_error"}
Answers  == ApprovalStatus \union Refusals \union {"none", "escalated"}
PCs == {"idle", "rows", "authorize", "choose", "mark", "reread", "skip",
        "count", "advance", "finish", "withdraw", "find", "escalate",
        "index", "commit"}

Locals == [verb : {"none", "decide", "withdraw", "escalate"},
           actor : Employees \union {Nobody},
           approve : BOOLEAN,
           step_no : Nat,
           seen : [Rows -> StepRow],    \* live_steps_at, as it was read
           unchecked : SUBSET Rows,     \* rows the authorization loop has left
           authorized : SUBSET Rows,
           row : Rows \union {NoRow},   \* the row chosen
           assignee : Employees \union {Nobody},  \* its assigned_to, as read
           target : Employees \union {Nobody},    \* whom to escalate to
           answer : Answers]            \* the status to return, so far

NoCall == [verb |-> "none", actor |-> Nobody, approve |-> FALSE, step_no |-> 0,
           seen |-> [r \in Rows |-> UnreadRow], unchecked |-> {},
           authorized |-> {}, row |-> NoRow, assignee |-> Nobody,
           target |-> Nobody, answer |-> "none"]

Init ==
    /\ chain \in Chains
    /\ request = [status |-> "pending", current_step |-> 1,
                  decided_by |-> Nobody, deleted |-> FALSE]
    /\ steps = [r \in Rows |-> [status |-> "pending",
                                assigned_to |-> chain[r].assigned_to,
                                delegated_from |-> chain[r].delegated_from,
                                actor |-> Nobody]]
    /\ newRequest = request
    /\ newSteps = steps
    /\ requestLock = NoTxn
    /\ stepLock = [r \in Rows |-> NoTxn]
    /\ delegations \in SUBSET Delegable
    /\ overdue = {}
    /\ pc = [t \in Txns |-> "idle"]
    /\ tx = [t \in Txns |-> NoCall]
    /\ answer = [t \in Txns |-> "none"]

-----------------------------------------------------------------------------
(* Statements and the ways a call goes on or ends.                         *)

\* What a SELECT of t returns: its own writes over the committed rows.
SeesStep(t, r) == IF stepLock[r] = t THEN newSteps[r] ELSE steps[r]
SeesRequest(t) == IF requestLock = t THEN newRequest ELSE request

Goto(t, label) == pc' = [pc EXCEPT ![t] = label]

Set(t, locals) == tx' = [tx EXCEPT ![t] = locals]

\* The call returns and the session is free for the next one.
Return(t, a) ==
    /\ Goto(t, "idle")
    /\ Set(t, NoCall)
    /\ answer' = [answer EXCEPT ![t] = a]

\* A call that has written nothing returns: its transaction has no effect.
ReturnUnchanged(t, a) == Return(t, a) /\ UNCHANGED <<committed, locks, world>>

\* UPDATE of one row that t has waited for.
WriteStep(t, r, row) ==
    /\ newSteps' = [newSteps EXCEPT ![r] = row]
    /\ stepLock' = [stepLock EXCEPT ![r] = t]

WriteRequest(t, row) ==
    /\ newRequest' = row
    /\ requestLock' = t

Commit(t) ==
    /\ pc[t] = "commit"
    /\ steps' = [r \in Rows |-> SeesStep(t, r)]
    /\ request' = SeesRequest(t)
    /\ stepLock' = [r \in Rows |-> IF stepLock[r] = t THEN NoTxn ELSE stepLock[r]]
    /\ requestLock' = IF requestLock = t THEN NoTxn ELSE requestLock
    /\ Return(t, tx[t].answer)
    /\ UNCHANGED <<newRequest, newSteps, world>>

\* The transaction is dropped or cancelled: PostgreSQL undoes its writes.
Rollback(t, a) ==
    /\ newSteps' = [r \in Rows |-> IF stepLock[r] = t THEN steps[r] ELSE newSteps[r]]
    /\ newRequest' = IF requestLock = t THEN request ELSE newRequest
    /\ stepLock' = [r \in Rows |-> IF stepLock[r] = t THEN NoTxn ELSE stepLock[r]]
    /\ requestLock' = IF requestLock = t THEN NoTxn ELSE requestLock
    /\ Return(t, a)
    /\ UNCHANGED <<committed, world>>

-----------------------------------------------------------------------------
(* decide *)

\* Early returns that let the requester decide.
ForgivingRefusal(actor, n) ==
    IF request.deleted THEN "not_found"
    ELSE IF request.status # "pending" THEN "not_pending"
    ELSE IF request.current_step # n THEN "out_of_turn"
    ELSE "none"

\* The early returns of decide, in their order; "none" lets the call on.
DecideRefusal(actor, n) ==
    IF request.deleted THEN "not_found"
    ELSE IF request.status # "pending" THEN "not_pending"
    ELSE IF actor = Requester THEN "self_approval_forbidden"
    ELSE IF request.current_step # n THEN "out_of_turn"
    ELSE "none"

\* BEGIN; get_request.
DecideRequest(t, actor, approve, n) ==
    /\ pc[t] = "idle"
    /\ IF DecideRefusal(actor, n) # "none"
       THEN ReturnUnchanged(t, DecideRefusal(actor, n))
       ELSE /\ Goto(t, "rows")
            /\ Set(t, [NoCall EXCEPT !.verb = "decide", !.actor = actor,
                                     !.approve = approve, !.step_no = n,
                                     !.answer = request.status])
            /\ answer' = [answer EXCEPT ![t] = "none"]
            /\ UNCHANGED <<committed, locks, world>>

\* live_steps_at.
DecideRows(t) ==
    /\ pc[t] = "rows"
    /\ LET rows == RowsAt(tx[t].step_no) IN
       IF rows = {} THEN ReturnUnchanged(t, "no_such_step")
       ELSE /\ Goto(t, "authorize")
            /\ Set(t, [tx[t] EXCEPT
                    !.seen = [r \in Rows |-> IF r \in rows THEN SeesStep(t, r)
                                             ELSE UnreadRow],
                    !.unchecked = rows])
            /\ UNCHANGED <<committed, locks, world, answer>>

\* The least assignee of a set of rows as t has read them (ORDER BY assigned_to).
First(t, r, rows) ==
    r \in rows /\ \A q \in rows : tx[t].seen[r].assigned_to <= tx[t].seen[q].assigned_to

\* actor_may_decide for the next row: the assignee, or a live window from them.
Authorize(t) ==
    /\ pc[t] = "authorize"
    /\ \E r \in Rows :
        /\ First(t, r, tx[t].unchecked)
        /\ LET assignee == tx[t].seen[r].assigned_to
               may == assignee = tx[t].actor \/ <<assignee, tx[t].actor>> \in delegations
           IN Set(t, [tx[t] EXCEPT !.unchecked = @ \ {r},
                                   !.authorized = IF may THEN @ \union {r} ELSE @])
        /\ Goto(t, IF tx[t].unchecked = {r} THEN "choose" ELSE "authorize")
    /\ UNCHANGED <<committed, locks, world, answer>>

\* The first authorized row that was read pending is the one to decide.
Choosable(t) == {r \in tx[t].authorized : tx[t].seen[r].status = "pending"}

Choose(t) ==
    /\ pc[t] = "choose"
    /\ \E r \in Rows :
        /\ First(t, r, Choosable(t))
        /\ Goto(t, "mark")
        /\ Set(t, [tx[t] EXCEPT !.row = r, !.assignee = tx[t].seen[r].assigned_to,
                                !.seen = NoCall.seen, !.authorized = {}])
    /\ UNCHANGED <<committed, locks, world, answer>>

\* No row to decide: the actor is nobody's deputy here, or has already answered.
ChooseNone(t) ==
    /\ pc[t] = "choose"
    /\ Choosable(t) = {}
    /\ ReturnUnchanged(t, IF tx[t].authorized = {} THEN "not_step_approver"
                          ELSE tx[t].answer)

\* A decision that leaves no stamp of the authority it used.
UnstampedDecided(t, r) ==
    [steps[r] EXCEPT !.status = IF tx[t].approve THEN "approved" ELSE "rejected",
                     !.actor = tx[t].actor]

\* mark_step_decided.  The WHERE asks for a pending row and for nothing else.
Decided(t, r) ==
    [steps[r] EXCEPT
        !.status = IF tx[t].approve THEN "approved" ELSE "rejected",
        !.delegated_from = IF tx[t].assignee = tx[t].actor THEN @ ELSE tx[t].assignee,
        !.actor = tx[t].actor]

AnyHolderRow(r) == chain[r].approver_kind \in AnyHolder

\* One approval settles any step, a quorum's too.
AlwaysSkipping(t) == "skip"

AfterMark(t) ==
    IF tx[t].approve /\ ~ AnyHolderRow(tx[t].row) THEN "count" ELSE "skip"

\* Without the row-truth predicate: any version of the row is overwritten.
BlindMark(t) ==
    /\ pc[t] = "mark"
    /\ stepLock[tx[t].row] = NoTxn
    /\ WriteStep(t, tx[t].row, Decided(t, tx[t].row))
    /\ Goto(t, AfterMark(t))
    /\ UNCHANGED <<committed, newRequest, requestLock, world, tx, answer>>

Mark(t) ==
    LET r == tx[t].row IN
    /\ pc[t] = "mark"
    /\ stepLock[r] = NoTxn
    /\ IF steps[r].status = "pending"
       THEN /\ WriteStep(t, r, Decided(t, r))
            /\ Goto(t, AfterMark(t))
       ELSE /\ Goto(t, "reread")
            /\ UNCHANGED <<newSteps, stepLock>>
    /\ UNCHANGED <<committed, newRequest, requestLock, world, tx, answer>>

\* A lost row answered with the verdict the caller wanted.
HopefulReread(t) ==
    /\ pc[t] = "reread"
    /\ Goto(t, "commit")
    /\ Set(t, [tx[t] EXCEPT !.answer = IF tx[t].approve THEN "approved" ELSE "rejected"])
    /\ UNCHANGED <<committed, locks, world, answer>>

\* A lost row tried again for as long as the request is pending.
RetryingReread(t) ==
    /\ pc[t] = "reread"
    /\ Goto(t, IF SeesRequest(t).status = "pending" THEN "mark" ELSE "commit")
    /\ Set(t, [tx[t] EXCEPT !.answer = SeesRequest(t).status])
    /\ UNCHANGED <<committed, locks, world, answer>>

\* get_request after a lost row or verdict; a row that is gone leaves the answer
\* the call had.
Reread(t) ==
    /\ pc[t] = "reread"
    /\ Goto(t, "commit")
    /\ Set(t, [tx[t] EXCEPT !.answer = IF SeesRequest(t).deleted THEN @
                                       ELSE SeesRequest(t).status])
    /\ UNCHANGED <<committed, locks, world, answer>>

\* A reject that skips the rows of its own step only.
StepSkipTargets(t) ==
    IF tx[t].verb = "withdraw" THEN Rows ELSE RowsAt(tx[t].step_no) \ {tx[t].row}

\* The rows skip_other_pending_steps (withdraw, reject) and
\* skip_sibling_pending_steps (approve) name, before their status is asked for.
SkipTargets(t) ==
    IF tx[t].verb = "withdraw" THEN Rows
    ELSE IF ~ tx[t].approve THEN Rows \ {tx[t].row}
    ELSE {r \in Rows \ {tx[t].row} :
             /\ chain[r].step_no = tx[t].step_no
             /\ chain[r].approver_kind = chain[tx[t].row].approver_kind
             /\ chain[r].approver_ref = chain[tx[t].row].approver_ref}

StillToSkip(t) == {r \in SkipTargets(t) : SeesStep(t, r).status = "pending"}

\* The UPDATE takes its rows one by one, in no particular order.
SkipRow(t) ==
    /\ pc[t] = "skip"
    /\ \E r \in StillToSkip(t) :
        /\ stepLock[r] = NoTxn
        /\ WriteStep(t, r, [steps[r] EXCEPT !.status = "skipped"])
    /\ UNCHANGED <<committed, newRequest, requestLock, world, session>>

SkipDone(t) ==
    /\ pc[t] = "skip"
    /\ StillToSkip(t) = {}
    /\ Goto(t, IF tx[t].verb = "withdraw" THEN "withdraw"
               ELSE IF tx[t].approve THEN "count" ELSE "finish")
    /\ UNCHANGED <<committed, locks, world, tx, answer>>

\* A chain that moves on without the countdown, ...
NoneRemaining(t) == {}

\* ... and a countdown run outside the transaction, which misses the own row.
CommittedRemaining(t) == {r \in RowsAt(tx[t].step_no) : steps[r].status = "pending"}

\* count_pending_steps_at, then max_step_no when nobody is left.
Remaining(t) == {r \in RowsAt(tx[t].step_no) : SeesStep(t, r).status = "pending"}

\* The last step is taken for the one before it.
PenultimateStep(n) == \A m \in StepNos : m <= n + 1

LastStep(n) == \A m \in StepNos : m <= n

Count(t) ==
    /\ pc[t] = "count"
    /\ Goto(t, IF Remaining(t) # {} THEN "commit"
               ELSE IF LastStep(tx[t].step_no) THEN "finish" ELSE "advance")
    /\ UNCHANGED <<committed, locks, world, tx, answer>>

\* Without the row-truth predicate: a verdict is overwritten.
NotDeleted == ~ request.deleted

\* The WHERE of every UPDATE of approval_requests.
StillPending == request.status = "pending" /\ ~ request.deleted

\* set_current_step.  None leaves the status the call read first.
Advance(t) ==
    /\ pc[t] = "advance"
    /\ requestLock = NoTxn
    /\ IF StillPending
       THEN /\ WriteRequest(t, [request EXCEPT !.current_step = tx[t].step_no + 1])
            /\ Set(t, [tx[t] EXCEPT !.answer = request.status])
       ELSE UNCHANGED <<newRequest, requestLock, tx>>
    /\ Goto(t, "commit")
    /\ UNCHANGED <<committed, newSteps, stepLock, world, answer>>

\* A verdict stamped with whose authority was used, not with who used it.
AssigneeFinish(t) ==
    LET verdict == IF tx[t].approve THEN "approved" ELSE "rejected" IN
    /\ pc[t] = "finish"
    /\ requestLock = NoTxn
    /\ WriteRequest(t, [request EXCEPT !.status = verdict,
                                       !.decided_by = tx[t].assignee])
    /\ Set(t, [tx[t] EXCEPT !.answer = verdict])
    /\ Goto(t, "commit")
    /\ UNCHANGED <<committed, newSteps, stepLock, world, answer>>

\* finish_request.  None sends a reject to re-read and leaves an approve with
\* the status it read first.
Finish(t) ==
    LET verdict == IF tx[t].approve THEN "approved" ELSE "rejected" IN
    /\ pc[t] = "finish"
    /\ requestLock = NoTxn
    /\ IF StillPending
       THEN /\ WriteRequest(t, [request EXCEPT !.status = verdict,
                                               !.decided_by = tx[t].actor])
            /\ Set(t, [tx[t] EXCEPT !.answer = verdict])
            /\ Goto(t, "commit")
       ELSE /\ UNCHANGED <<newRequest, requestLock>>
            /\ Set(t, [tx[t] EXCEPT !.answer = IF tx[t].approve THEN @ ELSE "rejected"])
            /\ Goto(t, IF tx[t].approve THEN "commit" ELSE "reread")
    /\ UNCHANGED <<committed, newSteps, stepLock, world, answer>>

-----------------------------------------------------------------------------
(* withdraw *)

\* A withdraw that does not ask whether the request is still pending.
AnytimeWithdrawRefusal(actor) ==
    IF request.deleted THEN "not_found"
    ELSE IF actor # Requester THEN "not_requester" ELSE "none"

WithdrawRefusal(actor) ==
    IF request.deleted THEN "not_found"
    ELSE IF actor # Requester THEN "not_requester"
    ELSE IF request.status # "pending" THEN "not_pending"
    ELSE "none"

\* BEGIN; get_request.  skip_other_pending_steps follows (SkipRow, SkipDone).
WithdrawRequest(t, actor) ==
    /\ pc[t] = "idle"
    /\ IF WithdrawRefusal(actor) # "none"
       THEN ReturnUnchanged(t, WithdrawRefusal(actor))
       ELSE /\ Goto(t, "skip")
            /\ Set(t, [NoCall EXCEPT !.verb = "withdraw", !.actor = actor])
            /\ answer' = [answer EXCEPT ![t] = "none"]
            /\ UNCHANGED <<committed, locks, world>>

\* withdraw_request.  None is answered "withdrawn" too: unwrap_or(Withdrawn).
WithdrawFinish(t) ==
    /\ pc[t] = "withdraw"
    /\ requestLock = NoTxn
    /\ IF StillPending
       THEN WriteRequest(t, [request EXCEPT !.status = "withdrawn", !.deleted = TRUE])
       ELSE UNCHANGED <<newRequest, requestLock>>
    /\ Set(t, [tx[t] EXCEPT !.answer = "withdrawn"])
    /\ Goto(t, "commit")
    /\ UNCHANGED <<committed, newSteps, stepLock, world, answer>>

-----------------------------------------------------------------------------
(* escalate_overdue_step *)

EscalateRefusal(n) ==
    IF request.deleted THEN "not_found"
    ELSE IF request.status # "pending" THEN "not_pending"
    ELSE IF request.current_step # n THEN "out_of_turn"
    ELSE "none"

EscalateRequest(t, n) ==
    /\ pc[t] = "idle"
    /\ IF EscalateRefusal(n) # "none"
       THEN ReturnUnchanged(t, EscalateRefusal(n))
       ELSE /\ Goto(t, "find")
            /\ Set(t, [NoCall EXCEPT !.verb = "escalate", !.step_no = n])
            /\ answer' = [answer EXCEPT ![t] = "none"]
            /\ UNCHANGED <<committed, locks, world>>

\* live_steps_at: the pending row with the least assignee.
FirstPending(t, r) ==
    LET pending == {q \in RowsAt(tx[t].step_no) : SeesStep(t, q).status = "pending"} IN
    /\ r \in pending
    /\ \A q \in pending : SeesStep(t, r).assigned_to <= SeesStep(t, q).assigned_to

\* No pending row, no breach, or nobody to ask (no org scope, a resolver's error, or
\* the head who is the assignee already): typed refusals.
EscalateNowhere(t) ==
    /\ pc[t] = "find"
    /\ \/ /\ \A r \in Rows : ~ FirstPending(t, r)
          /\ ReturnUnchanged(t, "no_such_step")
       \/ /\ \E r \in Rows : FirstPending(t, r)
          /\ tx[t].step_no \notin overdue
          /\ ReturnUnchanged(t, "step_not_overdue")
       \/ /\ \E r \in Rows : FirstPending(t, r)
          /\ tx[t].step_no \in overdue
          /\ ReturnUnchanged(t, "step_resolution_failed")

\* department_head_of, asked of the host's resolver; already the assignee: refused.
EscalateTo(t) ==
    /\ pc[t] = "find"
    /\ tx[t].step_no \in overdue
    /\ \E r \in Rows, head \in Heads :
        /\ FirstPending(t, r)
        /\ head # SeesStep(t, r).assigned_to
        /\ Set(t, [tx[t] EXCEPT !.row = r, !.target = head,
                                !.assignee = SeesStep(t, r).assigned_to])
    /\ Goto(t, "escalate")
    /\ UNCHANGED <<committed, locks, world, answer>>

\* escalate_step: the row must still be pending AND still with the old assignee.
EscalateRow(t) ==
    LET r == tx[t].row IN
    /\ pc[t] = "escalate"
    /\ stepLock[r] = NoTxn
    /\ IF steps[r].status = "pending" /\ steps[r].assigned_to = tx[t].assignee
       THEN /\ WriteStep(t, r, [steps[r] EXCEPT !.assigned_to = tx[t].target,
                                                !.delegated_from = Nobody])
            /\ Goto(t, "index")
            /\ UNCHANGED <<tx, answer, newRequest, requestLock, committed, world>>
       ELSE ReturnUnchanged(t, "not_pending")

\* The unique index on (request_id, step_no, assigned_to): the new key waits for
\* a transaction that holds a row with the same key, then must be alone.
KeyHeldBy(t, u) ==
    \E q \in RowsAt(tx[t].step_no) \ {tx[t].row} :
        /\ u # t /\ stepLock[q] = u
        /\ \/ steps[q].assigned_to = tx[t].target
           \/ newSteps[q].assigned_to = tx[t].target /\ pc[u] # "index"

\* A conflict that is answered while the transaction stays open.
LeakyEscalateIndex(t) ==
    /\ pc[t] = "index"
    /\ \A u \in Txns : ~ KeyHeldBy(t, u)
    /\ IF \E q \in RowsAt(tx[t].step_no) \ {tx[t].row} :
             steps[q].assigned_to = tx[t].target
       THEN ReturnUnchanged(t, "database_error")
       ELSE /\ Goto(t, "commit")
            /\ Set(t, [tx[t] EXCEPT !.answer = "escalated"])
            /\ UNCHANGED <<committed, locks, world, answer>>

EscalateIndex(t) ==
    /\ pc[t] = "index"
    /\ \A u \in Txns : ~ KeyHeldBy(t, u)
    /\ IF \E q \in RowsAt(tx[t].step_no) \ {tx[t].row} :
             steps[q].assigned_to = tx[t].target
       THEN Rollback(t, "database_error")
       ELSE /\ Goto(t, "commit")
            /\ Set(t, [tx[t] EXCEPT !.answer = "escalated"])
            /\ UNCHANGED <<committed, locks, world, answer>>

-----------------------------------------------------------------------------
(* What happens around the calls.                                          *)

\* The transactions whose locks the next statement of t waits for.
WaitsFor(t) ==
    CASE pc[t] \in {"mark", "escalate"} -> {stepLock[tx[t].row]} \ {NoTxn}
      [] pc[t] = "skip" -> {stepLock[r] : r \in StillToSkip(t)} \ {NoTxn}
      [] pc[t] \in {"advance", "finish", "withdraw"} -> {requestLock} \ {NoTxn}
      [] pc[t] = "index" -> {u \in Txns : KeyHeldBy(t, u)}
      [] OTHER -> {}

\* A circle of transactions that wait for each other: PostgreSQL's detector
\* cancels one of them, and the call fails with the database's error.
Deadlocked(t) ==
    \E circle \in SUBSET Txns :
        /\ t \in circle
        /\ \A u \in circle : /\ WaitsFor(u) \cap circle # {}
                             /\ \E w \in circle : u \in WaitsFor(w)

CancelDeadlocked(t) == Deadlocked(t) /\ Rollback(t, "database_error")

\* The connection is lost or the caller's future is dropped: at any await.
Abort(t) == pc[t] # "idle" /\ Rollback(t, "database_error")

\* The approver and the delegate bound in the wrong order.
SwappedDelegationStarts(p) ==
    /\ p \in Delegable \ delegations
    /\ delegations' = delegations \union {<<p[2], p[1]>>}
    /\ UNCHANGED <<committed, locks, session, chain, overdue>>

\* A window opens (create_delegation, valid_from) or closes (revoke, valid_to).
DelegationStarts(p) ==
    /\ p \in Delegable \ delegations
    /\ delegations' = delegations \union {p}
    /\ UNCHANGED <<committed, locks, session, chain, overdue>>

DelegationEnds(p) ==
    /\ p \in delegations
    /\ delegations' = delegations \ {p}
    /\ UNCHANGED <<committed, locks, session, chain, overdue>>

\* The rows of step n pass their sla_due_at.
SlaBreach(n) ==
    /\ n \in StepNos \ overdue
    /\ \E r \in RowsAt(n) : chain[r].sla
    /\ overdue' = overdue \union {n}
    /\ UNCHANGED <<committed, locks, session, chain, delegations>>

-----------------------------------------------------------------------------

Decide(t) == \/ DecideRows(t) \/ Authorize(t) \/ Choose(t) \/ ChooseNone(t)
             \/ Mark(t) \/ Reread(t) \/ Count(t) \/ Advance(t) \/ Finish(t)
Escalate(t) == \/ EscalateNowhere(t) \/ EscalateTo(t)
               \/ EscalateRow(t) \/ EscalateIndex(t)

\* The call in session t takes its next statement.
Proceed(t) == \/ Decide(t) \/ SkipRow(t) \/ SkipDone(t) \/ WithdrawFinish(t)
              \/ Escalate(t) \/ Commit(t) \/ CancelDeadlocked(t)

Call(t) == \/ \E actor \in Employees, approve \in BOOLEAN, n \in StepNos :
                  DecideRequest(t, actor, approve, n)
           \/ \E actor \in Employees : WithdrawRequest(t, actor)
           \/ \E n \in StepNos : EscalateRequest(t, n)

Environment == \/ \E p \in Delegable : DelegationStarts(p) \/ DelegationEnds(p)
               \/ \E n \in StepNos : SlaBreach(n)

Next == \/ \E t \in Txns : Call(t) \/ Proceed(t) \/ Abort(t)
        \/ Environment

Spec == Init /\ [][Next]_vars

\* The statements that wait for another transaction's row lock.
Contend(t) == \/ Mark(t) \/ SkipRow(t) \/ Advance(t) \/ Finish(t)
              \/ WithdrawFinish(t) \/ EscalateRow(t) \/ EscalateIndex(t)

\* A call that has started is run to its end (the server polls its future), and
\* PostgreSQL queues the waiters of a row lock, so that no waiter is passed over
\* for ever, and breaks every circle of waiters.
FairSpec == Spec /\ \A t \in Txns : WF_vars(Proceed(t)) /\ SF_vars(Contend(t))

-----------------------------------------------------------------------------
(* Properties.                                                             *)

\* The type invariant: columns, locks and locals hold what their types allow.
TypeOK ==
    /\ chain \in Chains
    /\ request \in RequestRow /\ newRequest \in RequestRow
    /\ steps \in [Rows -> StepRow] /\ newSteps \in [Rows -> StepRow]
    /\ requestLock \in Txns \union {NoTxn}
    /\ stepLock \in [Rows -> Txns \union {NoTxn}]
    /\ delegations \subseteq Delegable
    /\ overdue \subseteq StepNos
    /\ pc \in [Txns -> PCs]
    /\ tx \in [Txns -> Locals]
    /\ answer \in [Txns -> Answers]

\* A step is complete under the regime its rows came with: every row of a quorum
\* approved; of an any-holder group exactly one approved, the others skipped.
Complete(n) ==
    /\ \A r \in RowsAt(n) :
        IF AnyHolderRow(r) THEN steps[r].status \in {"approved", "skipped"}
                           ELSE steps[r].status = "approved"
    /\ \E r \in RowsAt(n) :
        /\ steps[r].status = "approved"
        /\ AnyHolderRow(r) =>
            \A q \in RowsAt(n) \ {r} : steps[q].status = "skipped"

\* A verdict is what the rows say (decide, withdraw): an approved request has
\* every step complete under its regime, a rejected one exactly one rejected row
\* and a withdrawn one none, neither with a pending row left behind.
VerdictMatchesRows ==
    LET of(status) == {r \in Rows : steps[r].status = status} IN
    /\ request.status = "approved" => \A n \in StepNos : Complete(n)
    /\ request.status = "rejected" =>
        of("pending") = {} /\ Cardinality(of("rejected")) = 1
    /\ request.status = "withdrawn" => of("pending") \union of("rejected") = {}

\* Steps are walked in order (set_current_step): while the request is pending
\* every step before the current one is complete, every later one untouched, and
\* no row is rejected.
ChainInOrder ==
    request.status = "pending" =>
        /\ request.current_step \in StepNos
        /\ \A n \in StepNos : n < request.current_step => Complete(n)
        /\ \A r \in Rows :
            /\ chain[r].step_no > request.current_step => steps[r].status = "pending"
            /\ steps[r].status # "rejected"

\* A transaction that has decided a row still owns the question when it reaches
\* the request: nobody can finish or advance the request over its row locks, so
\* the None branches of finish_request and set_current_step in decide are dead.
DeciderOwnsVerdict ==
    \A t \in Txns : pc[t] \in {"advance", "finish"} =>
        /\ StillPending
        /\ requestLock = NoTxn
        /\ request.current_step = tx[t].step_no

\* The verdict names who gave it (finish_request, mark_step_decided): whoever
\* decided the request decided a row with that verdict, an approval one of the last
\* step, and through delegations, escalations and races it is never the requester.
VerdictHasDecider ==
    request.status \in {"approved", "rejected"} =>
        /\ request.decided_by # Requester
        /\ \E r \in Rows :
            /\ steps[r].status = request.status
            /\ steps[r].actor = request.decided_by
            /\ request.status = "approved" => LastStep(chain[r].step_no)

\* What was decided stays decided: no later call rewrites a decided row or a
\* request that has its verdict, and the current step never goes back or skips.
DecisionsAreFinal ==
    [][/\ \A r \in Rows : steps[r].status # "pending" => steps'[r] = steps[r]
       /\ request.status # "pending" => request' = request
       /\ request'.current_step \in {request.current_step, request.current_step + 1}
      ]_vars

\* The call of t returns in this step with answer a.
Returns(t, a) == pc[t] # "idle" /\ pc'[t] = "idle" /\ answer'[t] = a

\* A verdict decide reports is the request's verdict when the call returns.
DecideReportsVerdict ==
    [][\A t \in Txns, a \in {"approved", "rejected"} :
            Returns(t, a) => request'.status = a]_vars

\* docs/approvals-engine.md:113-115 of withdraw_request: a None, someone else
\* having moved the chain first, makes the caller re-read the request.  So a
\* withdraw that answers "withdrawn" has withdrawn the request.
WithdrawReportsVerdict ==
    [][\A t \in Txns : Returns(t, "withdrawn") => request'.status = "withdrawn"]_vars

\* The comment of decide's lost-row branch: it reports how the request converged.
\* So a decision that answers "pending" leaves a request that was not withdrawn,
\* approved or rejected before it looked again.
LostDecisionReportsVerdict ==
    [][\A t \in Txns : pc[t] = "reread" /\ pc'[t] = "commit" =>
            tx'[t].answer = request.status]_vars

\* docs/approvals-engine.md:99: a quorum step advances when no live member row
\* remains pending.  So when no call is in flight, a pending request is asking
\* somebody: its current step has a pending row.
QuorumAdvances ==
    (\A t \in Txns : pc[t] = "idle") /\ request.status = "pending" =>
        \E r \in RowsAt(request.current_step) : steps[r].status = "pending"

\* docs/approvals-engine.md:86-91: the decider is the row's assigned_to, or holds
\* a delegation from that assignee and the row is stamped with it.  So the row
\* names its decider or whom the decider stood in for.
TrailNamesDecider ==
    \A r \in Rows : steps[r].actor # Nobody =>
        \/ steps[r].actor = steps[r].assigned_to
        \/ /\ steps[r].delegated_from = steps[r].assigned_to
           /\ <<steps[r].assigned_to, steps[r].actor>> \in Delegable

InFlight == {t \in Txns : pc[t] # "idle"}

\* Row locks never strand a call (mark_step_decided, the skips, finish_request,
\* escalate_step): whoever waits, waits for other calls still at work, never for a
\* lock that nobody will give back; and of any calls that wait for none but each
\* other, one can go on or stands in a circle that PostgreSQL's detector breaks.
NobodyIsStranded ==
    /\ \A t \in Txns : WaitsFor(t) \subseteq InFlight \ {t}
    /\ \A group \in (SUBSET InFlight) \ {{}} :
        (\A t \in group : WaitsFor(t) \subseteq group) =>
            \E t \in group : WaitsFor(t) = {} \/ Deadlocked(t)

\* The engine keeps the promise of ApprovalLifecycle: under the row locks, each
\* committed call is one of its steps.
Lifecycle == INSTANCE ApprovalLifecycle WITH
    stepNo <- [r \in Rows |-> chain[r].step_no],
    status <- request.status,
    level  <- request.current_step,
    open   <- {r \in Rows : steps[r].status = "pending"}

ImplementsLifecycle == Lifecycle!Spec

\* Every call returns, whatever locks the others hold: circles of row locks
\* (sibling skips, fail-fast skips, escalation) are broken and never hang a call.
CallsReturn == \A t \in Txns : pc[t] # "idle" ~> pc[t] = "idle"
=============================================================================
