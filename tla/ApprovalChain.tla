--------------------------- MODULE ApprovalChain ---------------------------
(***************************************************************************)
(* The chain of step rows behind one request: what filing materialises     *)
(* from a policy's templates and the decision engine walks.                *)
(***************************************************************************)
EXTENDS Naturals

Nobody == 0      \* SQL NULL in a column that holds an employee

ApproverKind == {"specific_employee", "manager_of_requester",
                 "department_head", "role", "position"}

\* The kinds of which any one holder decides for the whole group.
AnyHolder == {"role", "position"}

\* A row as filing leaves it: its place in the chain and its first assignee.
ChainRowOf(numbers, employees) ==
    [step_no : numbers, approver_kind : ApproverKind,
     approver_ref : Nat,
     assigned_to : employees,
     delegated_from : employees \union {Nobody},
     sla : BOOLEAN]                       \* sla_due_at is stamped

\* What validate_chain and the one live template per step number leave of a
\* chain: steps 1..max without a gap, one assignee once per step, and one
\* template (kind, clock, and ref for a role or position) behind the rows of a step.
Walkable(c) ==
    /\ \E max \in {c[r].step_no : r \in DOMAIN c} :
            {c[r].step_no : r \in DOMAIN c} = 1..max
    /\ \A q, r \in DOMAIN c : q # r /\ c[q].step_no = c[r].step_no =>
            /\ c[q].assigned_to # c[r].assigned_to
            /\ c[q].approver_kind = c[r].approver_kind
            /\ c[q].sla = c[r].sla
            /\ c[q].approver_kind \in AnyHolder =>
                    c[q].approver_ref = c[r].approver_ref
=============================================================================
