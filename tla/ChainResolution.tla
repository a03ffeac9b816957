-------------------------- MODULE ChainResolution --------------------------
(***************************************************************************)
(* How a policy's step templates become the rows of a chain: what          *)
(* `resolve_members` makes of one template, `apply_delegation` of one      *)
(* member and `validate_chain` of the whole, and what `preview_chain` says *)
(* of a step.  Everything here is a function of what the template, the     *)
(* host's ApproverResolver and the delegation windows say.                 *)
(***************************************************************************)
EXTENDS ApprovalChain, Sequences

NoRef == 0       \* SQL NULL in approver_ref

\* A live template.  Nothing in the schema bounds step_no: 0 stands for every number
\* below 1.  all_of is JSON: absent, malformed (not an array, or an element that is no
\* id), or an array of ids.
TemplateOf(employees) ==
    [step_no : Nat, approver_kind : ApproverKind, approver_ref : Nat,
     quorum : {"absent", "malformed", "members"}, all_of : Seq(employees),
     sla : BOOLEAN]

\* The kinds whose template names somebody in approver_ref.
NeedsRef == {"specific_employee", "role", "position"}

\* Whether the resolver has to be asked.
Dynamic(t) == t.quorum = "absent" /\ t.approver_kind # "specific_employee"

\* The refusals of resolve_members that need neither a scope nor the resolver.
TemplateRefusal(t) ==
    IF t.quorum = "malformed" \/ (t.quorum = "members" /\ t.all_of = <<>>)
        THEN "invalid_quorum"
    ELSE IF t.quorum = "absent" /\ t.approver_kind \in NeedsRef /\ t.approver_ref = NoRef
        THEN "missing_approver_ref"
    ELSE "none"

Member(t, kind, ref, employee) ==
    [step_no |-> t.step_no, approver_kind |-> kind, approver_ref |-> ref,
     assigned_to |-> employee, delegated_from |-> Nobody, sla |-> t.sla]

\* The members of a template the code does not refuse; `named` is what the resolver
\* answers: one employee for a manager or head, every holder of a role or position.
Members(t, named) ==
    IF t.quorum = "members"
    THEN [i \in DOMAIN t.all_of |->
            Member(t, "specific_employee", t.all_of[i], t.all_of[i])]
    ELSE IF t.approver_kind = "specific_employee"
    THEN <<Member(t, "specific_employee", t.approver_ref, t.approver_ref)>>
    ELSE [i \in DOMAIN named |->
            Member(t, t.approver_kind,
                   IF t.approver_kind \in NeedsRef THEN t.approver_ref ELSE NoRef, named[i])]

\* apply_delegation: the row goes to a delegate who has a live window, if there is one.
Delegated(m, delegate) ==
    [m EXCEPT !.assigned_to = delegate, !.delegated_from = m.assigned_to]

\* The step numbers of a sequence of templates or rows.
Numbers(list) == {list[i].step_no : i \in DOMAIN list}

\* Rows that are compared before the delegations are applied.
ApproverOf(row) == IF row.delegated_from = Nobody THEN row.assigned_to
                                                  ELSE row.delegated_from

\* validate_chain that forgets the delegates.
AcceptsBeforeDelegation(templates, rows) ==
    /\ \E max \in Numbers(templates) : Numbers(templates) = 1..max
    /\ Numbers(templates) \subseteq Numbers(rows)
    /\ \A i, j \in DOMAIN rows :
            i # j /\ rows[i].step_no = rows[j].step_no =>
                ApproverOf(rows[i]) # ApproverOf(rows[j])

\* validate_chain: numbers 1..max, a member at each, and nobody twice in a step.
Accepts(templates, rows) ==
    /\ \E max \in Numbers(templates) : Numbers(templates) = 1..max
    /\ Numbers(templates) \subseteq Numbers(rows)
    /\ \A i, j \in DOMAIN rows :
            i # j /\ rows[i].step_no = rows[j].step_no =>
                rows[i].assigned_to # rows[j].assigned_to

\* preview_chain of a step: `list` is whom it would be assigned to, in order.
StepProblem(list, requester) ==
    IF list = <<>> THEN "no_approver"
    ELSE IF \E i \in DOMAIN list : list[i].assigned_to = requester
        THEN "requester_decides"
    ELSE IF \E i, j \in DOMAIN list : i # j /\ list[i].assigned_to = list[j].assigned_to
        THEN "same_approver_twice"
    ELSE "none"
=============================================================================
