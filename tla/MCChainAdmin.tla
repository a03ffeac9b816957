---------------------------- MODULE MCChainAdmin ----------------------------
(***************************************************************************)
(* One policy and a few proposals for the model checker: chains of one and *)
(* two steps, and one for every fault check_chain names.                   *)
(***************************************************************************)
EXTENDS ChainAdminInv, TLC

By(kind, ref) ==
    [approver_kind |-> kind, approver_ref |-> ref, quorum |-> "absent",
     all_of |-> <<>>, sla_hours |-> "absent"]

AllOf(members) ==
    [By("specific_employee", NoRef) EXCEPT !.quorum = "members", !.all_of = members]

Head1  == By("department_head", NoRef)
Urgent == [By("role", 9) EXCEPT !.sla_hours = "positive"]

Short == <<Urgent>>
Long  == <<Head1, AllOf(<<1, 2>>)>>

Faulty == {<<>>,
           <<Head1, Head1, Head1>>,
           <<AllOf(<<1, 1>>)>>,
           <<AllOf(<<>>)>>,
           <<Head1, By("role", NoRef)>>,
           <<[Urgent EXCEPT !.sla_hours = "not_positive"]>>}

MCEmployees   == 1..2
MCProposals   == {Short, Long} \union Faulty
MCEditedSteps == {By("position", 8)}
MCNumbers     == {1, 2}
MCSymmetry    == Permutations(Admins) \union Permutations(Rows)

=============================================================================
