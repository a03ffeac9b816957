-------------------------- MODULE MCDecisionEngine --------------------------
(***************************************************************************)
(* Small chains for the model checker.  Employee 1 filed the request, 2, 3 *)
(* and 4 approve; 4 is also the department head and 3 may deputise for 2.  *)
(***************************************************************************)
EXTENDS DecisionEngineInv, TLC

CONSTANTS r1, r2, r3

Row(n, kind, ref, assignee, sla) ==
    [step_no |-> n, approver_kind |-> kind, approver_ref |-> ref,
     assigned_to |-> assignee, delegated_from |-> Nobody,
     sla |-> sla]

\* Two members of an all_of quorum, then one approver.
Quorum == r1 :> Row(1, "specific_employee", 2, 2, TRUE) @@
          r2 :> Row(1, "specific_employee", 3, 3, TRUE) @@
          r3 :> Row(2, "manager_of_requester", Nobody, 4, FALSE)

\* One approver (to whom 4 had delegated at filing time), then two role holders.
Holders == r1 :> [Row(1, "specific_employee", 4, 2, FALSE) EXCEPT !.delegated_from = 4] @@
           r2 :> Row(2, "role", 9, 3, TRUE) @@
           r3 :> Row(2, "role", 9, 4, TRUE)

MCEmployees == 1..4
MCDelegable == {<<2, 3>>}
MCNone      == {}
MCChains    == {Quorum, Holders}

\* Chains of one step with two rows: a quorum, and a group of which any decides.
Pair(kind, a, b) == r1 :> Row(1, kind, a, 2, TRUE) @@ r2 :> Row(1, kind, b, 3, TRUE)
MCPairs == {Pair("specific_employee", 2, 3), Pair("position", 9, 9)}

\* The sessions are interchangeable.
MCSymmetry == Permutations(Txns)
=============================================================================
