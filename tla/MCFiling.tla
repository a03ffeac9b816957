------------------------------ MODULE MCFiling ------------------------------
(***************************************************************************)
(* One policy and a few chains for the model checker.  Employee 1 files,   *)
(* 2, 3 and 4 are asked, 3 may deputise for 2.                             *)
(***************************************************************************)
EXTENDS FilingInv, TLC

CONSTANTS p1

Template(n, kind, ref) ==
    [step_no |-> n, approver_kind |-> kind, approver_ref |-> ref,
     quorum |-> "absent", all_of |-> <<>>, sla |-> FALSE]

AllOf(n, members) ==
    [Template(n, "specific_employee", NoRef) EXCEPT !.quorum = "members", !.all_of = members]

\* A quorum of an approver and the approver's deputy, then the holders of role 9.
Quorum == <<AllOf(1, <<2, 3>>), Template(2, "role", 9)>>

\* A chain somebody has edited half way: step 2 is missing.
Gap == <<Template(1, "specific_employee", 4), Template(3, "manager_of_requester", NoRef)>>

\* A role step that names no role.
NoRole == <<Template(1, "role", NoRef)>>

\* One step for the head of the requester's department.
ByHead == <<Template(1, "department_head", NoRef)>>

MCEmployees  == 1..4
MCDelegable  == {<<2, 3>>}
MCChains     == {Quorum, Gap, NoRole}
MCAnswers    == {<<>>, <<4>>, <<3, 4>>}
MCSymmetry   == Permutations(Filers) \union Permutations(Ids)

\* For the runs about one step only.
MCByHead     == {ByHead}
MCHeads      == {<<1>>, <<4>>}
MCNone       == {}
=============================================================================
