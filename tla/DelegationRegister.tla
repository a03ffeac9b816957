------------------------- MODULE DelegationRegister -------------------------
(***************************************************************************)
(* What a delegation window is to everybody who relies on it: granted once *)
(* by its approver, to somebody else and for days in order, and revoked at *)
(* most once.  Nothing else ever happens to it.                            *)
(***************************************************************************)
EXTENDS Naturals

CONSTANTS Windows, Employees, Days

VARIABLES
    state,   \* of each window: "absent", "active" or "revoked"
    terms    \* who grants what to whom, once it is granted

register == <<state, terms>>

NoTerms == [approver_id |-> 0, delegate_to_id |-> 0, valid_from |-> 0, valid_to |-> 0]

Terms == {t \in [approver_id : Employees, delegate_to_id : Employees,
                 valid_from : Days, valid_to : Days] :
            t.approver_id # t.delegate_to_id /\ t.valid_from <= t.valid_to}

Init ==
    /\ state = [w \in Windows |-> "absent"]
    /\ terms = [w \in Windows |-> NoTerms]

Grant(w) ==
    /\ state[w] = "absent"
    /\ state' = [state EXCEPT ![w] = "active"]
    /\ terms'[w] \in Terms
    /\ terms' = [terms EXCEPT ![w] = terms'[w]]

Revoke(w) ==
    /\ state[w] = "active"
    /\ state' = [state EXCEPT ![w] = "revoked"]
    /\ UNCHANGED terms

Next == \E w \in Windows : Grant(w) \/ Revoke(w)

Spec == Init /\ [][Next]_register
=============================================================================
