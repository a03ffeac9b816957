---------------------------- MODULE Delegations ----------------------------
(***************************************************************************)
(* A delegation window: what the verbs refuse to write, which window lends *)
(* a delegate an approver's authority on a day, and what the engine's      *)
(* errors become over HTTP.                                                *)
(***************************************************************************)
EXTENDS Naturals

Nobody == 0      \* no employee: NULL, or a principal that resolves to none

\* A row of approvals.delegations, in the database it was written to.
WindowOf(databases, employees, days) ==
    {w \in [home : databases, approver_id : employees, delegate_to_id : employees,
            valid_from : days, valid_to : days, status : {"active", "revoked"}] :
        w.approver_id # w.delegate_to_id /\ w.valid_from <= w.valid_to}

\* A check that forgets the order of the days.
OnlySelfRefused(approver, delegate, valid_from, valid_to) ==
    IF approver = delegate THEN "self_delegation_refused" ELSE "none"

\* What create_delegation refuses before it opens a transaction.
CreationFault(approver, delegate, valid_from, valid_to) ==
    IF approver = delegate THEN "self_delegation_refused"
    ELSE IF valid_to < valid_from THEN "delegation_window_invalid"
    ELSE "none"

\* A window read without its status.
Spans(w, home, approver, delegate, day) ==
    /\ w.home = home
    /\ w.approver_id = approver
    /\ w.delegate_to_id = delegate
    /\ w.valid_from <= day /\ day <= w.valid_to

\* The WHERE of delegation_exists_for.
Lends(w, home, approver, delegate, day) ==
    /\ w.home = home
    /\ w.approver_id = approver
    /\ w.delegate_to_id = delegate
    /\ w.status = "active"
    /\ w.valid_from <= day /\ day <= w.valid_to

\* Database trouble called a conflict.
TroubleIsConflict(code) ==
    CASE code = "created" -> 201
      [] code \in {"revoked", "decided", "found"} -> 200
      [] code = "approval_request_not_found" -> 404
      [] code \in {"not_step_approver", "not_delegation_approver"} -> 403
      [] code \in {"delegation_not_active", "not_pending", "database_error"} -> 409
      [] code \in {"self_delegation_refused", "delegation_window_invalid",
                   "invalid_decision"} -> 422

\* http_status of the errors these verbs return, and the handlers' own codes.
http_status(code) ==
    CASE code = "created" -> 201
      [] code \in {"revoked", "decided", "found"} -> 200
      [] code = "approval_request_not_found" -> 404
      [] code \in {"not_step_approver", "not_delegation_approver"} -> 403
      [] code \in {"delegation_not_active", "not_pending"} -> 409
      [] code \in {"self_delegation_refused", "delegation_window_invalid",
                   "invalid_decision"} -> 422
      [] code = "database_error" -> 500

Codes == {"created", "revoked", "decided", "found", "approval_request_not_found",
          "not_step_approver", "not_delegation_approver", "delegation_not_active",
          "self_delegation_refused", "delegation_window_invalid", "invalid_decision",
          "not_pending", "database_error"}
=============================================================================
