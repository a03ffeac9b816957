----------------------------- MODULE FilingInv -----------------------------
(***************************************************************************)
(* Why filing keeps its promises: the inductive invariant behind them.     *)
(* Filing_proofs proves it, TLC checks it on the chains of MCFiling.       *)
(***************************************************************************)
EXTENDS Filing

\* The statements a filing reaches only with its row in the index.
Inserted == {"templates", "resolve", "delegate", "commit"}

\* Only a pending request is being decided; one open filing at most has its row in
\* the index, and then no committed request holds the resource.
IndexGuards ==
    /\ \A i \in Ids : deciding[i] # "none" => requests[i].status = "pending"
    /\ \A t \in Filers : HasInserted(t) <=> pc[t] \in Inserted
    /\ \A t, u \in Filers : HasInserted(t) /\ HasInserted(u) => t = u
    /\ \A t \in Filers, i \in Ids : HasInserted(t) => ~ Holding(i)
    /\ OneHolder

\* A filing at statement `label` with locals `l` has lost every lap but the current one
\* to a filing that has committed since it began, and so it has the current one once
\* somebody holds the resource behind its lookup.
LapLost(label, l) ==
    label # "idle" =>
        /\ l.lap \in 1..FileAttempts
        /\ l.overtaken >= l.lap - 1
        /\ label \in {"policy", "insert"} /\ (\E i \in Ids : Holding(i)) =>
                l.overtaken >= l.lap

LapsLost == \A t \in Filers : LapLost(pc[t], tx[t])

\* A row or member carries the marks of the template it was resolved from.
ResolvedFrom(row, template) ==
    /\ row.step_no = template.step_no
    /\ row.sla = template.sla
    /\ row.approver_kind = IF template.quorum = "members" THEN "specific_employee"
                                                          ELSE template.approver_kind
    /\ row.approver_kind \in AnyHolder => row.approver_ref = template.approver_ref

AllFrom(rows, chain) ==
    \A k \in DOMAIN rows : \E j \in DOMAIN chain : ResolvedFrom(rows[k], chain[j])

\* The rows resolved so far come from the templates read, and at the commit they have
\* passed validate_chain.
ChainResolved(label, l) ==
    /\ AllFrom(l.rows, l.templates)
    /\ AllFrom(l.members, l.templates)
    /\ label = "delegate" => l.members # <<>>
    /\ label \in {"templates", "resolve", "delegate"} => l.policy # NoPolicy
    /\ label \in {"resolve", "delegate"} => l.templates \in ChainsOf
    /\ label \in {"idle", "find", "policy", "insert", "templates"} \/ l.policy = NoPolicy =>
            l.rows = <<>> /\ l.members = <<>>
    /\ label = "commit" /\ l.policy # NoPolicy =>
            l.templates \in ChainsOf /\ Accepts(l.templates, l.rows)

ChainInProgress == \A t \in Filers : ChainResolved(pc[t], tx[t])

\* The inductive invariant.
FilingDiscipline == IndexGuards /\ LapsLost /\ ChainInProgress /\ FiledWhole
=============================================================================
