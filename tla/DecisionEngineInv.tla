------------------------- MODULE DecisionEngineInv -------------------------
(***************************************************************************)
(* Why the engine's safety properties hold: the inductive invariants       *)
(* behind them, in terms of which row locks a call holds at each of its    *)
(* statements.  DecisionEngine_proofs and DecisionEngineVerdict_proofs     *)
(* prove them, TLC checks them on the chains of MCDecisionEngine.  Those   *)
(* of the last section hold where two verbs do not overlap, and are proved *)
(* in DecisionEngineRaces_proofs.                                          *)
(***************************************************************************)
EXTENDS DecisionEngine

\* The statements before which a call may have written a row.
Writing == {"skip", "count", "advance", "finish", "withdraw", "index", "commit"}

\* A row has an uncommitted version only while its writer is still at work, and
\* only a row whose committed version is pending is ever written.
RowLocks ==
    \A r \in Rows :
        /\ stepLock[r] = NoTxn => newSteps[r] = steps[r]
        /\ stepLock[r] # NoTxn =>
            steps[r].status = "pending" /\ pc[stepLock[r]] \in Writing

\* To t, none of these rows is pending: every row of them that is pending in the
\* committed table has been written by t.
Settled(t, rows) == \A r \in rows : SeesStep(t, r).status # "pending"

\* The request has an uncommitted version only behind a call that has settled
\* the rows the new version speaks for, and is about to commit.
RequestLocked ==
    /\ requestLock = NoTxn => newRequest = request
    /\ requestLock # NoTxn =>
        /\ pc[requestLock] = "commit"
        /\ StillPending
        /\ \/ /\ newRequest = [request EXCEPT !.current_step = @ + 1]
              /\ newRequest.current_step \in StepNos
              /\ Settled(requestLock, RowsAt(request.current_step))
           \/ /\ newRequest.status # "pending"
              /\ newRequest.current_step = request.current_step
              /\ Settled(requestLock, Rows)

\* The call decides: it stands at a statement of decide.
Deciding(t) ==
    \/ pc[t] \in {"rows", "authorize", "choose", "mark", "reread", "count",
                  "advance", "finish"}
    \/ pc[t] = "skip" /\ tx[t].verb = "decide"

\* It has decided its row.
HasDecided(t) == Deciding(t) /\ pc[t] \in {"skip", "count", "advance", "finish"}

\* What a call knows at each of its statements.
CallKnows(t) ==
    /\ Deciding(t) => /\ tx[t].verb = "decide"
                      /\ tx[t].step_no \in StepNos
                      /\ tx[t].step_no <= request.current_step
    /\ pc[t] = "skip" => tx[t].verb \in {"decide", "withdraw"}
    /\ pc[t] \in {"rows", "authorize", "choose"} =>
            tx[t].unchecked \union tx[t].authorized \subseteq RowsAt(tx[t].step_no)
    /\ pc[t] \in {"mark", "escalate", "index"} => tx[t].row \in RowsAt(tx[t].step_no)
    /\ HasDecided(t) =>
            /\ tx[t].row \in RowsAt(tx[t].step_no)
            /\ stepLock[tx[t].row] = t
            /\ newSteps[tx[t].row].status # "pending"
    /\ pc[t] \in {"count", "advance"} => tx[t].approve
    /\ pc[t] \in {"advance", "finish"} => Settled(t, RowsAt(tx[t].step_no))
    /\ pc[t] = "advance" => tx[t].step_no + 1 \in StepNos
    /\ pc[t] = "finish" => LastStep(tx[t].step_no) \/ Settled(t, Rows)
    /\ pc[t] = "withdraw" => Settled(t, Rows)

\* In the committed tables a pending request asks a step behind which nothing is
\* pending, and a request with a verdict has left no row pending.
Walked ==
    /\ request.status = "pending" =>
        /\ ~ request.deleted
        /\ request.current_step \in StepNos
        /\ \A r \in Rows : chain[r].step_no < request.current_step =>
                steps[r].status # "pending"
    /\ request.status # "pending" => \A r \in Rows : steps[r].status # "pending"

\* The inductive invariant: the row locks of a call are all it takes for what it
\* has read of the chain to stay true until it commits.
LockDiscipline ==
    /\ RowLocks
    /\ RequestLocked
    /\ \A t \in Txns : CallKnows(t)
    /\ Walked

-----------------------------------------------------------------------------
(* What the rows a call has written say about the verdict it will publish. *)

VerdictOf(t) == IF tx[t].approve THEN "approved" ELSE "rejected"

\* The row the call decides is its own, and stands at the call's step.
OwnsRow(t) == tx[t].row \in RowsAt(tx[t].step_no) /\ stepLock[tx[t].row] = t

\* A version t has written of row r: moved to another assignee, skipped by a
\* withdrawal, the decided row itself, or one of the rows a verdict skips.
RowTells(t, r) ==
    \/ tx[t].verb = "escalate" /\ newSteps[r].status = "pending"
    \/ tx[t].verb = "withdraw" /\ newSteps[r].status = "skipped"
    \/ /\ tx[t].verb = "decide" /\ OwnsRow(t) /\ r = tx[t].row
       /\ newSteps[r].status = VerdictOf(t)
       /\ newSteps[r].actor = tx[t].actor
    \/ /\ tx[t].verb = "decide" /\ OwnsRow(t) /\ r # tx[t].row
       /\ newSteps[r].status = "skipped"
       /\ tx[t].approve => AnyHolderRow(tx[t].row) /\ r \in RowsAt(tx[t].step_no)

\* The version t has written of the request.
RequestTells(t) ==
    \/ tx[t].verb = "withdraw" /\ newRequest.status = "withdrawn"
    \/ /\ tx[t].verb = "decide" /\ OwnsRow(t)
       /\ \/ tx[t].approve /\ newRequest = [request EXCEPT !.current_step = @ + 1]
          \/ /\ newRequest = [request EXCEPT !.status = VerdictOf(t),
                                             !.decided_by = tx[t].actor]
             /\ tx[t].approve => LastStep(tx[t].step_no)

\* Where t stands in its call, as far as its writes depend on it.
CallTells(t) ==
    /\ tx[t].verb = "decide" => /\ tx[t].actor \in Employees \ {Requester}
                                /\ tx[t].step_no <= request.current_step
    /\ pc[t] \in {"find", "escalate", "index"} => tx[t].verb = "escalate"
    /\ pc[t] = "withdraw" => tx[t].verb = "withdraw"
    /\ Deciding(t) /\ pc[t] = "skip" /\ tx[t].approve => AnyHolderRow(tx[t].row)
    /\ pc[t] = "count" /\ AnyHolderRow(tx[t].row) => Settled(t, RowsAt(tx[t].step_no))
    /\ pc[t] = "finish" /\ tx[t].approve => LastStep(tx[t].step_no)
    /\ pc[t] = "commit" /\ requestLock # t => \A r \in Rows : stepLock[r] = t =>
            \/ tx[t].verb = "escalate"
            \/ tx[t].verb = "decide" /\ tx[t].approve /\ ~ AnyHolderRow(tx[t].row)
    /\ tx[t].answer \in {"approved", "rejected"} =>
            pc[t] = "commit" /\ SeesRequest(t).status = tx[t].answer

Tells(t) ==
    /\ CallTells(t)
    /\ \A r \in Rows : stepLock[r] = t => RowTells(t, r)
    /\ requestLock = t => RequestTells(t)

\* While the request is pending, nobody has answered at an any-holder step, and
\* members of a quorum have only approved: a step is decided by one commit or by
\* as many as it has rows.
CurrentStepIsOpen ==
    request.status = "pending" =>
        \A r \in RowsAt(request.current_step) :
            steps[r].status \in IF AnyHolderRow(r) THEN {"pending"}
                                ELSE {"pending", "approved"}

\* The inductive invariant behind the verdicts: what is committed is in order,
\* and what is about to be committed keeps it so.
Evidence ==
    /\ \A t \in Txns : Tells(t)
    /\ ChainInOrder
    /\ CurrentStepIsOpen
    /\ VerdictMatchesRows
    /\ VerdictHasDecider

-----------------------------------------------------------------------------
(* What the runs that find a property violated turn on: which verbs have   *)
(* to be in flight at once.  Without that overlap each property holds, by  *)
(* an inductive invariant of its own.                                      *)

\* No call of verb v is in flight together with another session's call of verb w.
Apart(v, w) == \A t, u \in Txns : t # u => ~ (tx[t].verb = v /\ tx[u].verb = w)

\* No step needs two answers: a quorum has one member, the others take any holder's.
SoloSteps ==
    \A r, q \in Rows : chain[r].step_no = chain[q].step_no /\ ~ AnyHolderRow(r) => r = q

\* A pending request asks somebody.
Asked ==
    request.status = "pending" =>
        \E r \in RowsAt(request.current_step) : steps[r].status = "pending"

\* A decision about to be committed without the request has left a row of its step
\* pending.
LeavesAsked(t) ==
    /\ pc[t] = "commit" /\ tx[t].verb = "decide" /\ OwnsRow(t) /\ requestLock # t
    /\ request.status = "pending"
    => \E r \in RowsAt(tx[t].step_no) : SeesStep(t, r).status = "pending"

StepStaysAsked == Asked /\ \A t \in Txns : LeavesAsked(t)

\* A row that names its decider, or whom the decider stood in for.
NamesDecider(row) ==
    row.actor # Nobody =>
        \/ row.actor = row.assigned_to
        \/ /\ row.delegated_from = row.assigned_to
           /\ <<row.assigned_to, row.actor>> \in Delegable

\* Only a decided row has a decider.
Undecided(row) == row.status = "pending" => row.actor = Nobody

\* The actor is the assignee, or a window may have lent them the assignee's authority.
MayStandFor(actor, assignee) == assignee = actor \/ <<assignee, actor>> \in Delegable

\* What decide has read of its step's assignees is still so.
ReadStands(t) ==
    /\ pc[t] = "rows" => tx[t].authorized = {}
    /\ pc[t] \in {"authorize", "choose"} =>
        /\ \A r \in tx[t].unchecked \union tx[t].authorized :
                tx[t].seen[r].assigned_to = steps[r].assigned_to
        /\ \A r \in tx[t].authorized :
                MayStandFor(tx[t].actor, tx[t].seen[r].assigned_to)
    /\ pc[t] = "mark" =>
        /\ tx[t].assignee = steps[tx[t].row].assigned_to
        /\ MayStandFor(tx[t].actor, tx[t].assignee)

\* Only an escalation moves a row to another assignee.
KeepsAssignees(t) ==
    tx[t].verb # "escalate" =>
        \A r \in Rows : stepLock[r] = t => newSteps[r].assigned_to = steps[r].assigned_to

AssigneeStands ==
    /\ \A r \in Rows : /\ NamesDecider(steps[r]) /\ NamesDecider(newSteps[r])
                       /\ Undecided(steps[r]) /\ Undecided(newSteps[r])
    /\ \A t \in Txns : KeepsAssignees(t) /\ ReadStands(t)

\* A request is deleted by its withdrawal and by nothing else; what a withdrawal races
\* with is another withdrawal, and a decision never meets a deleted request.
DeletedIsWithdrawn(row) == row.deleted <=> row.status = "withdrawn"

\* What a call that has started may rely on, and answer.
MeetsNoWithdrawal(t) ==
    /\ tx[t].verb = "withdraw" => request.status \in {"pending", "withdrawn"}
    /\ tx[t].verb = "decide" => ~ request.deleted
    /\ tx[t].answer = "withdrawn" =>
        pc[t] = "commit" /\ SeesRequest(t).status = "withdrawn"

WithdrawnAlone ==
    /\ DeletedIsWithdrawn(request) /\ DeletedIsWithdrawn(newRequest)
    /\ \A t \in Txns : MeetsNoWithdrawal(t)
=============================================================================
