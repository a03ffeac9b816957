----------------------- MODULE DecisionEngine_proofs -----------------------
(***************************************************************************)
(* What TLAPS proves about the decision engine, for every set of sessions, *)
(* rows and employees, and every valid chain.                              *)
(***************************************************************************)
EXTENDS DecisionEngineInv, TLAPS

-----------------------------------------------------------------------------
(* Type correctness.                                                       *)

\* The locals of an idle session are well typed.
LEMMA NoCallType == NoCall \in Locals
  BY EmployeeAssumption, RowAssumption
  DEF NoCall, Locals, Nobody, UnreadRow, StepRow, Answers, Refusals,
      ApprovalStatus, ApprovalStepStatus

\* What a SELECT returns is a row.
LEMMA SeenType ==
  ASSUME TypeOK, NEW t \in Txns
  PROVE  /\ SeesRequest(t) \in RequestRow
         /\ \A r \in Rows : SeesStep(t, r) \in StepRow
  BY DEF TypeOK, SeesRequest, SeesStep

\* Returning keeps the session well typed.
LEMMA ReturnType ==
  ASSUME TypeOK, NEW t \in Txns, NEW a \in Answers, Return(t, a)
  PROVE  pc' \in [Txns -> PCs] /\ tx' \in [Txns -> Locals] /\ answer' \in [Txns -> Answers]
  BY NoCallType DEF TypeOK, Return, Goto, Set, PCs

LEMMA ReturnUnchangedType ==
  ASSUME TypeOK, NEW t \in Txns, NEW a \in Answers, ReturnUnchanged(t, a)
  PROVE  TypeOK'
  BY ReturnType
  DEF TypeOK, ReturnUnchanged, committed, locks, world, StepNos

LEMMA RollbackType ==
  ASSUME TypeOK, NEW t \in Txns, NEW a \in Answers, Rollback(t, a)
  PROVE  TypeOK'
  <1>1. pc' \in [Txns -> PCs] /\ tx' \in [Txns -> Locals] /\ answer' \in [Txns -> Answers]
    BY ReturnType DEF Rollback
  <1>2. /\ newRequest' \in RequestRow
        /\ newSteps' \in [Rows -> StepRow]
        /\ requestLock' \in Txns \union {NoTxn}
        /\ stepLock' \in [Rows -> Txns \union {NoTxn}]
    BY DEF TypeOK, Rollback
  <1> QED BY <1>1, <1>2 DEF TypeOK, Rollback, committed, world, StepNos

LEMMA CommitType ==
  ASSUME TypeOK, NEW t \in Txns, Commit(t)
  PROVE  TypeOK'
  <1>1. pc' \in [Txns -> PCs] /\ tx' \in [Txns -> Locals] /\ answer' \in [Txns -> Answers]
    BY ReturnType DEF Commit, TypeOK, Locals
  <1>2. /\ request' \in RequestRow
        /\ steps' \in [Rows -> StepRow]
        /\ requestLock' \in Txns \union {NoTxn}
        /\ stepLock' \in [Rows -> Txns \union {NoTxn}]
    BY SeenType DEF TypeOK, Commit
  <1> QED BY <1>1, <1>2 DEF TypeOK, Commit, world, StepNos

\* Moving on with new locals keeps the session well typed.
LEMMA SessionType ==
  ASSUME TypeOK, NEW t \in Txns, NEW label \in PCs, NEW locals \in Locals,
         Goto(t, label), Set(t, locals)
  PROVE  pc' \in [Txns -> PCs] /\ tx' \in [Txns -> Locals]
  BY DEF TypeOK, Goto, Set

LEMMA DecideRequestType ==
  ASSUME TypeOK, NEW t \in Txns, NEW actor \in Employees, NEW approve \in BOOLEAN,
         NEW n \in StepNos, DecideRequest(t, actor, approve, n)
  PROVE  TypeOK'
  <1>1. CASE DecideRefusal(actor, n) # "none"
    <2>1. DecideRefusal(actor, n) \in Answers
      BY DEF DecideRefusal, Answers, Refusals
    <2> QED BY <1>1, <2>1, ReturnUnchangedType DEF DecideRequest
  <1>2. CASE DecideRefusal(actor, n) = "none"
    <2> DEFINE locals == [NoCall EXCEPT !.verb = "decide", !.actor = actor,
                             !.approve = approve, !.step_no = n, !.answer = request.status]
    <2>1. locals \in Locals
      <3>1. n \in Nat
        BY ChainAssumption DEF TypeOK, StepNos, ValidChain, ChainRow, ChainRowOf
      <3>2. request.status \in Answers
        BY DEF TypeOK, RequestRow, Answers
      <3> QED BY <3>1, <3>2, NoCallType DEF Locals, NoCall
    <2>2. Goto(t, "rows") /\ Set(t, locals) /\ "rows" \in PCs
      BY <1>2 DEF DecideRequest, PCs
    <2>3. pc' \in [Txns -> PCs] /\ tx' \in [Txns -> Locals]
      BY <2>1, <2>2, SessionType
    <2>4. answer' \in [Txns -> Answers]
      BY <1>2 DEF DecideRequest, TypeOK, Answers
    <2> QED BY <1>2, <2>3, <2>4 DEF DecideRequest, TypeOK, committed, locks, world, StepNos
  <1> QED BY <1>1, <1>2

LEMMA WithdrawRequestType ==
  ASSUME TypeOK, NEW t \in Txns, NEW actor \in Employees, WithdrawRequest(t, actor)
  PROVE  TypeOK'
  <1>1. CASE WithdrawRefusal(actor) # "none"
    <2>1. WithdrawRefusal(actor) \in Answers
      BY DEF WithdrawRefusal, Answers, Refusals
    <2> QED BY <1>1, <2>1, ReturnUnchangedType DEF WithdrawRequest
  <1>2. CASE WithdrawRefusal(actor) = "none"
    <2> DEFINE locals == [NoCall EXCEPT !.verb = "withdraw", !.actor = actor]
    <2>1. locals \in Locals
      BY NoCallType DEF Locals, NoCall
    <2>2. Goto(t, "skip") /\ Set(t, locals) /\ "skip" \in PCs
      BY <1>2 DEF WithdrawRequest, PCs
    <2>3. pc' \in [Txns -> PCs] /\ tx' \in [Txns -> Locals]
      BY <2>1, <2>2, SessionType
    <2>4. answer' \in [Txns -> Answers]
      BY <1>2 DEF WithdrawRequest, TypeOK, Answers
    <2> QED BY <1>2, <2>3, <2>4 DEF WithdrawRequest, TypeOK, committed, locks, world, StepNos
  <1> QED BY <1>1, <1>2

LEMMA EscalateRequestType ==
  ASSUME TypeOK, NEW t \in Txns, NEW n \in StepNos, EscalateRequest(t, n)
  PROVE  TypeOK'
  <1>1. CASE EscalateRefusal(n) # "none"
    <2>1. EscalateRefusal(n) \in Answers
      BY DEF EscalateRefusal, Answers, Refusals
    <2> QED BY <1>1, <2>1, ReturnUnchangedType DEF EscalateRequest
  <1>2. CASE EscalateRefusal(n) = "none"
    <2> DEFINE locals == [NoCall EXCEPT !.verb = "escalate", !.step_no = n]
    <2>1. locals \in Locals
      <3>1. n \in Nat
        BY ChainAssumption DEF TypeOK, StepNos, ValidChain, ChainRow, ChainRowOf
      <3> QED BY <3>1, NoCallType DEF Locals, NoCall
    <2>2. Goto(t, "find") /\ Set(t, locals) /\ "find" \in PCs
      BY <1>2 DEF EscalateRequest, PCs
    <2>3. pc' \in [Txns -> PCs] /\ tx' \in [Txns -> Locals]
      BY <2>1, <2>2, SessionType
    <2>4. answer' \in [Txns -> Answers]
      BY <1>2 DEF EscalateRequest, TypeOK, Answers
    <2> QED BY <1>2, <2>3, <2>4 DEF EscalateRequest, TypeOK, committed, locks, world, StepNos
  <1> QED BY <1>1, <1>2

LEMMA DecideRowsType ==
  ASSUME TypeOK, NEW t \in Txns, DecideRows(t)
  PROVE  TypeOK'
  <1> DEFINE rows == RowsAt(tx[t].step_no)
  <1>1. CASE rows = {}
    BY <1>1, ReturnUnchangedType DEF DecideRows, Answers, Refusals
  <1>2. CASE rows # {}
    <2> DEFINE locals == [tx[t] EXCEPT
                    !.seen = [r \in Rows |-> IF r \in rows THEN SeesStep(t, r)
                                             ELSE UnreadRow],
                    !.unchecked = rows]
    <2>1. locals \in Locals
      <3>1. tx[t] \in Locals
        BY DEF TypeOK
      <3>2. rows \in SUBSET Rows
        BY DEF RowsAt
      <3>3. UnreadRow \in StepRow
        BY DEF UnreadRow, StepRow, ApprovalStepStatus
      <3>4. [r \in Rows |-> IF r \in rows THEN SeesStep(t, r) ELSE UnreadRow]
              \in [Rows -> StepRow]
        BY <3>3, SeenType
      <3> QED BY <3>1, <3>2, <3>4 DEF Locals
    <2>2. Goto(t, "authorize") /\ Set(t, locals) /\ "authorize" \in PCs
      BY <1>2 DEF DecideRows, PCs
    <2>3. pc' \in [Txns -> PCs] /\ tx' \in [Txns -> Locals]
      BY <2>1, <2>2, SessionType
    <2> QED BY <1>2, <2>3 DEF DecideRows, TypeOK, committed, locks, world, StepNos
  <1> QED BY <1>1, <1>2

LEMMA AuthorizeType ==
  ASSUME TypeOK, NEW t \in Txns, Authorize(t)
  PROVE  TypeOK'
  <1>1. PICK r \in Rows :
          /\ LET assignee == tx[t].seen[r].assigned_to
                 may == assignee = tx[t].actor \/ <<assignee, tx[t].actor>> \in delegations
             IN Set(t, [tx[t] EXCEPT !.unchecked = @ \ {r},
                                     !.authorized = IF may THEN @ \union {r} ELSE @])
          /\ Goto(t, IF tx[t].unchecked = {r} THEN "choose" ELSE "authorize")
    BY DEF Authorize
  <1>2. tx[t] \in Locals
    BY DEF TypeOK
  <1>3. pc' \in [Txns -> PCs] /\ tx' \in [Txns -> Locals]
    BY <1>1, <1>2 DEF Set, Goto, TypeOK, Locals, PCs
  <1> QED BY <1>3 DEF Authorize, TypeOK, committed, locks, world, StepNos

LEMMA ChooseType ==
  ASSUME TypeOK, NEW t \in Txns, Choose(t)
  PROVE  TypeOK'
  <1>1. PICK r \in Rows :
          /\ Goto(t, "mark")
          /\ Set(t, [tx[t] EXCEPT !.row = r, !.assignee = tx[t].seen[r].assigned_to,
                                  !.seen = NoCall.seen, !.authorized = {}])
    BY DEF Choose
  <1>2. tx[t] \in Locals /\ tx[t].seen[r].assigned_to \in Employees \union {Nobody}
    BY DEF TypeOK, Locals, StepRow
  <1>3. NoCall.seen \in [Rows -> StepRow]
    BY NoCallType DEF Locals
  <1>4. [tx[t] EXCEPT !.row = r, !.assignee = tx[t].seen[r].assigned_to,
                      !.seen = NoCall.seen, !.authorized = {}] \in Locals
    BY <1>2, <1>3 DEF Locals
  <1>5. pc' \in [Txns -> PCs] /\ tx' \in [Txns -> Locals]
    BY <1>1, <1>4, SessionType DEF PCs
  <1> QED BY <1>5 DEF Choose, TypeOK, committed, locks, world, StepNos

LEMMA ChooseNoneType ==
  ASSUME TypeOK, NEW t \in Txns, ChooseNone(t)
  PROVE  TypeOK'
  BY ReturnUnchangedType DEF ChooseNone, TypeOK, Locals, Answers, Refusals

\* Writing a row of the table keeps the rows and their locks well typed.
LEMMA WriteStepType ==
  ASSUME TypeOK, NEW t \in Txns, NEW r \in Rows \union {NoRow}, NEW row,
         r \in Rows => row \in StepRow, WriteStep(t, r, row)
  PROVE  newSteps' \in [Rows -> StepRow] /\ stepLock' \in [Rows -> Txns \union {NoTxn}]
  BY RowAssumption DEF TypeOK, WriteStep

LEMMA MarkType ==
  ASSUME TypeOK, NEW t \in Txns, Mark(t)
  PROVE  TypeOK'
  <1> DEFINE r == tx[t].row
  <1>1. tx[t] \in Locals /\ r \in Rows \union {NoRow}
    BY DEF TypeOK, Locals
  <1>2. r \in Rows => Decided(t, r) \in StepRow
    <2>1. /\ r \in Rows => steps[r] \in StepRow
          /\ tx[t].actor \in Employees \union {Nobody}
          /\ tx[t].assignee \in Employees \union {Nobody}
      BY <1>1 DEF TypeOK, Locals
    <2> QED BY <2>1 DEF Decided, StepRow, ApprovalStepStatus
  <1>3. newSteps' \in [Rows -> StepRow] /\ stepLock' \in [Rows -> Txns \union {NoTxn}]
    <2>1. CASE steps[r].status = "pending"
      BY <1>1, <1>2, <2>1, WriteStepType DEF Mark
    <2>2. CASE steps[r].status # "pending"
      BY <2>2 DEF Mark, TypeOK
    <2> QED BY <2>1, <2>2
  <1>4. pc' \in [Txns -> PCs]
    BY DEF Mark, Goto, AfterMark, PCs, TypeOK
  <1> QED BY <1>3, <1>4 DEF Mark, TypeOK, committed, world, StepNos

LEMMA RereadType ==
  ASSUME TypeOK, NEW t \in Txns, Reread(t)
  PROVE  TypeOK'
  <1> DEFINE locals == [tx[t] EXCEPT !.answer = IF SeesRequest(t).deleted THEN @
                                                ELSE SeesRequest(t).status]
  <1>1. tx[t] \in Locals /\ SeesRequest(t).status \in Answers
    BY SeenType DEF TypeOK, RequestRow, Answers
  <1>2. locals \in Locals
    BY <1>1 DEF Locals
  <1>3. pc' \in [Txns -> PCs] /\ tx' \in [Txns -> Locals]
    BY <1>2, SessionType DEF Reread, PCs
  <1> QED BY <1>3 DEF Reread, TypeOK, committed, locks, world, StepNos

LEMMA SkipRowType ==
  ASSUME TypeOK, NEW t \in Txns, SkipRow(t)
  PROVE  TypeOK'
  <1>1. PICK r \in StillToSkip(t) : WriteStep(t, r, [steps[r] EXCEPT !.status = "skipped"])
    BY DEF SkipRow
  <1>2. r \in Rows
    BY DEF StillToSkip, SkipTargets
  <1>3. [steps[r] EXCEPT !.status = "skipped"] \in StepRow
    BY <1>2 DEF TypeOK, StepRow, ApprovalStepStatus
  <1>4. newSteps' \in [Rows -> StepRow] /\ stepLock' \in [Rows -> Txns \union {NoTxn}]
    BY <1>1, <1>2, <1>3, WriteStepType
  <1> QED BY <1>4 DEF SkipRow, TypeOK, committed, world, session, StepNos

LEMMA SkipDoneType ==
  ASSUME TypeOK, NEW t \in Txns, SkipDone(t)
  PROVE  TypeOK'
  BY DEF SkipDone, Goto, TypeOK, PCs, committed, locks, world, StepNos

LEMMA CountType ==
  ASSUME TypeOK, NEW t \in Txns, Count(t)
  PROVE  TypeOK'
  BY DEF Count, Goto, TypeOK, PCs, committed, locks, world, StepNos

LEMMA AdvanceType ==
  ASSUME TypeOK, NEW t \in Txns, Advance(t)
  PROVE  TypeOK'
  <1>1. tx[t] \in Locals /\ request.status \in Answers
    BY DEF TypeOK, RequestRow, Answers
  <1>2. newRequest' \in RequestRow /\ requestLock' \in Txns \union {NoTxn}
    <2>1. tx[t].step_no + 1 \in Nat
      BY <1>1 DEF Locals
    <2> QED BY <2>1 DEF Advance, WriteRequest, TypeOK, RequestRow
  <1>3. pc' \in [Txns -> PCs] /\ tx' \in [Txns -> Locals]
    <2>1. [tx[t] EXCEPT !.answer = request.status] \in Locals
      BY <1>1 DEF Locals
    <2> QED BY <2>1 DEF Advance, Set, Goto, TypeOK, PCs
  <1> QED BY <1>2, <1>3 DEF Advance, TypeOK, committed, world, StepNos

LEMMA FinishType ==
  ASSUME TypeOK, NEW t \in Txns, Finish(t)
  PROVE  TypeOK'
  <1> DEFINE verdict == IF tx[t].approve THEN "approved" ELSE "rejected"
  <1>1. tx[t] \in Locals /\ tx[t].actor \in Employees \union {Nobody}
    BY DEF TypeOK, Locals
  <1>2. newRequest' \in RequestRow /\ requestLock' \in Txns \union {NoTxn}
    BY <1>1 DEF Finish, WriteRequest, TypeOK, RequestRow, ApprovalStatus
  <1>3. pc' \in [Txns -> PCs]
    BY DEF Finish, Goto, TypeOK, PCs
  <1>4. tx' \in [Txns -> Locals]
    <2>1. /\ [tx[t] EXCEPT !.answer = verdict] \in Locals
          /\ [tx[t] EXCEPT !.answer = IF tx[t].approve THEN @ ELSE "rejected"] \in Locals
      BY <1>1 DEF Locals, Answers, ApprovalStatus
    <2> QED BY <2>1 DEF Finish, Set, TypeOK
  <1> QED BY <1>2, <1>3, <1>4 DEF Finish, TypeOK, committed, world, StepNos

LEMMA WithdrawFinishType ==
  ASSUME TypeOK, NEW t \in Txns, WithdrawFinish(t)
  PROVE  TypeOK'
  <1>1. newRequest' \in RequestRow /\ requestLock' \in Txns \union {NoTxn}
    BY DEF WithdrawFinish, WriteRequest, TypeOK, RequestRow, ApprovalStatus
  <1>2. [tx[t] EXCEPT !.answer = "withdrawn"] \in Locals
    <2>1. tx[t] \in Locals /\ "withdrawn" \in Answers
      BY DEF TypeOK, Answers, ApprovalStatus
    <2> QED BY <2>1 DEF Locals
  <1>3. pc' \in [Txns -> PCs] /\ tx' \in [Txns -> Locals]
    BY <1>2, SessionType DEF WithdrawFinish, PCs
  <1> QED BY <1>1, <1>3 DEF WithdrawFinish, TypeOK, committed, world, StepNos

LEMMA EscalateType ==
  ASSUME TypeOK, NEW t \in Txns, Escalate(t)
  PROVE  TypeOK'
  <1>1. CASE EscalateNowhere(t)
    BY <1>1, ReturnUnchangedType DEF EscalateNowhere, Answers, Refusals
  <1>2. CASE EscalateTo(t)
    <2>1. PICK r \in Rows, head \in Heads :
            Set(t, [tx[t] EXCEPT !.row = r, !.target = head,
                                 !.assignee = SeesStep(t, r).assigned_to])
      BY <1>2 DEF EscalateTo
    <2>2. SeesStep(t, r).assigned_to \in Employees \union {Nobody}
      BY SeenType DEF StepRow
    <2>3. [tx[t] EXCEPT !.row = r, !.target = head,
                        !.assignee = SeesStep(t, r).assigned_to] \in Locals
      <3>1. tx[t] \in Locals /\ head \in Employees
        BY EmployeeAssumption DEF TypeOK
      <3> QED BY <2>2, <3>1 DEF Locals
    <2>4. pc' \in [Txns -> PCs] /\ tx' \in [Txns -> Locals]
      BY <1>2, <2>1, <2>3, SessionType DEF EscalateTo, PCs
    <2> QED BY <1>2, <2>4 DEF EscalateTo, TypeOK, committed, locks, world, StepNos
  <1>3. CASE EscalateRow(t)
    <2> DEFINE r == tx[t].row
    <2> DEFINE row == [steps[r] EXCEPT !.assigned_to = tx[t].target,
                                       !.delegated_from = Nobody]
    <2>1. CASE steps[r].status = "pending" /\ steps[r].assigned_to = tx[t].assignee
      <3>1. r \in Rows \union {NoRow} /\ tx[t].target \in Employees \union {Nobody}
        BY DEF TypeOK, Locals
      <3>2. r \in Rows => row \in StepRow
        <4>1. r \in Rows => steps[r] \in StepRow
          BY DEF TypeOK
        <4> QED BY <3>1, <4>1 DEF StepRow
      <3>3. newSteps' \in [Rows -> StepRow] /\ stepLock' \in [Rows -> Txns \union {NoTxn}]
        BY <1>3, <2>1, <3>1, <3>2, WriteStepType DEF EscalateRow
      <3> QED BY <1>3, <2>1, <3>3
              DEF EscalateRow, Goto, TypeOK, PCs, committed, world, StepNos
    <2>2. CASE ~ (steps[r].status = "pending" /\ steps[r].assigned_to = tx[t].assignee)
      BY <1>3, <2>2, ReturnUnchangedType DEF EscalateRow, Answers, Refusals
    <2> QED BY <2>1, <2>2
  <1>4. CASE EscalateIndex(t)
    <2>1. CASE Rollback(t, "database_error")
      BY <2>1, RollbackType DEF Answers, Refusals
    <2>2. CASE ~ Rollback(t, "database_error")
      <3>0. tx[t] \in Locals /\ "escalated" \in Answers
        BY DEF TypeOK, Answers
      <3>1. [tx[t] EXCEPT !.answer = "escalated"] \in Locals
        BY <3>0 DEF Locals
      <3>2. pc' \in [Txns -> PCs] /\ tx' \in [Txns -> Locals]
        BY <1>4, <2>2, <3>1, SessionType DEF EscalateIndex, PCs
      <3> QED BY <1>4, <2>2, <3>2
              DEF EscalateIndex, TypeOK, committed, locks, world, StepNos
    <2> QED BY <2>1, <2>2
  <1> QED BY <1>1, <1>2, <1>3, <1>4 DEF Escalate

LEMMA EnvironmentType ==
  ASSUME TypeOK, Environment
  PROVE  TypeOK'
  <1>1. ASSUME NEW p \in Delegable, DelegationStarts(p) \/ DelegationEnds(p)
        PROVE  TypeOK'
    BY <1>1 DEF DelegationStarts, DelegationEnds, TypeOK, committed, locks, session, StepNos
  <1>2. ASSUME NEW n \in StepNos, SlaBreach(n)
        PROVE  TypeOK'
    BY <1>2 DEF SlaBreach, TypeOK, committed, locks, session, StepNos
  <1> QED BY <1>1, <1>2 DEF Environment

LEMMA InitType == Init => TypeOK
  <1> SUFFICES ASSUME Init PROVE TypeOK
    OBVIOUS
  <1>1. chain \in [Rows -> ChainRow]
    BY ChainAssumption DEF Init, ValidChain
  <1>2. steps \in [Rows -> StepRow]
    BY <1>1 DEF Init, ChainRow, ChainRowOf, StepRow, ApprovalStepStatus
  <1>3. request \in RequestRow
    BY DEF Init, RequestRow, ApprovalStatus
  <1> QED BY <1>2, <1>3, NoCallType
          DEF Init, TypeOK, PCs, Answers

LEMMA StepType == TypeOK /\ [Next]_vars => TypeOK'
  <1> SUFFICES ASSUME TypeOK, [Next]_vars PROVE TypeOK'
    OBVIOUS
  <1>1. ASSUME NEW t \in Txns, Call(t) PROVE TypeOK'
    BY <1>1, DecideRequestType, WithdrawRequestType, EscalateRequestType DEF Call
  <1>2. ASSUME NEW t \in Txns, Proceed(t) PROVE TypeOK'
    BY <1>2, DecideRowsType, AuthorizeType, ChooseType, ChooseNoneType, MarkType,
       RereadType, SkipRowType, SkipDoneType, CountType, AdvanceType, FinishType,
       WithdrawFinishType, EscalateType, CommitType, RollbackType
       DEF Proceed, Decide, CancelDeadlocked, Answers, Refusals
  <1>3. ASSUME NEW t \in Txns, Abort(t) PROVE TypeOK'
    BY <1>3, RollbackType DEF Abort, Answers, Refusals
  <1>4. CASE Environment
    BY <1>4, EnvironmentType
  <1>5. CASE UNCHANGED vars
    BY <1>5 DEF vars, committed, locks, world, session, TypeOK, StepNos
  <1> QED BY <1>1, <1>2, <1>3, <1>4, <1>5 DEF Next

\* Every reachable state is well typed: no statement of decide, withdraw or
\* escalate writes a value its column, lock or local may not hold.
THEOREM TypeCorrect == Spec => []TypeOK
  BY InitType, StepType, PTL DEF Spec

-----------------------------------------------------------------------------
(* The lock discipline is inductive.                                       *)

\* The chain's numbers are naturals and rows stand at them.
LEMMA ChainNumbers ==
  ASSUME TypeOK
  PROVE  /\ StepNos \subseteq Nat
         /\ \A r \in Rows : chain[r].step_no \in StepNos
         /\ 1 \in StepNos
         /\ \A n \in StepNos : ~ LastStep(n) => n + 1 \in StepNos
  <1>1. chain \in [Rows -> ChainRow]
    BY ChainAssumption DEF TypeOK, ValidChain
  <1>2. \A r \in Rows : chain[r].step_no \in Nat \ {0}
    BY <1>1 DEF ChainRow, ChainRowOf
  <1>3. PICK max \in StepNos : StepNos = 1..max
    BY ChainAssumption DEF TypeOK, ValidChain, Walkable, StepNos
  <1>4. StepNos \subseteq Nat \ {0}
    BY <1>2 DEF StepNos
  <1>5. 1 \in StepNos
    BY <1>3, <1>4
  <1>6. ASSUME NEW n \in StepNos, ~ LastStep(n) PROVE n + 1 \in StepNos
    <2>1. PICK m \in StepNos : ~ (m <= n)
      BY <1>6 DEF LastStep
    <2> QED BY <2>1, <1>3, <1>4
  <1> QED BY <1>4, <1>5, <1>6 DEF StepNos

\* A call that has decided its row has nobody between its reads and its verdict:
\* the row lock keeps the row pending in the committed table, so the request is
\* still pending and still at the step the call has read, and no other call can
\* have settled that step and stand before its commit.
LEMMA DeciderOwns ==
  ASSUME TypeOK, LockDiscipline, NEW t \in Txns, HasDecided(t)
  PROVE  /\ StillPending
         /\ requestLock = NoTxn
         /\ request.current_step = tx[t].step_no
         /\ tx[t].verb = "decide"
         /\ tx[t].row \in Rows
  <1> DEFINE r == tx[t].row
  <1>1. /\ tx[t].verb = "decide"
        /\ tx[t].step_no \in StepNos
        /\ tx[t].step_no <= request.current_step
        /\ r \in RowsAt(tx[t].step_no)
        /\ stepLock[r] = t
    BY DEF LockDiscipline, CallKnows, HasDecided
  <1>2. r \in Rows /\ chain[r].step_no = tx[t].step_no
    BY <1>1 DEF RowsAt
  <1>3. stepLock[r] # NoTxn /\ steps[r].status = "pending"
    BY <1>1, <1>2, TxnAssumption DEF LockDiscipline, RowLocks
  <1>4. StillPending
    BY <1>2, <1>3 DEF LockDiscipline, Walked, StillPending
  <1>5. request.current_step = tx[t].step_no
    <2>1. ~ (chain[r].step_no < request.current_step)
      BY <1>2, <1>3, <1>4 DEF LockDiscipline, Walked, StillPending
    <2>2. tx[t].step_no \in Nat /\ request.current_step \in Nat
      BY <1>1, ChainNumbers DEF TypeOK, RequestRow
    <2> QED BY <1>1, <1>2, <2>1, <2>2
  <1>6. requestLock = NoTxn
    <2> SUFFICES ASSUME requestLock # NoTxn PROVE FALSE
      OBVIOUS
    <2>1. pc[requestLock] = "commit" /\ SeesStep(requestLock, r).status # "pending"
      BY <1>1, <1>2, <1>5 DEF LockDiscipline, RequestLocked, Settled
    <2>2. pc[t] # "commit"
      BY DEF HasDecided
    <2>3. SeesStep(requestLock, r) = steps[r]
      BY <1>1, <2>1, <2>2 DEF SeesStep
    <2> QED BY <1>3, <2>1, <2>3
  <1> QED BY <1>1, <1>2, <1>4, <1>5, <1>6

\* A call keeps what it knows through a step of another: a step that only adds to
\* the committed table what is decided, and touches none of its row locks.
LEMMA OthersKnow ==
  ASSUME TypeOK, LockDiscipline, NEW u \in Txns,
         chain' = chain, pc'[u] = pc[u], tx'[u] = tx[u],
         request.current_step <= request'.current_step,
         request'.current_step \in Nat,
         \A r \in Rows : stepLock[r] = u <=> stepLock'[r] = u,
         \A r \in Rows : stepLock[r] = u => newSteps'[r] = newSteps[r],
         \A r \in Rows : steps[r].status # "pending" => steps'[r].status # "pending"
  PROVE  CallKnows(u)'
  <1>1. ASSUME NEW rows \in SUBSET Rows, Settled(u, rows)
        PROVE  Settled(u, rows)'
    BY <1>1 DEF Settled, SeesStep
  <1>2. /\ \A n : RowsAt(n)' = RowsAt(n)
        /\ \A n : LastStep(n)' = LastStep(n)
        /\ StepNos' = StepNos
    BY DEF RowsAt, LastStep, StepNos
  <1>3. CallKnows(u)
    BY DEF LockDiscipline
  <1>4. Deciding(u)' = Deciding(u) /\ HasDecided(u)' = HasDecided(u)
    BY DEF Deciding, HasDecided
  <1>5. Deciding(u) => tx[u].step_no \in Nat /\ tx[u].step_no <= request'.current_step
    <2>1. Deciding(u) => tx[u].step_no \in Nat /\ tx[u].step_no <= request.current_step
      BY <1>3, ChainNumbers DEF CallKnows
    <2>2. request.current_step \in Nat
      BY DEF TypeOK, RequestRow
    <2> QED BY <2>1, <2>2
  <1>6. /\ Settled(u, Rows) => Settled(u, Rows)'
        /\ Settled(u, RowsAt(tx[u].step_no)) => Settled(u, RowsAt(tx[u].step_no))'
    <2>1. RowsAt(tx[u].step_no) \in SUBSET Rows /\ Rows' = Rows
      BY DEF RowsAt
    <2>2. RowsAt(tx[u].step_no)' = RowsAt(tx[u].step_no)
      BY <1>2
    <2> QED BY <1>1, <2>1, <2>2
  <1>7. HasDecided(u) => /\ tx[u].row \in Rows
                         /\ stepLock'[tx[u].row] = u
                         /\ newSteps'[tx[u].row] = newSteps[tx[u].row]
    BY <1>3 DEF CallKnows, RowsAt
  <1> QED BY <1>2, <1>3, <1>4, <1>5, <1>6, <1>7 DEF CallKnows

\* A statement that only reads: no table, no lock changes.
LEMMA ReadKeeps ==
  ASSUME TypeOK, LockDiscipline, NEW t \in Txns, NEW label \in PCs, NEW locals,
         UNCHANGED <<committed, locks, chain>>,
         Goto(t, label), Set(t, locals),
         pc[t] # "commit", pc[t] \in Writing => label \in Writing,
         CallKnows(t)'
  PROVE  LockDiscipline'
  <1> USE DEF committed, locks
  <1>1. /\ pc'[t] = label /\ tx'[t] = locals
        /\ \A u \in Txns \ {t} : pc'[u] = pc[u] /\ tx'[u] = tx[u]
    BY DEF Goto, Set, TypeOK
  <1>2. \A n : RowsAt(n)' = RowsAt(n)
    BY DEF RowsAt
  <1>3. RowLocks'
    <2>1. ASSUME NEW r \in Rows, stepLock[r] # NoTxn
          PROVE  pc'[stepLock[r]] \in Writing
      <3>1. stepLock[r] \in Txns /\ pc[stepLock[r]] \in Writing
        BY <2>1 DEF LockDiscipline, RowLocks, TypeOK
      <3> QED BY <3>1, <1>1
    <2> QED BY <2>1 DEF LockDiscipline, RowLocks
  <1>4. RequestLocked'
    <2>1. requestLock # NoTxn => requestLock \in Txns \ {t} /\ pc[requestLock] = "commit"
      BY DEF LockDiscipline, RequestLocked, TypeOK
    <2>2. Settled(requestLock, RowsAt(request.current_step))'
            = Settled(requestLock, RowsAt(request.current_step))
      BY <1>2 DEF Settled, SeesStep
    <2>3. Settled(requestLock, Rows)' = Settled(requestLock, Rows)
      BY DEF Settled, SeesStep
    <2>4. StepNos' = StepNos /\ StillPending' = StillPending
      BY DEF StepNos, StillPending
    <2> QED BY <1>1, <2>1, <2>2, <2>3, <2>4 DEF LockDiscipline, RequestLocked
  <1>5. ASSUME NEW u \in Txns PROVE CallKnows(u)'
    <2>1. CASE u = t
      BY <2>1
    <2>2. CASE u # t
      <3>1. request.current_step \in Nat
        BY DEF TypeOK, RequestRow
      <3> QED BY <2>2, <1>1, <3>1, OthersKnow
    <2> QED BY <2>1, <2>2
  <1>6. Walked'
    BY DEF LockDiscipline, Walked, StepNos
  <1> QED BY <1>3, <1>4, <1>5, <1>6 DEF LockDiscipline

\* A call that takes the lock of a pending row and writes it.
LEMMA WriteStepKeeps ==
  ASSUME TypeOK, LockDiscipline, NEW t \in Txns, NEW r \in Rows, NEW row,
         NEW label \in Writing,
         stepLock[r] = NoTxn, steps[r].status = "pending",
         WriteStep(t, r, row), Goto(t, label), UNCHANGED tx,
         UNCHANGED <<committed, newRequest, requestLock, chain>>,
         pc[t] # "commit",
         CallKnows(t)'
  PROVE  LockDiscipline'
  <1> USE DEF committed
  <1>1. /\ pc'[t] = label
        /\ \A u \in Txns \ {t} : pc'[u] = pc[u]
    BY DEF Goto, TypeOK
  <1>2. /\ stepLock'[r] = t
        /\ \A q \in Rows \ {r} : stepLock'[q] = stepLock[q] /\ newSteps'[q] = newSteps[q]
    BY DEF WriteStep, TypeOK
  <1>3. RowLocks'
    <2>1. ASSUME NEW q \in Rows, stepLock'[q] # NoTxn
          PROVE  steps'[q].status = "pending" /\ pc'[stepLock'[q]] \in Writing
      <3>1. CASE q = r
        BY <3>1, <1>1, <1>2
      <3>2. CASE q # r
        <4>1. stepLock[q] \in Txns /\ pc[stepLock[q]] \in Writing /\ steps[q].status = "pending"
          BY <2>1, <3>2, <1>2 DEF LockDiscipline, RowLocks, TypeOK
        <4> QED BY <4>1, <3>2, <1>1, <1>2
      <3> QED BY <3>1, <3>2
    <2>2. ASSUME NEW q \in Rows, stepLock'[q] = NoTxn
          PROVE  newSteps'[q] = steps'[q]
      BY <2>2, <1>2, TxnAssumption DEF LockDiscipline, RowLocks
    <2> QED BY <2>1, <2>2 DEF RowLocks
  <1>4. RequestLocked'
    <2>1. requestLock # NoTxn => requestLock \in Txns \ {t} /\ pc[requestLock] = "commit"
      BY DEF LockDiscipline, RequestLocked, TypeOK
    <2>2. requestLock # NoTxn =>
            \A q \in Rows : SeesStep(requestLock, q)' = SeesStep(requestLock, q)
      BY <2>1, <1>2, TxnAssumption DEF SeesStep
    <2>3. StepNos' = StepNos /\ StillPending' = StillPending
          /\ RowsAt(request.current_step)' = RowsAt(request.current_step)
          /\ RowsAt(request.current_step) \subseteq Rows
      BY DEF StepNos, StillPending, RowsAt
    <2>4. requestLock # NoTxn =>
            /\ Settled(requestLock, Rows) => Settled(requestLock, Rows)'
            /\ Settled(requestLock, RowsAt(request.current_step))
                 => Settled(requestLock, RowsAt(request.current_step))'
      BY <2>2, <2>3 DEF Settled
    <2> QED BY <1>1, <2>1, <2>3, <2>4 DEF LockDiscipline, RequestLocked
  <1>5. ASSUME NEW u \in Txns PROVE CallKnows(u)'
    <2>1. CASE u = t
      BY <2>1
    <2>2. CASE u # t
      <3>1. request.current_step \in Nat
        BY DEF TypeOK, RequestRow
      <3>2. \A q \in Rows : stepLock[q] = u <=> stepLock'[q] = u
        BY <2>2, <1>2, TxnAssumption
      <3>3. \A q \in Rows : stepLock[q] = u => newSteps'[q] = newSteps[q]
        BY <1>2, TxnAssumption
      <3> QED BY <2>2, <1>1, <3>1, <3>2, <3>3, OthersKnow
    <2> QED BY <2>1, <2>2
  <1>6. Walked'
    BY DEF LockDiscipline, Walked, StepNos
  <1> QED BY <1>3, <1>4, <1>5, <1>6 DEF LockDiscipline

\* A call that takes the lock of the pending request and writes it.
LEMMA WriteRequestKeeps ==
  ASSUME TypeOK, LockDiscipline, NEW t \in Txns, NEW row, NEW locals,
         requestLock = NoTxn, StillPending,
         WriteRequest(t, row), Goto(t, "commit"), Set(t, locals),
         UNCHANGED <<committed, newSteps, stepLock, chain>>,
         \/ /\ row = [request EXCEPT !.current_step = @ + 1]
            /\ row.current_step \in StepNos
            /\ Settled(t, RowsAt(request.current_step))
         \/ /\ row.status # "pending"
            /\ row.current_step = request.current_step
            /\ Settled(t, Rows)
  PROVE  LockDiscipline'
  <1> USE DEF committed
  <1>1. /\ pc'[t] = "commit"
        /\ \A u \in Txns \ {t} : pc'[u] = pc[u] /\ tx'[u] = tx[u]
    BY DEF Goto, Set, TypeOK
  <1>2. RowLocks'
    <2>1. ASSUME NEW r \in Rows, stepLock[r] # NoTxn
          PROVE  pc'[stepLock[r]] \in Writing
      <3>1. stepLock[r] \in Txns /\ pc[stepLock[r]] \in Writing
        BY <2>1 DEF LockDiscipline, RowLocks, TypeOK
      <3> QED BY <3>1, <1>1 DEF Writing
    <2> QED BY <2>1 DEF LockDiscipline, RowLocks
  <1>3. RequestLocked'
    <2>1. requestLock' = t /\ newRequest' = row /\ requestLock' # NoTxn
      BY TxnAssumption DEF WriteRequest
    <2>2. /\ RowsAt(request.current_step)' = RowsAt(request.current_step)
          /\ StepNos' = StepNos /\ StillPending' = StillPending
      BY DEF RowsAt, StepNos, StillPending
    <2>3. /\ Settled(t, Rows)' = Settled(t, Rows)
          /\ Settled(t, RowsAt(request.current_step))'
               = Settled(t, RowsAt(request.current_step))
      BY <2>2 DEF Settled, SeesStep
    <2> QED BY <1>1, <2>1, <2>2, <2>3 DEF RequestLocked
  <1>4. ASSUME NEW u \in Txns PROVE CallKnows(u)'
    <2>1. CASE u = t
      BY <2>1, <1>1 DEF CallKnows, Deciding, HasDecided
    <2>2. CASE u # t
      <3>1. request.current_step \in Nat
        BY DEF TypeOK, RequestRow
      <3> QED BY <2>2, <1>1, <3>1, OthersKnow
    <2> QED BY <2>1, <2>2
  <1>5. Walked'
    BY DEF LockDiscipline, Walked, StepNos
  <1> QED BY <1>2, <1>3, <1>4, <1>5 DEF LockDiscipline

\* A transaction that ends without a trace gives its rows back as they were.
LEMMA RollbackKeeps ==
  ASSUME TypeOK, LockDiscipline, NEW t \in Txns, NEW a, Rollback(t, a)
  PROVE  LockDiscipline'
  <1> USE DEF committed, world
  <1>1. /\ pc'[t] = "idle"
        /\ \A u \in Txns \ {t} : pc'[u] = pc[u] /\ tx'[u] = tx[u]
        /\ UNCHANGED <<request, steps, chain>>
    BY DEF Rollback, Return, Goto, Set, TypeOK
  <1>2. \A r \in Rows :
          /\ stepLock'[r] = IF stepLock[r] = t THEN NoTxn ELSE stepLock[r]
          /\ newSteps'[r] = IF stepLock[r] = t THEN steps[r] ELSE newSteps[r]
    BY DEF Rollback, TypeOK
  <1>3. RowLocks'
    <2>1. ASSUME NEW r \in Rows, stepLock'[r] # NoTxn
          PROVE  steps'[r].status = "pending" /\ pc'[stepLock'[r]] \in Writing
      <3>1. stepLock'[r] = stepLock[r] /\ stepLock[r] \in Txns \ {t}
        BY <2>1, <1>2 DEF TypeOK
      <3> QED BY <2>1, <3>1, <1>1 DEF LockDiscipline, RowLocks
    <2>2. ASSUME NEW r \in Rows, stepLock'[r] = NoTxn
          PROVE  newSteps'[r] = steps'[r]
      BY <2>2, <1>1, <1>2 DEF LockDiscipline, RowLocks
    <2> QED BY <2>1, <2>2 DEF RowLocks
  <1>4. RequestLocked'
    <2>1. CASE requestLock = t \/ requestLock = NoTxn
      <3>1. requestLock' = NoTxn /\ newRequest' = request'
        BY <2>1, <1>1 DEF Rollback, LockDiscipline, RequestLocked
      <3> QED BY <3>1 DEF RequestLocked
    <2>2. CASE requestLock # t /\ requestLock # NoTxn
      <3>1. /\ requestLock' = requestLock /\ newRequest' = newRequest
            /\ requestLock \in Txns \ {t}
        BY <2>2 DEF Rollback, TypeOK
      <3>2. \A r \in Rows : SeesStep(requestLock, r)' = SeesStep(requestLock, r)
        BY <2>2, <3>1, <1>1, <1>2 DEF SeesStep
      <3>3. StepNos' = StepNos /\ StillPending' = StillPending
            /\ RowsAt(request.current_step)' = RowsAt(request.current_step)
            /\ RowsAt(request.current_step) \subseteq Rows
        BY <1>1 DEF StepNos, StillPending, RowsAt
      <3>4. /\ Settled(requestLock, Rows) => Settled(requestLock, Rows)'
            /\ Settled(requestLock, RowsAt(request.current_step))
                 => Settled(requestLock, RowsAt(request.current_step))'
        BY <3>2, <3>3 DEF Settled
      <3> QED BY <2>2, <3>1, <3>3, <3>4, <1>1 DEF LockDiscipline, RequestLocked
    <2> QED BY <2>1, <2>2
  <1>5. ASSUME NEW u \in Txns PROVE CallKnows(u)'
    <2>1. CASE u = t
      BY <2>1, <1>1 DEF CallKnows, Deciding, HasDecided
    <2>2. CASE u # t
      <3>1. request.current_step \in Nat
        BY DEF TypeOK, RequestRow
      <3>2. u # NoTxn
        BY TxnAssumption
      <3> QED BY <2>2, <1>1, <1>2, <3>1, <3>2, OthersKnow
    <2> QED BY <2>1, <2>2
  <1>6. Walked'
    BY <1>1 DEF LockDiscipline, Walked, StepNos
  <1> QED BY <1>3, <1>4, <1>5, <1>6 DEF LockDiscipline

\* A commit publishes what the call has settled, and with it the verdict or the
\* next step that rests on it.
LEMMA CommitKeeps ==
  ASSUME TypeOK, LockDiscipline, NEW t \in Txns, Commit(t)
  PROVE  /\ LockDiscipline'
         /\ \A r \in Rows : steps[r].status # "pending" => steps'[r] = steps[r]
         /\ ~ StillPending => request' = request
         /\ request'.current_step \in {request.current_step, request.current_step + 1}
  <1> USE DEF world
  <1>1. /\ pc[t] = "commit" /\ pc'[t] = "idle"
        /\ \A u \in Txns \ {t} : pc'[u] = pc[u] /\ tx'[u] = tx[u]
        /\ UNCHANGED <<newRequest, newSteps, chain>>
    BY DEF Commit, Return, Goto, Set, TypeOK
  <1>2. \A r \in Rows :
          /\ stepLock'[r] = IF stepLock[r] = t THEN NoTxn ELSE stepLock[r]
          /\ steps'[r] = SeesStep(t, r)
    BY DEF Commit, TypeOK
  <1>3. \A r \in Rows : steps[r].status # "pending" => steps'[r] = steps[r]
    BY <1>2, TxnAssumption DEF SeesStep, LockDiscipline, RowLocks
  <1>4. RowLocks'
    <2>1. ASSUME NEW r \in Rows, stepLock'[r] # NoTxn
          PROVE  steps'[r].status = "pending" /\ pc'[stepLock'[r]] \in Writing
      <3>1. stepLock'[r] = stepLock[r] /\ stepLock[r] \in Txns \ {t}
        BY <2>1, <1>2 DEF TypeOK
      <3>2. steps'[r] = steps[r]
        BY <3>1, <1>2 DEF SeesStep
      <3> QED BY <2>1, <3>1, <3>2, <1>1 DEF LockDiscipline, RowLocks
    <2>2. ASSUME NEW r \in Rows, stepLock'[r] = NoTxn
          PROVE  newSteps'[r] = steps'[r]
      BY <2>2, <1>1, <1>2 DEF LockDiscipline, RowLocks, SeesStep
    <2> QED BY <2>1, <2>2 DEF RowLocks
  <1>5. StepNos' = StepNos /\ \A n : RowsAt(n)' = RowsAt(n)
    BY <1>1 DEF StepNos, RowsAt
  <1>6. CASE requestLock = t
    <2>1. /\ StillPending
          /\ request' = newRequest /\ requestLock' = NoTxn
          /\ \/ /\ newRequest = [request EXCEPT !.current_step = @ + 1]
                /\ newRequest.current_step \in StepNos
                /\ Settled(t, RowsAt(request.current_step))
             \/ /\ newRequest.status # "pending"
                /\ newRequest.current_step = request.current_step
                /\ Settled(t, Rows)
      BY <1>6, TxnAssumption DEF Commit, SeesRequest, LockDiscipline, RequestLocked
    <2>2. request.current_step \in Nat /\ request \in RequestRow
      BY DEF TypeOK, RequestRow
    <2>3. request'.current_step \in {request.current_step, request.current_step + 1}
      BY <2>1, <2>2 DEF RequestRow
    <2>4. RequestLocked'
      BY <2>1, <1>1 DEF RequestLocked
    <2>5. Walked'
      <3>1. CASE newRequest.status # "pending" /\ Settled(t, Rows)
        BY <3>1, <2>1, <1>2 DEF Walked, Settled
      <3>2. CASE /\ newRequest = [request EXCEPT !.current_step = @ + 1]
                 /\ newRequest.current_step \in StepNos
                 /\ Settled(t, RowsAt(request.current_step))
        <4>1. /\ request'.status = "pending" /\ ~ request'.deleted
              /\ request'.current_step = request.current_step + 1
          BY <3>2, <2>1, <2>2 DEF StillPending, RequestRow
        <4>2. ASSUME NEW r \in Rows, chain[r].step_no < request.current_step + 1
              PROVE  steps'[r].status # "pending"
          <5>1. chain[r].step_no \in Nat
            BY ChainNumbers
          <5>2. CASE chain[r].step_no < request.current_step
            <6>1. steps[r].status # "pending"
              BY <5>2, <2>1 DEF LockDiscipline, Walked, StillPending
            <6> QED BY <6>1, <1>3
          <5>3. CASE chain[r].step_no = request.current_step
            <6>1. r \in RowsAt(request.current_step)
              BY <5>3 DEF RowsAt
            <6> QED BY <6>1, <3>2, <1>2 DEF Settled
          <5> QED BY <4>2, <5>1, <5>2, <5>3, <2>2
        <4> QED BY <4>1, <4>2, <3>2, <2>1, <1>1, <1>5 DEF Walked
      <3> QED BY <3>1, <3>2, <2>1
    <2>6. ASSUME NEW u \in Txns PROVE CallKnows(u)'
      <3>1. CASE u = t
        BY <3>1, <1>1 DEF CallKnows, Deciding, HasDecided
      <3>2. CASE u # t
        <4>1. request.current_step <= request'.current_step /\ request'.current_step \in Nat
          BY <2>2, <2>3
        <4>2. u # NoTxn
          BY TxnAssumption
        <4> QED BY <3>2, <4>1, <4>2, <1>1, <1>2, <1>3, OthersKnow
      <3> QED BY <3>1, <3>2
    <2> QED BY <1>3, <1>4, <2>1, <2>3, <2>4, <2>5, <2>6 DEF LockDiscipline
  <1>7. CASE requestLock # t
    <2>1. request' = request /\ requestLock' = requestLock
      BY <1>7 DEF Commit, SeesRequest
    <2>2. RequestLocked'
      <3>1. CASE requestLock = NoTxn
        BY <3>1, <2>1, <1>1 DEF LockDiscipline, RequestLocked
      <3>2. CASE requestLock # NoTxn
        <4>1. requestLock \in Txns \ {t}
          BY <3>2, <1>7 DEF TypeOK
        <4>2. \A r \in Rows : SeesStep(requestLock, r).status # "pending"
                => SeesStep(requestLock, r)'.status # "pending"
          BY <4>1, <3>2, <2>1, <1>1, <1>2, <1>3 DEF SeesStep
        <4>3. /\ Settled(requestLock, Rows) => Settled(requestLock, Rows)'
              /\ Settled(requestLock, RowsAt(request.current_step))
                   => Settled(requestLock, RowsAt(request.current_step))'
          <5>1. RowsAt(request.current_step)' = RowsAt(request.current_step)
                /\ RowsAt(request.current_step) \subseteq Rows
            BY <1>1, <2>1 DEF RowsAt
          <5> QED BY <4>2, <5>1 DEF Settled
        <4>4. StillPending' = StillPending
          BY <2>1 DEF StillPending
        <4> QED BY <3>2, <4>1, <4>3, <4>4, <2>1, <1>1, <1>5
                DEF LockDiscipline, RequestLocked
      <3> QED BY <3>1, <3>2
    <2>3. ASSUME NEW u \in Txns PROVE CallKnows(u)'
      <3>1. CASE u = t
        BY <3>1, <1>1 DEF CallKnows, Deciding, HasDecided
      <3>2. CASE u # t
        <4>1. request.current_step \in Nat /\ u # NoTxn
          BY TxnAssumption DEF TypeOK, RequestRow
        <4> QED BY <3>2, <4>1, <2>1, <1>1, <1>2, <1>3, OthersKnow
      <3> QED BY <3>1, <3>2
    <2>4. Walked'
      BY <2>1, <1>1, <1>3, <1>5 DEF LockDiscipline, Walked
    <2> QED BY <1>3, <1>4, <2>1, <2>2, <2>3, <2>4 DEF LockDiscipline
  <1> QED BY <1>6, <1>7

\* A refused call changes no table and no lock, and knows nothing any more.
LEMMA ReturnUnchangedKeeps ==
  ASSUME TypeOK, LockDiscipline, NEW t \in Txns, NEW a,
         ReturnUnchanged(t, a), pc[t] \notin Writing
  PROVE  LockDiscipline'
  <1>1. /\ UNCHANGED <<committed, locks, chain>>
        /\ Goto(t, "idle") /\ Set(t, NoCall) /\ "idle" \in PCs
        /\ pc[t] # "commit"
    BY DEF ReturnUnchanged, Return, world, PCs, Writing
  <1>2. pc'[t] = "idle"
    BY <1>1 DEF Goto, TypeOK
  <1>3. CallKnows(t)'
    BY <1>2 DEF CallKnows, Deciding, HasDecided
  <1> QED BY <1>1, <1>3, ReadKeeps

LEMMA CallKeeps ==
  ASSUME TypeOK, LockDiscipline, NEW t \in Txns, Call(t)
  PROVE  LockDiscipline'
  <1> USE DEF world
  <1>1. ASSUME NEW actor \in Employees, NEW approve \in BOOLEAN, NEW n \in StepNos,
               DecideRequest(t, actor, approve, n)
        PROVE  LockDiscipline'
    <2>1. CASE DecideRefusal(actor, n) # "none"
      BY <1>1, <2>1, ReturnUnchangedKeeps DEF DecideRequest, Writing
    <2>2. CASE DecideRefusal(actor, n) = "none"
      <3> DEFINE locals == [NoCall EXCEPT !.verb = "decide", !.actor = actor,
                               !.approve = approve, !.step_no = n, !.answer = request.status]
      <3>1. /\ UNCHANGED <<committed, locks, chain>>
            /\ Goto(t, "rows") /\ Set(t, locals) /\ "rows" \in PCs
            /\ pc[t] = "idle"
        BY <1>1, <2>2 DEF DecideRequest, PCs
      <3>2. n = request.current_step /\ n \in Nat
        BY <2>2, ChainNumbers DEF DecideRefusal
      <3>3. pc'[t] = "rows" /\ tx'[t] = locals
        BY <3>1 DEF Goto, Set, TypeOK
      <3>4. /\ locals.verb = "decide" /\ locals.step_no = n
            /\ locals.unchecked = {} /\ locals.authorized = {}
        BY DEF NoCall
      <3>5. StepNos' = StepNos /\ request' = request
        BY <3>1 DEF StepNos, committed
      <3>6. CallKnows(t)'
        BY <3>2, <3>3, <3>4, <3>5 DEF CallKnows, Deciding, HasDecided
      <3> QED BY <3>1, <3>6, ReadKeeps DEF Writing
    <2> QED BY <2>1, <2>2
  <1>2. ASSUME NEW actor \in Employees, WithdrawRequest(t, actor)
        PROVE  LockDiscipline'
    <2>1. CASE WithdrawRefusal(actor) # "none"
      BY <1>2, <2>1, ReturnUnchangedKeeps DEF WithdrawRequest, Writing
    <2>2. CASE WithdrawRefusal(actor) = "none"
      <3> DEFINE locals == [NoCall EXCEPT !.verb = "withdraw", !.actor = actor]
      <3>1. /\ UNCHANGED <<committed, locks, chain>>
            /\ Goto(t, "skip") /\ Set(t, locals) /\ "skip" \in PCs
            /\ pc[t] = "idle"
        BY <1>2, <2>2 DEF WithdrawRequest, PCs
      <3>2. pc'[t] = "skip" /\ tx'[t].verb = "withdraw"
        BY <3>1 DEF Goto, Set, TypeOK, NoCall
      <3>3. CallKnows(t)'
        BY <3>2 DEF CallKnows, Deciding, HasDecided
      <3> QED BY <3>1, <3>3, ReadKeeps DEF Writing
    <2> QED BY <2>1, <2>2
  <1>3. ASSUME NEW n \in StepNos, EscalateRequest(t, n)
        PROVE  LockDiscipline'
    <2>1. CASE EscalateRefusal(n) # "none"
      BY <1>3, <2>1, ReturnUnchangedKeeps DEF EscalateRequest, Writing
    <2>2. CASE EscalateRefusal(n) = "none"
      <3> DEFINE locals == [NoCall EXCEPT !.verb = "escalate", !.step_no = n]
      <3>1. /\ UNCHANGED <<committed, locks, chain>>
            /\ Goto(t, "find") /\ Set(t, locals) /\ "find" \in PCs
            /\ pc[t] = "idle"
        BY <1>3, <2>2 DEF EscalateRequest, PCs
      <3>2. pc'[t] = "find"
        BY <3>1 DEF Goto, TypeOK
      <3>3. CallKnows(t)'
        BY <3>2 DEF CallKnows, Deciding, HasDecided
      <3> QED BY <3>1, <3>3, ReadKeeps DEF Writing
    <2> QED BY <2>1, <2>2
  <1> QED BY <1>1, <1>2, <1>3 DEF Call

\* The reads of decide: live_steps_at, the authorization loop, the choice.
LEMMA DecideReadsKeep ==
  ASSUME TypeOK, LockDiscipline, NEW t \in Txns,
         DecideRows(t) \/ Authorize(t) \/ Choose(t) \/ ChooseNone(t)
  PROVE  LockDiscipline'
  <1> USE DEF world
  <1>1. CallKnows(t) /\ tx[t] \in Locals
    BY DEF LockDiscipline, TypeOK
  <1>2. CASE DecideRows(t)
    <2> DEFINE rows == RowsAt(tx[t].step_no)
    <2>1. CASE rows = {}
      BY <1>2, <2>1, ReturnUnchangedKeeps DEF DecideRows, Writing
    <2>2. CASE rows # {}
      <3> DEFINE locals == [tx[t] EXCEPT
                    !.seen = [r \in Rows |-> IF r \in rows THEN SeesStep(t, r)
                                             ELSE UnreadRow],
                    !.unchecked = rows]
      <3>1. /\ UNCHANGED <<committed, locks, chain>>
            /\ Goto(t, "authorize") /\ Set(t, locals) /\ "authorize" \in PCs
            /\ pc[t] = "rows"
        BY <1>2, <2>2 DEF DecideRows, PCs
      <3>2. pc'[t] = "authorize" /\ tx'[t] = locals
        BY <3>1 DEF Goto, Set, TypeOK
      <3>3. /\ locals.verb = tx[t].verb /\ locals.step_no = tx[t].step_no
            /\ locals.unchecked = rows /\ locals.authorized = tx[t].authorized
        BY <1>1 DEF Locals
      <3>4. tx[t].authorized \subseteq rows
        BY <1>1, <3>1 DEF CallKnows
      <3>5. StepNos' = StepNos /\ request' = request /\ \A n : RowsAt(n)' = RowsAt(n)
        BY <3>1 DEF StepNos, RowsAt, committed
      <3>6. CallKnows(t)'
        BY <1>1, <3>1, <3>2, <3>3, <3>4, <3>5 DEF CallKnows, Deciding, HasDecided
      <3> QED BY <3>1, <3>6, ReadKeeps DEF Writing
    <2> QED BY <2>1, <2>2
  <1>3. CASE Authorize(t)
    <2>1. PICK r \in Rows :
            /\ First(t, r, tx[t].unchecked)
            /\ LET assignee == tx[t].seen[r].assigned_to
                   may == assignee = tx[t].actor \/ <<assignee, tx[t].actor>> \in delegations
               IN Set(t, [tx[t] EXCEPT !.unchecked = @ \ {r},
                                       !.authorized = IF may THEN @ \union {r} ELSE @])
            /\ Goto(t, IF tx[t].unchecked = {r} THEN "choose" ELSE "authorize")
      BY <1>3 DEF Authorize
    <2>2. /\ UNCHANGED <<committed, locks, chain>>
          /\ pc[t] = "authorize"
      BY <1>3 DEF Authorize
    <2>3. pc'[t] \in {"choose", "authorize"}
      BY <2>1 DEF Goto, TypeOK
    <2>4. /\ tx'[t].verb = tx[t].verb /\ tx'[t].step_no = tx[t].step_no
          /\ tx'[t].unchecked \subseteq tx[t].unchecked
          /\ tx'[t].authorized \subseteq tx[t].authorized \union {r}
      BY <1>1, <2>1 DEF Set, TypeOK, Locals
    <2>5. r \in tx[t].unchecked
      BY <2>1 DEF First
    <2>6. StepNos' = StepNos /\ request' = request /\ \A n : RowsAt(n)' = RowsAt(n)
      BY <2>2 DEF StepNos, RowsAt, committed
    <2>7. CallKnows(t)'
      BY <1>1, <2>2, <2>3, <2>4, <2>5, <2>6 DEF CallKnows, Deciding, HasDecided
    <2> DEFINE label == IF tx[t].unchecked = {r} THEN "choose" ELSE "authorize"
    <2>8. label \in PCs /\ Goto(t, label)
      BY <2>1 DEF PCs
    <2>9. PICK locals : Set(t, locals)
      BY <2>1
    <2> QED BY <2>2, <2>7, <2>8, <2>9, ReadKeeps DEF Writing
  <1>4. CASE Choose(t)
    <2>1. PICK r \in Rows :
            /\ First(t, r, Choosable(t))
            /\ Goto(t, "mark")
            /\ Set(t, [tx[t] EXCEPT !.row = r, !.assignee = tx[t].seen[r].assigned_to,
                                    !.seen = NoCall.seen, !.authorized = {}])
      BY <1>4 DEF Choose
    <2>2. /\ UNCHANGED <<committed, locks, chain>>
          /\ pc[t] = "choose" /\ pc'[t] = "mark"
      BY <1>4, <2>1 DEF Choose, Goto, TypeOK
    <2>3. tx'[t].verb = tx[t].verb /\ tx'[t].step_no = tx[t].step_no /\ tx'[t].row = r
      BY <1>1, <2>1 DEF Set, TypeOK, Locals
    <2>4. r \in tx[t].authorized
      BY <2>1 DEF First, Choosable
    <2>5. StepNos' = StepNos /\ request' = request /\ \A n : RowsAt(n)' = RowsAt(n)
      BY <2>2 DEF StepNos, RowsAt, committed
    <2>6. CallKnows(t)'
      BY <1>1, <2>2, <2>3, <2>4, <2>5 DEF CallKnows, Deciding, HasDecided
    <2> QED BY <2>1, <2>2, <2>6, ReadKeeps DEF Writing, PCs
  <1>5. CASE ChooseNone(t)
    BY <1>5, ReturnUnchangedKeeps DEF ChooseNone, Writing
  <1> QED BY <1>2, <1>3, <1>4, <1>5

\* mark_step_decided: the row is locked from here to the commit.
LEMMA MarkKeeps ==
  ASSUME TypeOK, LockDiscipline, NEW t \in Txns, Mark(t)
  PROVE  LockDiscipline'
  <1> DEFINE r == tx[t].row
  <1>1. /\ pc[t] = "mark" /\ CallKnows(t) /\ stepLock[r] = NoTxn
        /\ UNCHANGED <<committed, newRequest, requestLock, world, tx, answer>>
    BY DEF Mark, LockDiscipline
  <1>2. /\ r \in Rows /\ r \in RowsAt(tx[t].step_no) /\ tx[t].verb = "decide"
        /\ tx[t].step_no \in StepNos /\ tx[t].step_no <= request.current_step
    BY <1>1 DEF CallKnows, Deciding, RowsAt
  <1>3. StepNos' = StepNos /\ request' = request /\ \A n : RowsAt(n)' = RowsAt(n)
    BY <1>1 DEF StepNos, RowsAt, committed, world
  <1>4. CASE steps[r].status = "pending"
    <2>1. WriteStep(t, r, Decided(t, r)) /\ Goto(t, AfterMark(t))
      BY <1>4 DEF Mark
    <2>2. AfterMark(t) \in {"count", "skip"} /\ (AfterMark(t) = "count" => tx[t].approve)
      BY DEF AfterMark
    <2>3. pc'[t] = AfterMark(t) /\ stepLock'[r] = t /\ newSteps'[r] = Decided(t, r)
      BY <1>2, <2>1 DEF Goto, WriteStep, TypeOK
    <2>4. Decided(t, r).status # "pending"
      <3>1. steps[r] \in StepRow
        BY <1>2 DEF TypeOK
      <3> QED BY <3>1 DEF Decided, StepRow
    <2>5. CallKnows(t)'
      BY <1>1, <1>2, <1>3, <2>2, <2>3, <2>4 DEF CallKnows, Deciding, HasDecided
    <2> QED BY <1>1, <1>2, <1>4, <2>1, <2>2, <2>5, WriteStepKeeps DEF Writing, world
  <1>5. CASE steps[r].status # "pending"
    <2>1. /\ Goto(t, "reread") /\ UNCHANGED <<newSteps, stepLock>>
      BY <1>5 DEF Mark
    <2>2. pc'[t] = "reread"
      BY <2>1 DEF Goto, TypeOK
    <2>3. CallKnows(t)'
      BY <1>1, <1>2, <1>3, <2>2 DEF CallKnows, Deciding, HasDecided
    <2>4. Set(t, tx[t])
      BY <1>1 DEF Set, TypeOK
    <2>5. UNCHANGED <<committed, locks, chain>>
      BY <1>1, <2>1 DEF locks, world
    <2> QED BY <1>1, <2>1, <2>3, <2>4, <2>5, ReadKeeps DEF PCs, Writing
  <1> QED BY <1>4, <1>5

LEMMA RereadKeeps ==
  ASSUME TypeOK, LockDiscipline, NEW t \in Txns, Reread(t)
  PROVE  LockDiscipline'
  <1>1. /\ UNCHANGED <<committed, locks, chain>>
        /\ pc[t] = "reread" /\ Goto(t, "commit")
        /\ \E locals : Set(t, locals)
    BY DEF Reread, world
  <1>2. PICK locals : Set(t, locals)
    BY <1>1
  <1>3. pc'[t] = "commit"
    BY <1>1 DEF Goto, TypeOK
  <1>4. CallKnows(t)'
    BY <1>3 DEF CallKnows, Deciding, HasDecided
  <1> QED BY <1>1, <1>2, <1>4, ReadKeeps DEF Writing, PCs

\* skip_other_pending_steps and skip_sibling_pending_steps, row by row: a skip
\* never touches the row its own call has decided.
LEMMA SkipRowKeeps ==
  ASSUME TypeOK, LockDiscipline, NEW t \in Txns, SkipRow(t)
  PROVE  LockDiscipline'
  <1>1. PICK r \in StillToSkip(t) :
          /\ stepLock[r] = NoTxn
          /\ WriteStep(t, r, [steps[r] EXCEPT !.status = "skipped"])
    BY DEF SkipRow
  <1>2. /\ pc[t] = "skip" /\ CallKnows(t)
        /\ UNCHANGED <<committed, newRequest, requestLock, world, session>>
    BY DEF SkipRow, LockDiscipline
  <1>3. r \in Rows /\ SeesStep(t, r).status = "pending"
    BY DEF StillToSkip, SkipTargets
  <1>4. steps[r].status = "pending"
    BY <1>1, <1>3, TxnAssumption DEF SeesStep
  <1>5. Goto(t, "skip")
    BY <1>2 DEF Goto, TypeOK, session
  <1>6. CallKnows(t)'
    <2>1. StepNos' = StepNos /\ request' = request /\ \A n : RowsAt(n)' = RowsAt(n)
          /\ pc' = pc /\ tx' = tx
      BY <1>2 DEF StepNos, RowsAt, committed, world, session
    <2>2. HasDecided(t) => /\ tx[t].row \in RowsAt(tx[t].step_no)
                           /\ tx[t].row \in Rows
                           /\ stepLock[tx[t].row] = t
                           /\ newSteps[tx[t].row].status # "pending"
      BY <1>2 DEF CallKnows, RowsAt
    <2>3. HasDecided(t) => /\ stepLock'[tx[t].row] = t
                           /\ newSteps'[tx[t].row].status # "pending"
      BY <1>1, <2>2, TxnAssumption DEF WriteStep, TypeOK
    <2> QED BY <1>2, <2>1, <2>2, <2>3 DEF CallKnows, Deciding, HasDecided
  <1> QED BY <1>1, <1>2, <1>3, <1>4, <1>5, <1>6, WriteStepKeeps DEF Writing, world, session

LEMMA SkipDoneKeeps ==
  ASSUME TypeOK, LockDiscipline, NEW t \in Txns, SkipDone(t)
  PROVE  LockDiscipline'
  <1> DEFINE label == IF tx[t].verb = "withdraw" THEN "withdraw"
                      ELSE IF tx[t].approve THEN "count" ELSE "finish"
  <1>1. /\ UNCHANGED <<committed, locks, chain, tx>>
        /\ pc[t] = "skip" /\ Goto(t, label) /\ StillToSkip(t) = {}
        /\ CallKnows(t)
    BY DEF SkipDone, world, LockDiscipline
  <1>2. pc'[t] = label
    BY <1>1 DEF Goto, TypeOK
  <1>3. /\ \A n : RowsAt(n)' = RowsAt(n)
        /\ StepNos' = StepNos /\ request' = request
        /\ \A r : SeesStep(t, r)' = SeesStep(t, r)
        /\ newSteps' = newSteps /\ stepLock' = stepLock
    BY <1>1 DEF RowsAt, StepNos, SeesStep, committed, locks
  <1>4. label \in {"withdraw", "finish"} => Settled(t, Rows)
    <2>1. CASE tx[t].verb = "withdraw"
      BY <1>1, <2>1 DEF StillToSkip, SkipTargets, Settled
    <2>2. CASE tx[t].verb # "withdraw" /\ ~ tx[t].approve
      <3>1. HasDecided(t)
        BY <1>1, <2>2 DEF CallKnows, Deciding, HasDecided
      <3>2. SeesStep(t, tx[t].row).status # "pending"
        BY <1>1, <3>1 DEF CallKnows, SeesStep
      <3>3. \A r \in Rows \ {tx[t].row} : SeesStep(t, r).status # "pending"
        BY <1>1, <2>2 DEF StillToSkip, SkipTargets
      <3> QED BY <3>2, <3>3 DEF Settled
    <2> QED BY <2>1, <2>2
  <1>5. /\ label \in {"withdraw", "finish"} => Settled(t, Rows)'
        /\ label = "finish" => Settled(t, RowsAt(tx[t].step_no))'
    BY <1>1, <1>3, <1>4 DEF Settled, RowsAt
  <1>6. CallKnows(t)'
    BY <1>1, <1>2, <1>3, <1>5 DEF CallKnows, Deciding, HasDecided
  <1>7. Set(t, tx[t])
    BY <1>1 DEF Set, TypeOK
  <1> QED BY <1>1, <1>6, <1>7, ReadKeeps DEF Writing, PCs

\* The countdown: nobody at the step is pending any more in the call's eyes.
LEMMA CountKeeps ==
  ASSUME TypeOK, LockDiscipline, NEW t \in Txns, Count(t)
  PROVE  LockDiscipline'
  <1> DEFINE n == tx[t].step_no
  <1> DEFINE label == IF Remaining(t) # {} THEN "commit"
                      ELSE IF LastStep(n) THEN "finish" ELSE "advance"
  <1>1. /\ UNCHANGED <<committed, locks, chain, tx>>
        /\ pc[t] = "count" /\ Goto(t, label)
        /\ CallKnows(t)
    BY DEF Count, world, LockDiscipline
  <1>2. pc'[t] = label
    BY <1>1 DEF Goto, TypeOK
  <1>3. /\ \A m : RowsAt(m)' = RowsAt(m)
        /\ StepNos' = StepNos /\ request' = request
        /\ \A r : SeesStep(t, r)' = SeesStep(t, r)
        /\ newSteps' = newSteps /\ stepLock' = stepLock
        /\ LastStep(n)' = LastStep(n)
    BY <1>1 DEF RowsAt, StepNos, SeesStep, LastStep, committed, locks
  <1>4. label # "commit" => Settled(t, RowsAt(n))'
    BY <1>1, <1>3 DEF Remaining, Settled
  <1>5. n \in StepNos
    BY <1>1 DEF CallKnows, Deciding
  <1>6. label = "advance" => n + 1 \in StepNos
    BY <1>5, ChainNumbers
  <1>7. CallKnows(t)'
    BY <1>1, <1>2, <1>3, <1>4, <1>6 DEF CallKnows, Deciding, HasDecided
  <1>8. Set(t, tx[t])
    BY <1>1 DEF Set, TypeOK
  <1> QED BY <1>1, <1>7, <1>8, ReadKeeps DEF Writing, PCs

\* set_current_step, on a request that is still where the call has read it.
LEMMA AdvanceKeeps ==
  ASSUME TypeOK, LockDiscipline, NEW t \in Txns, Advance(t)
  PROVE  LockDiscipline'
  <1>1. /\ HasDecided(t) /\ CallKnows(t) /\ pc[t] = "advance"
    BY DEF Advance, HasDecided, Deciding, LockDiscipline
  <1>2. /\ StillPending /\ requestLock = NoTxn
        /\ request.current_step = tx[t].step_no
    BY <1>1, DeciderOwns
  <1> DEFINE row == [request EXCEPT !.current_step = tx[t].step_no + 1]
  <1>3. /\ WriteRequest(t, row)
        /\ Set(t, [tx[t] EXCEPT !.answer = request.status])
        /\ Goto(t, "commit")
        /\ UNCHANGED <<committed, newSteps, stepLock, chain>>
    BY <1>2 DEF Advance, world
  <1>4. /\ row = [request EXCEPT !.current_step = @ + 1]
        /\ row.current_step \in StepNos
        /\ Settled(t, RowsAt(request.current_step))
    <2>1. tx[t].step_no + 1 \in StepNos /\ Settled(t, RowsAt(tx[t].step_no))
      BY <1>1 DEF CallKnows
    <2> QED BY <2>1, <1>2 DEF TypeOK, RequestRow
  <1> QED BY <1>2, <1>3, <1>4, WriteRequestKeeps

\* finish_request: every row is settled, whether by a reject's skip or because
\* the last step of the chain is.
LEMMA FinishKeeps ==
  ASSUME TypeOK, LockDiscipline, NEW t \in Txns, Finish(t)
  PROVE  LockDiscipline'
  <1>1. /\ HasDecided(t) /\ CallKnows(t) /\ pc[t] = "finish"
    BY DEF Finish, HasDecided, Deciding, LockDiscipline
  <1>2. /\ StillPending /\ requestLock = NoTxn
        /\ request.current_step = tx[t].step_no
    BY <1>1, DeciderOwns
  <1> DEFINE verdict == IF tx[t].approve THEN "approved" ELSE "rejected"
  <1> DEFINE row == [request EXCEPT !.status = verdict, !.decided_by = tx[t].actor]
  <1>3. /\ WriteRequest(t, row)
        /\ Set(t, [tx[t] EXCEPT !.answer = verdict])
        /\ Goto(t, "commit")
        /\ UNCHANGED <<committed, newSteps, stepLock, chain>>
    BY <1>2 DEF Finish, world
  <1>4. row.status # "pending" /\ row.current_step = request.current_step
    BY DEF TypeOK, RequestRow
  <1>5. Settled(t, Rows)
    <2>1. CASE LastStep(tx[t].step_no)
      <3>1. ASSUME NEW r \in Rows PROVE SeesStep(t, r).status # "pending"
        <4>1. chain[r].step_no \in Nat /\ tx[t].step_no \in Nat
              /\ chain[r].step_no <= tx[t].step_no
          BY <1>1, <2>1, ChainNumbers DEF LastStep, CallKnows, Deciding
        <4>2. CASE chain[r].step_no = tx[t].step_no
          BY <1>1, <4>2 DEF CallKnows, Settled, RowsAt
        <4>3. CASE chain[r].step_no < tx[t].step_no
          <5>1. steps[r].status # "pending"
            BY <4>3, <1>2 DEF LockDiscipline, Walked, StillPending
          <5>2. stepLock[r] = NoTxn
            BY <5>1 DEF LockDiscipline, RowLocks
          <5> QED BY <5>1, <5>2, TxnAssumption DEF SeesStep
        <4> QED BY <4>1, <4>2, <4>3
      <3> QED BY <3>1 DEF Settled
    <2>2. CASE ~ LastStep(tx[t].step_no)
      BY <1>1, <2>2 DEF CallKnows
    <2> QED BY <2>1, <2>2
  <1> QED BY <1>2, <1>3, <1>4, <1>5, WriteRequestKeeps

\* withdraw_request.  Unlike a decision, a withdraw holds no row of its own and
\* may find the request decided; it then writes nothing.
LEMMA WithdrawFinishKeeps ==
  ASSUME TypeOK, LockDiscipline, NEW t \in Txns, WithdrawFinish(t)
  PROVE  LockDiscipline'
  <1> DEFINE locals == [tx[t] EXCEPT !.answer = "withdrawn"]
  <1>1. /\ pc[t] = "withdraw" /\ CallKnows(t) /\ requestLock = NoTxn
        /\ Set(t, locals) /\ Goto(t, "commit")
        /\ UNCHANGED <<committed, newSteps, stepLock, chain>>
    BY DEF WithdrawFinish, LockDiscipline, world
  <1>2. CASE StillPending
    <2> DEFINE row == [request EXCEPT !.status = "withdrawn", !.deleted = TRUE]
    <2>1. WriteRequest(t, row)
      BY <1>2 DEF WithdrawFinish
    <2>2. row.status # "pending" /\ row.current_step = request.current_step
      BY DEF TypeOK, RequestRow
    <2>3. Settled(t, Rows)
      BY <1>1 DEF CallKnows
    <2> QED BY <1>1, <1>2, <2>1, <2>2, <2>3, WriteRequestKeeps
  <1>3. CASE ~ StillPending
    <2>1. UNCHANGED <<committed, locks, chain>>
      BY <1>1, <1>3 DEF WithdrawFinish, locks
    <2>2. pc'[t] = "commit"
      BY <1>1 DEF Goto, TypeOK
    <2>3. CallKnows(t)'
      BY <2>2 DEF CallKnows, Deciding, HasDecided
    <2> QED BY <1>1, <2>1, <2>3, ReadKeeps DEF Writing, PCs
  <1> QED BY <1>2, <1>3

\* escalate_overdue_step moves a pending row to another assignee and decides none.
LEMMA EscalateKeeps ==
  ASSUME TypeOK, LockDiscipline, NEW t \in Txns, Escalate(t)
  PROVE  LockDiscipline'
  <1>1. CASE EscalateNowhere(t)
    BY <1>1, ReturnUnchangedKeeps DEF EscalateNowhere, Writing
  <1>2. CASE EscalateTo(t)
    <2>1. PICK r \in Rows, head \in Heads :
            /\ FirstPending(t, r)
            /\ Set(t, [tx[t] EXCEPT !.row = r, !.target = head,
                                    !.assignee = SeesStep(t, r).assigned_to])
      BY <1>2 DEF EscalateTo
    <2>2. /\ UNCHANGED <<committed, locks, chain>>
          /\ pc[t] = "find" /\ Goto(t, "escalate") /\ pc'[t] = "escalate"
      BY <1>2 DEF EscalateTo, world, Goto, TypeOK
    <2>3. tx'[t].row = r /\ tx'[t].step_no = tx[t].step_no
      BY <2>1 DEF Set, TypeOK, Locals
    <2>4. r \in RowsAt(tx[t].step_no) /\ \A n : RowsAt(n)' = RowsAt(n)
      BY <2>1, <2>2 DEF FirstPending, RowsAt
    <2>5. CallKnows(t)'
      BY <2>2, <2>3, <2>4 DEF CallKnows, Deciding, HasDecided
    <2> QED BY <2>1, <2>2, <2>5, ReadKeeps DEF Writing, PCs
  <1>3. CASE EscalateRow(t)
    <2> DEFINE r == tx[t].row
    <2>1. /\ pc[t] = "escalate" /\ stepLock[r] = NoTxn
          /\ r \in RowsAt(tx[t].step_no) /\ r \in Rows
      BY <1>3 DEF EscalateRow, LockDiscipline, CallKnows, RowsAt
    <2>2. CASE steps[r].status = "pending" /\ steps[r].assigned_to = tx[t].assignee
      <3>1. /\ WriteStep(t, r, [steps[r] EXCEPT !.assigned_to = tx[t].target,
                                                !.delegated_from = Nobody])
            /\ Goto(t, "index")
            /\ UNCHANGED <<tx, newRequest, requestLock, committed, chain>>
        BY <1>3, <2>2 DEF EscalateRow, world
      <3>2. pc'[t] = "index" /\ \A n : RowsAt(n)' = RowsAt(n)
        BY <3>1 DEF Goto, TypeOK, RowsAt
      <3>3. CallKnows(t)'
        BY <2>1, <3>1, <3>2 DEF CallKnows, Deciding, HasDecided
      <3> QED BY <2>1, <2>2, <3>1, <3>3, WriteStepKeeps DEF Writing
    <2>3. CASE ~ (steps[r].status = "pending" /\ steps[r].assigned_to = tx[t].assignee)
      BY <1>3, <2>1, <2>3, ReturnUnchangedKeeps DEF EscalateRow, Writing
    <2> QED BY <2>2, <2>3
  <1>4. CASE EscalateIndex(t)
    <2>1. CASE Rollback(t, "database_error")
      BY <2>1, RollbackKeeps
    <2>2. CASE ~ Rollback(t, "database_error")
      <3>1. /\ UNCHANGED <<committed, locks, chain>>
            /\ pc[t] = "index" /\ Goto(t, "commit") /\ pc'[t] = "commit"
            /\ Set(t, [tx[t] EXCEPT !.answer = "escalated"])
        BY <1>4, <2>2 DEF EscalateIndex, world, Goto, TypeOK
      <3>2. CallKnows(t)'
        BY <3>1 DEF CallKnows, Deciding, HasDecided
      <3> QED BY <3>1, <3>2, ReadKeeps DEF Writing, PCs
    <2> QED BY <2>1, <2>2
  <1> QED BY <1>1, <1>2, <1>3, <1>4 DEF Escalate

\* Windows and clocks change what a call may do, never what it holds.
LEMMA FrameKeeps ==
  ASSUME TypeOK, LockDiscipline, UNCHANGED <<committed, locks, chain, pc, tx>>
  PROVE  LockDiscipline'
  <1>1. /\ StepNos' = StepNos /\ StillPending' = StillPending
        /\ \A n : RowsAt(n)' = RowsAt(n) /\ LastStep(n)' = LastStep(n)
        /\ \A t, r : SeesStep(t, r)' = SeesStep(t, r)
    BY DEF StepNos, StillPending, RowsAt, LastStep, SeesStep, committed, locks
  <1>2. RowLocks' /\ Walked'
    BY <1>1 DEF LockDiscipline, RowLocks, Walked, committed, locks
  <1>3. RequestLocked'
    BY <1>1 DEF LockDiscipline, RequestLocked, Settled, committed, locks, RowsAt, SeesStep
  <1>4. ASSUME NEW t \in Txns PROVE CallKnows(t)'
    <2>1. request.current_step \in Nat
      BY DEF TypeOK, RequestRow
    <2> QED BY <2>1, OthersKnow DEF committed, locks
  <1> QED BY <1>2, <1>3, <1>4 DEF LockDiscipline

LEMMA InitDiscipline == Init => LockDiscipline
  <1> SUFFICES ASSUME Init PROVE LockDiscipline
    OBVIOUS
  <1>1. TypeOK
    BY InitType
  <1>2. RowLocks /\ RequestLocked
    BY DEF Init, RowLocks, RequestLocked
  <1>3. \A t \in Txns : CallKnows(t)
    BY DEF Init, CallKnows, Deciding, HasDecided
  <1>4. Walked
    <2>1. request.status = "pending" /\ request.current_step = 1 /\ ~ request.deleted
      BY DEF Init
    <2>2. 1 \in StepNos /\ \A r \in Rows : chain[r].step_no \in Nat /\ ~ (chain[r].step_no < 1)
      <3>1. \A r \in Rows : chain[r].step_no \in Nat \ {0}
        BY <1>1, ChainAssumption DEF TypeOK, ValidChain, ChainRow, ChainRowOf
      <3> QED BY <1>1, <3>1, ChainNumbers
    <2> QED BY <2>1, <2>2 DEF Walked
  <1> QED BY <1>2, <1>3, <1>4 DEF LockDiscipline

LEMMA StepDiscipline == TypeOK /\ LockDiscipline /\ [Next]_vars => LockDiscipline'
  <1> SUFFICES ASSUME TypeOK, LockDiscipline, [Next]_vars PROVE LockDiscipline'
    OBVIOUS
  <1>1. ASSUME NEW t \in Txns, Call(t) PROVE LockDiscipline'
    BY <1>1, CallKeeps
  <1>2. ASSUME NEW t \in Txns, Proceed(t) PROVE LockDiscipline'
    BY <1>2, DecideReadsKeep, MarkKeeps, RereadKeeps, SkipRowKeeps, SkipDoneKeeps,
       CountKeeps, AdvanceKeeps, FinishKeeps, WithdrawFinishKeeps, EscalateKeeps,
       CommitKeeps, RollbackKeeps
       DEF Proceed, Decide, CancelDeadlocked
  <1>3. ASSUME NEW t \in Txns, Abort(t) PROVE LockDiscipline'
    BY <1>3, RollbackKeeps DEF Abort
  <1>4. CASE Environment
    BY <1>4, FrameKeeps
       DEF Environment, DelegationStarts, DelegationEnds, SlaBreach, session
  <1>5. CASE UNCHANGED vars
    BY <1>5, FrameKeeps DEF vars, world, session
  <1> QED BY <1>1, <1>2, <1>3, <1>4, <1>5 DEF Next

\* Every reachable state obeys the lock discipline: a call's row locks keep what
\* decide, withdraw and escalate_overdue_step have read true until they commit.
THEOREM LockDisciplineHolds == Spec => []LockDiscipline
  <1>1. Init => TypeOK /\ LockDiscipline
    BY InitType, InitDiscipline
  <1>2. TypeOK /\ LockDiscipline /\ [Next]_vars => (TypeOK /\ LockDiscipline)'
    BY StepType, StepDiscipline
  <1> QED BY <1>1, <1>2, PTL DEF Spec

-----------------------------------------------------------------------------
(* What the lock discipline gives.                                         *)

\* The None branches of finish_request and set_current_step are dead in decide,
\* for any number of sessions, rows and steps: a call that has decided its row
\* finds the request pending, unlocked and at its own step.
THEOREM DecidersOwnTheirVerdict == Spec => []DeciderOwnsVerdict
  <1>1. TypeOK /\ LockDiscipline => DeciderOwnsVerdict
    <2> SUFFICES ASSUME TypeOK, LockDiscipline, NEW t \in Txns,
                        pc[t] \in {"advance", "finish"}
                 PROVE  /\ StillPending
                        /\ requestLock = NoTxn
                        /\ request.current_step = tx[t].step_no
      BY DEF DeciderOwnsVerdict
    <2>1. HasDecided(t)
      BY DEF HasDecided, Deciding
    <2> QED BY <2>1, DeciderOwns
  <1> QED BY <1>1, TypeCorrect, LockDisciplineHolds, PTL

\* Only a commit changes the committed tables.
LEMMA OnlyCommitsPublish ==
  ASSUME Next, \A t \in Txns : ~ Commit(t)
  PROVE  UNCHANGED committed
  <1>1. ASSUME NEW t \in Txns, Call(t) PROVE UNCHANGED committed
    BY <1>1 DEF Call, DecideRequest, WithdrawRequest, EscalateRequest, ReturnUnchanged
  <1>2. ASSUME NEW t \in Txns, Decide(t) PROVE UNCHANGED committed
    BY <1>2 DEF Decide, DecideRows, Authorize, Choose, ChooseNone, Mark, Reread, Count,
                Advance, Finish, ReturnUnchanged
  <1>3. ASSUME NEW t \in Txns, Escalate(t) PROVE UNCHANGED committed
    BY <1>3 DEF Escalate, EscalateNowhere, EscalateTo, EscalateRow, EscalateIndex,
                ReturnUnchanged, Rollback
  <1>4. ASSUME NEW t \in Txns, SkipRow(t) \/ SkipDone(t) \/ WithdrawFinish(t)
                               \/ CancelDeadlocked(t) \/ Abort(t)
        PROVE  UNCHANGED committed
    BY <1>4 DEF SkipRow, SkipDone, WithdrawFinish, CancelDeadlocked, Abort, Rollback
  <1>5. CASE Environment
    BY <1>5 DEF Environment, DelegationStarts, DelegationEnds, SlaBreach
  <1> QED BY <1>1, <1>2, <1>3, <1>4, <1>5 DEF Next, Proceed

\* No interleaving of decisions, withdrawals, escalations, rollbacks and lost
\* connections rewrites a decided row or a verdict, or makes the chain go back
\* or leave a step out.
THEOREM DecisionsFinal == Spec => DecisionsAreFinal
  <1> DEFINE Final == /\ \A r \in Rows : steps[r].status # "pending" => steps'[r] = steps[r]
                      /\ request.status # "pending" => request' = request
                      /\ request'.current_step
                            \in {request.current_step, request.current_step + 1}
  <1>1. TypeOK /\ LockDiscipline /\ [Next]_vars => [Final]_vars
    <2> SUFFICES ASSUME TypeOK, LockDiscipline, Next PROVE Final
      OBVIOUS
    <2>1. CASE \E t \in Txns : Commit(t)
      BY <2>1, CommitKeeps DEF StillPending
    <2>2. CASE \A t \in Txns : ~ Commit(t)
      <3>1. steps' = steps /\ request' = request
        BY <2>2, OnlyCommitsPublish DEF committed
      <3> QED BY <3>1
    <2> QED BY <2>1, <2>2
  <1> QED BY <1>1, TypeCorrect, LockDisciplineHolds, PTL DEF Spec, DecisionsAreFinal
=============================================================================
