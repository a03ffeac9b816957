-------------------- MODULE DecisionEngineVerdict_proofs --------------------
(***************************************************************************)
(* What TLAPS proves about the verdicts of the decision engine: that they  *)
(* are what the rows say, that they name who gave them, and that decide    *)
(* reports them.  It rests on the lock discipline of DecisionEngine_proofs *)
(* and on the second inductive invariant of DecisionEngineInv, Evidence.   *)
(***************************************************************************)
EXTENDS DecisionEngine_proofs, FiniteSetTheorems

-----------------------------------------------------------------------------
(* What a step of one call leaves alone of another.                        *)

\* The step touches nothing of what u has read or written.
Untouched(u) ==
    /\ chain' = chain
    /\ pc'[u] = pc[u] /\ tx'[u] = tx[u]
    /\ request.current_step <= request'.current_step
    /\ request'.current_step \in Nat
    /\ request.status # "pending" => request'.status = request.status
    /\ requestLock' = u <=> requestLock = u
    /\ requestLock = u => newRequest' = newRequest /\ request' = request
    /\ \A r \in Rows : /\ stepLock'[r] = u <=> stepLock[r] = u
                       /\ stepLock[r] = u => newSteps'[r] = newSteps[r]
                       /\ steps[r].status # "pending" => steps'[r].status # "pending"

\* A call that is not touched still tells what it told.
LEMMA OthersTell ==
  ASSUME TypeOK, LockDiscipline, NEW u \in Txns, Tells(u), Untouched(u)
  PROVE  Tells(u)'
  <1> USE DEF Untouched
  <1>1. /\ \A n : RowsAt(n)' = RowsAt(n)
        /\ \A n : LastStep(n)' = LastStep(n)
        /\ \A r : AnyHolderRow(r)' = AnyHolderRow(r)
        /\ VerdictOf(u)' = VerdictOf(u)
        /\ Deciding(u)' = Deciding(u)
    BY DEF RowsAt, LastStep, StepNos, AnyHolderRow, VerdictOf, Deciding
  <1>2. OwnsRow(u) => OwnsRow(u)'
    BY <1>1 DEF OwnsRow, RowsAt
  <1>3. ASSUME NEW r \in Rows, stepLock'[r] = u PROVE RowTells(u, r)'
    <2>1. stepLock[r] = u /\ RowTells(u, r) /\ newSteps'[r] = newSteps[r]
      BY <1>3 DEF Tells
    <2> QED BY <2>1, <1>1, <1>2 DEF RowTells
  <1>4. requestLock' = u => RequestTells(u)'
    BY <1>1, <1>2 DEF Tells, RequestTells
  <1>5. Settled(u, RowsAt(tx[u].step_no)) => Settled(u, RowsAt(tx[u].step_no))'
    BY <1>1 DEF Settled, SeesStep, RowsAt
  <1>6. tx[u].verb = "decide" => tx[u].step_no <= request'.current_step
    <2>1. tx[u].step_no \in Nat /\ request.current_step \in Nat
      BY DEF TypeOK, Locals, RequestRow
    <2> QED BY <2>1 DEF Tells, CallTells
  <1>7. tx[u].answer \in {"approved", "rejected"} =>
          pc[u] = "commit" /\ SeesRequest(u)'.status = tx[u].answer
    BY DEF Tells, CallTells, SeesRequest
  <1>8. CallTells(u)'
    BY <1>1, <1>5, <1>6, <1>7 DEF Tells, CallTells
  <1> QED BY <1>3, <1>4, <1>8 DEF Tells

\* A session that is at no writing statement holds no row, and only a call about
\* to commit holds the request.
LEMMA NoLocks ==
  ASSUME TypeOK, LockDiscipline, NEW t \in Txns
  PROVE  /\ pc[t] \notin Writing => \A r \in Rows : stepLock[r] # t
         /\ pc[t] # "commit" => requestLock # t
  BY TxnAssumption DEF LockDiscipline, RowLocks, RequestLocked

\* Statements that only read.
LEMMA ReadsTouchNobody ==
  ASSUME TypeOK, NEW t \in Txns, NEW label, NEW locals,
         UNCHANGED <<committed, locks, chain>>, Goto(t, label), Set(t, locals)
  PROVE  \A u \in Txns \ {t} : Untouched(u)
  BY DEF TypeOK, RequestRow, Goto, Set, Untouched, committed, locks

\* The UPDATE of a row nobody holds.
LEMMA RowWritesTouchNobody ==
  ASSUME TypeOK, NEW t \in Txns, NEW r \in Rows, NEW row, NEW label,
         stepLock[r] = NoTxn, WriteStep(t, r, row), Goto(t, label),
         UNCHANGED <<tx, committed, newRequest, requestLock, chain>>
  PROVE  \A u \in Txns \ {t} : Untouched(u)
  <1> SUFFICES ASSUME NEW u \in Txns \ {t} PROVE Untouched(u)
    OBVIOUS
  <1>1. \A q \in Rows : /\ stepLock'[q] = IF q = r THEN t ELSE stepLock[q]
                        /\ newSteps'[q] = IF q = r THEN row ELSE newSteps[q]
    BY DEF WriteStep, TypeOK
  <1>2. request.current_step \in Nat /\ u # NoTxn
    BY TxnAssumption DEF TypeOK, RequestRow
  <1> QED BY <1>1, <1>2 DEF TypeOK, Goto, Untouched, committed

\* The UPDATE of the request nobody holds.
LEMMA RequestWritesTouchNobody ==
  ASSUME TypeOK, NEW t \in Txns, NEW row, NEW label, NEW locals,
         requestLock = NoTxn, WriteRequest(t, row), Goto(t, label), Set(t, locals),
         UNCHANGED <<committed, newSteps, stepLock, chain>>
  PROVE  \A u \in Txns \ {t} : Untouched(u)
  <1> SUFFICES ASSUME NEW u \in Txns \ {t} PROVE Untouched(u)
    OBVIOUS
  <1>1. request.current_step \in Nat /\ u # NoTxn
    BY TxnAssumption DEF TypeOK, RequestRow
  <1> QED BY <1>1 DEF TypeOK, Goto, Set, WriteRequest, Untouched, committed

LEMMA RollbackTouchesNobody ==
  ASSUME TypeOK, NEW t \in Txns, NEW a, Rollback(t, a)
  PROVE  \A u \in Txns \ {t} : Untouched(u)
  <1> SUFFICES ASSUME NEW u \in Txns \ {t} PROVE Untouched(u)
    OBVIOUS
  <1>1. \A r \in Rows :
          /\ stepLock'[r] = IF stepLock[r] = t THEN NoTxn ELSE stepLock[r]
          /\ newSteps'[r] = IF stepLock[r] = t THEN steps[r] ELSE newSteps[r]
    BY DEF Rollback, TypeOK
  <1>2. /\ pc'[u] = pc[u] /\ tx'[u] = tx[u]
        /\ UNCHANGED <<committed, chain>>
    BY DEF Rollback, Return, Goto, Set, TypeOK, world
  <1>3. request.current_step \in Nat /\ u # NoTxn
    BY TxnAssumption DEF TypeOK, RequestRow
  <1>4. /\ requestLock' = u <=> requestLock = u
        /\ requestLock = u => newRequest' = newRequest
    BY <1>3 DEF Rollback
  <1> QED BY <1>1, <1>2, <1>3, <1>4 DEF Untouched, committed

LEMMA CommitTouchesNobody ==
  ASSUME TypeOK, LockDiscipline, NEW t \in Txns, Commit(t)
  PROVE  \A u \in Txns \ {t} : Untouched(u)
  <1> SUFFICES ASSUME NEW u \in Txns \ {t} PROVE Untouched(u)
    OBVIOUS
  <1>1. /\ \A r \in Rows : steps[r].status # "pending" => steps'[r] = steps[r]
        /\ ~ StillPending => request' = request
        /\ request'.current_step \in {request.current_step, request.current_step + 1}
    BY CommitKeeps
  <1>2. /\ pc'[u] = pc[u] /\ tx'[u] = tx[u]
        /\ UNCHANGED <<newRequest, newSteps, chain>>
    BY DEF Commit, Return, Goto, Set, TypeOK, world
  <1>3. request.current_step \in Nat /\ u # NoTxn
    BY TxnAssumption DEF TypeOK, RequestRow
  <1>4. /\ requestLock' = u <=> requestLock = u
        /\ requestLock = u => request' = request
        /\ \A r \in Rows : stepLock'[r] = u <=> stepLock[r] = u
    BY <1>3 DEF Commit, SeesRequest
  <1> QED BY <1>1, <1>2, <1>3, <1>4 DEF Untouched, StillPending

-----------------------------------------------------------------------------
(* What a call tells after its own statement.                              *)

\* A session that has returned holds nothing and tells nothing.
LEMMA IdleTells ==
  ASSUME NEW t \in Txns, pc'[t] = "idle", tx'[t] = NoCall,
         \A r \in Rows : stepLock'[r] # t, requestLock' # t
  PROVE  Tells(t)'
  <1>1. NoCall.verb = "none" /\ NoCall.answer = "none"
    BY DEF NoCall
  <1> QED BY <1>1 DEF Tells, CallTells, Deciding

\* A call that has written nothing has only its locals to keep.
LEMMA QuietTells ==
  ASSUME TypeOK, LockDiscipline, NEW t \in Txns, pc[t] \notin Writing,
         UNCHANGED locks, CallTells(t)'
  PROVE  Tells(t)'
  <1>1. (\A r \in Rows : stepLock'[r] # t) /\ requestLock' # t
    BY NoLocks DEF locks, Writing
  <1> QED BY <1>1 DEF Tells

LEMMA ReturnUnchangedTells ==
  ASSUME TypeOK, LockDiscipline, NEW t \in Txns, NEW a,
         pc[t] \notin Writing, ReturnUnchanged(t, a)
  PROVE  Tells(t)' /\ \A u \in Txns \ {t} : Untouched(u)
  <1>1. /\ UNCHANGED <<committed, locks, chain>> /\ Goto(t, "idle") /\ Set(t, NoCall)
    BY DEF ReturnUnchanged, Return, world
  <1>2. pc'[t] = "idle" /\ tx'[t] = NoCall
    BY <1>1 DEF Goto, Set, TypeOK
  <1>3. (\A r \in Rows : stepLock'[r] # t) /\ requestLock' # t
    BY <1>1, NoLocks DEF locks, Writing
  <1> QED BY <1>1, <1>2, <1>3, IdleTells, ReadsTouchNobody

LEMMA RollbackTells ==
  ASSUME TypeOK, NEW t \in Txns, NEW a, Rollback(t, a)
  PROVE  Tells(t)' /\ \A u \in Txns \ {t} : Untouched(u)
  <1>1. pc'[t] = "idle" /\ tx'[t] = NoCall
    BY DEF Rollback, Return, Goto, Set, TypeOK
  <1>2. (\A r \in Rows : stepLock'[r] # t) /\ requestLock' # t
    BY TxnAssumption DEF Rollback, TypeOK
  <1> QED BY <1>1, <1>2, IdleTells, RollbackTouchesNobody

\* A call that starts: the requester is turned away from decide.
LEMMA CallStartTells ==
  ASSUME TypeOK, LockDiscipline, NEW t \in Txns, Call(t)
  PROVE  Tells(t)' /\ \A u \in Txns \ {t} : Untouched(u)
  <1> USE DEF world
  <1>1. pc[t] = "idle" /\ "idle" \notin Writing
    BY DEF Call, DecideRequest, WithdrawRequest, EscalateRequest, Writing
  <1>2. ASSUME NEW actor \in Employees, NEW approve \in BOOLEAN, NEW n \in StepNos,
               DecideRequest(t, actor, approve, n)
        PROVE  Tells(t)' /\ \A u \in Txns \ {t} : Untouched(u)
    <2>1. CASE DecideRefusal(actor, n) # "none"
      BY <1>1, <1>2, <2>1, ReturnUnchangedTells DEF DecideRequest
    <2>2. CASE DecideRefusal(actor, n) = "none"
      <3> DEFINE locals == [NoCall EXCEPT !.verb = "decide", !.actor = actor,
                               !.approve = approve, !.step_no = n, !.answer = request.status]
      <3>1. /\ UNCHANGED <<committed, locks, chain>> /\ Goto(t, "rows") /\ Set(t, locals)
        BY <1>2, <2>2 DEF DecideRequest
      <3>2. /\ actor # Requester /\ n = request.current_step
            /\ request.status = "pending" /\ n \in Nat
        BY <2>2 DEF DecideRefusal, TypeOK, RequestRow
      <3>3. pc'[t] = "rows" /\ tx'[t] = locals /\ request' = request
        BY <3>1 DEF Goto, Set, TypeOK, committed
      <3>4. /\ locals.actor = actor /\ locals.step_no = n /\ locals.answer = "pending"
        BY <3>2 DEF NoCall
      <3>5. CallTells(t)'
        BY <3>2, <3>3, <3>4 DEF CallTells
      <3> QED BY <1>1, <3>1, <3>5, QuietTells, ReadsTouchNobody
    <2> QED BY <2>1, <2>2
  <1>3. ASSUME NEW actor \in Employees, WithdrawRequest(t, actor)
        PROVE  Tells(t)' /\ \A u \in Txns \ {t} : Untouched(u)
    <2>1. CASE WithdrawRefusal(actor) # "none"
      BY <1>1, <1>3, <2>1, ReturnUnchangedTells DEF WithdrawRequest
    <2>2. CASE WithdrawRefusal(actor) = "none"
      <3> DEFINE locals == [NoCall EXCEPT !.verb = "withdraw", !.actor = actor]
      <3>1. /\ UNCHANGED <<committed, locks, chain>> /\ Goto(t, "skip") /\ Set(t, locals)
        BY <1>3, <2>2 DEF WithdrawRequest
      <3>2. pc'[t] = "skip" /\ tx'[t].verb = "withdraw" /\ tx'[t].answer = "none"
        BY <3>1 DEF Goto, Set, TypeOK, NoCall
      <3>3. CallTells(t)'
        BY <3>2 DEF CallTells, Deciding
      <3> QED BY <1>1, <3>1, <3>3, QuietTells, ReadsTouchNobody
    <2> QED BY <2>1, <2>2
  <1>4. ASSUME NEW n \in StepNos, EscalateRequest(t, n)
        PROVE  Tells(t)' /\ \A u \in Txns \ {t} : Untouched(u)
    <2>1. CASE EscalateRefusal(n) # "none"
      BY <1>1, <1>4, <2>1, ReturnUnchangedTells DEF EscalateRequest
    <2>2. CASE EscalateRefusal(n) = "none"
      <3> DEFINE locals == [NoCall EXCEPT !.verb = "escalate", !.step_no = n]
      <3>1. /\ UNCHANGED <<committed, locks, chain>> /\ Goto(t, "find") /\ Set(t, locals)
        BY <1>4, <2>2 DEF EscalateRequest
      <3>2. pc'[t] = "find" /\ tx'[t].verb = "escalate" /\ tx'[t].answer = "none"
        BY <3>1 DEF Goto, Set, TypeOK, NoCall
      <3>3. CallTells(t)'
        BY <3>2 DEF CallTells
      <3> QED BY <1>1, <3>1, <3>3, QuietTells, ReadsTouchNobody
    <2> QED BY <2>1, <2>2
  <1> QED BY <1>2, <1>3, <1>4 DEF Call

\* A read that keeps who calls, for which step, and that nothing is answered yet.
LEMMA ReadOnTells ==
  ASSUME TypeOK, LockDiscipline, NEW t \in Txns, Tells(t),
         pc[t] \in {"rows", "authorize", "choose"},
         NEW label \in {"authorize", "choose", "mark"}, NEW locals,
         UNCHANGED <<committed, locks, chain>>, Goto(t, label), Set(t, locals),
         locals.verb = tx[t].verb, locals.actor = tx[t].actor,
         locals.step_no = tx[t].step_no, locals.answer = tx[t].answer
  PROVE  Tells(t)' /\ \A u \in Txns \ {t} : Untouched(u)
  <1>1. pc'[t] = label /\ tx'[t] = locals /\ request' = request /\ pc[t] \notin Writing
    BY DEF Goto, Set, TypeOK, committed, Writing
  <1>2. CallTells(t)'
    BY <1>1 DEF Tells, CallTells, Deciding
  <1> QED BY <1>1, <1>2, QuietTells, ReadsTouchNobody

\* The reads of decide.
LEMMA DecideReadsTell ==
  ASSUME TypeOK, LockDiscipline, NEW t \in Txns, Tells(t),
         DecideRows(t) \/ Authorize(t) \/ Choose(t) \/ ChooseNone(t)
  PROVE  Tells(t)' /\ \A u \in Txns \ {t} : Untouched(u)
  <1>1. tx[t] \in Locals
    BY DEF TypeOK
  <1>2. CASE DecideRows(t)
    <2> DEFINE rows == RowsAt(tx[t].step_no)
    <2>1. CASE rows = {}
      BY <1>2, <2>1, ReturnUnchangedTells DEF DecideRows, Writing
    <2>2. CASE rows # {}
      <3> DEFINE locals == [tx[t] EXCEPT
                    !.seen = [r \in Rows |-> IF r \in rows THEN SeesStep(t, r)
                                             ELSE UnreadRow],
                    !.unchecked = rows]
      <3>1. /\ UNCHANGED <<committed, locks, chain>> /\ pc[t] = "rows"
            /\ Goto(t, "authorize") /\ Set(t, locals)
        BY <1>2, <2>2 DEF DecideRows, world
      <3>2. /\ locals.verb = tx[t].verb /\ locals.actor = tx[t].actor
            /\ locals.step_no = tx[t].step_no /\ locals.answer = tx[t].answer
        BY <1>1 DEF Locals
      <3> HIDE DEF locals
      <3> QED BY <3>1, <3>2, ReadOnTells
    <2> QED BY <2>1, <2>2
  <1>3. CASE Authorize(t)
    <2>1. PICK r \in Rows :
            /\ LET assignee == tx[t].seen[r].assigned_to
                   may == assignee = tx[t].actor \/ <<assignee, tx[t].actor>> \in delegations
               IN Set(t, [tx[t] EXCEPT !.unchecked = @ \ {r},
                                       !.authorized = IF may THEN @ \union {r} ELSE @])
            /\ Goto(t, IF tx[t].unchecked = {r} THEN "choose" ELSE "authorize")
      BY <1>3 DEF Authorize
    <2> DEFINE may == tx[t].seen[r].assigned_to = tx[t].actor
                      \/ <<tx[t].seen[r].assigned_to, tx[t].actor>> \in delegations
    <2> DEFINE locals == [tx[t] EXCEPT !.unchecked = @ \ {r},
                             !.authorized = IF may THEN @ \union {r} ELSE @]
    <2> DEFINE label == IF tx[t].unchecked = {r} THEN "choose" ELSE "authorize"
    <2>2. /\ UNCHANGED <<committed, locks, chain>> /\ pc[t] = "authorize"
          /\ Goto(t, label) /\ Set(t, locals) /\ label \in {"authorize", "choose", "mark"}
      BY <1>3, <2>1 DEF Authorize, world
    <2>3. /\ locals.verb = tx[t].verb /\ locals.actor = tx[t].actor
          /\ locals.step_no = tx[t].step_no /\ locals.answer = tx[t].answer
      BY <1>1 DEF Locals
    <2> HIDE DEF locals, label
    <2> QED BY <2>2, <2>3, ReadOnTells
  <1>4. CASE Choose(t)
    <2>1. PICK r \in Rows :
            /\ Goto(t, "mark")
            /\ Set(t, [tx[t] EXCEPT !.row = r, !.assignee = tx[t].seen[r].assigned_to,
                                    !.seen = NoCall.seen, !.authorized = {}])
      BY <1>4 DEF Choose
    <2> DEFINE locals == [tx[t] EXCEPT !.row = r, !.assignee = tx[t].seen[r].assigned_to,
                             !.seen = NoCall.seen, !.authorized = {}]
    <2>2. /\ UNCHANGED <<committed, locks, chain>> /\ pc[t] = "choose"
          /\ Goto(t, "mark") /\ Set(t, locals)
      BY <1>4, <2>1 DEF Choose, world
    <2>3. /\ locals.verb = tx[t].verb /\ locals.actor = tx[t].actor
          /\ locals.step_no = tx[t].step_no /\ locals.answer = tx[t].answer
      BY <1>1 DEF Locals
    <2> HIDE DEF locals
    <2> QED BY <2>2, <2>3, ReadOnTells
  <1>5. CASE ChooseNone(t)
    BY <1>5, ReturnUnchangedTells DEF ChooseNone, Writing
  <1> QED BY <1>2, <1>3, <1>4, <1>5

\* mark_step_decided: the row says what the caller wants and who the caller is.
LEMMA MarkTells ==
  ASSUME TypeOK, LockDiscipline, NEW t \in Txns, Tells(t), Mark(t)
  PROVE  Tells(t)' /\ \A u \in Txns \ {t} : Untouched(u)
  <1> DEFINE r == tx[t].row
  <1>1. /\ pc[t] = "mark" /\ CallKnows(t) /\ CallTells(t) /\ stepLock[r] = NoTxn
        /\ UNCHANGED <<committed, newRequest, requestLock, chain, tx>>
        /\ pc[t] \notin Writing
    BY DEF Mark, LockDiscipline, Tells, world, Writing
  <1>2. /\ r \in Rows /\ r \in RowsAt(tx[t].step_no) /\ tx[t].verb = "decide"
    BY <1>1 DEF CallKnows, Deciding, RowsAt
  <1>3. /\ request' = request /\ \A n : RowsAt(n)' = RowsAt(n)
        /\ \A q : AnyHolderRow(q)' = AnyHolderRow(q)
        /\ VerdictOf(t)' = VerdictOf(t)
    BY <1>1 DEF RowsAt, committed, AnyHolderRow, VerdictOf
  <1>4. requestLock # t /\ \A q \in Rows : stepLock[q] # t
    BY <1>1, NoLocks
  <1>5. CASE steps[r].status = "pending"
    <2>1. WriteStep(t, r, Decided(t, r)) /\ Goto(t, AfterMark(t))
      BY <1>5 DEF Mark
    <2>2. /\ pc'[t] = AfterMark(t) /\ stepLock'[r] = t /\ newSteps'[r] = Decided(t, r)
          /\ \A q \in Rows \ {r} : stepLock'[q] # t
      BY <1>2, <1>4, <2>1 DEF Goto, WriteStep, TypeOK
    <2>3. Decided(t, r).status = VerdictOf(t) /\ Decided(t, r).actor = tx[t].actor
      <3>1. steps[r] \in StepRow
        BY <1>2 DEF TypeOK
      <3> QED BY <3>1 DEF Decided, StepRow, VerdictOf
    <2>4. OwnsRow(t)'
      BY <1>1, <1>2, <1>3, <2>2 DEF OwnsRow
    <2>5. RowTells(t, r)'
      BY <1>1, <1>2, <1>3, <2>2, <2>3, <2>4 DEF RowTells
    <2>6. CallTells(t)'
      BY <1>1, <1>2, <1>3, <2>2 DEF CallTells, AfterMark, Deciding
    <2>7. \A u \in Txns \ {t} : Untouched(u)
      BY <1>1, <1>2, <2>1, RowWritesTouchNobody
    <2> QED BY <1>1, <1>4, <2>2, <2>5, <2>6, <2>7 DEF Tells
  <1>6. CASE steps[r].status # "pending"
    <2>1. /\ Goto(t, "reread") /\ UNCHANGED <<newSteps, stepLock>>
      BY <1>6 DEF Mark
    <2>2. pc'[t] = "reread" /\ Set(t, tx[t]) /\ UNCHANGED <<committed, locks, chain>>
      BY <1>1, <2>1 DEF Goto, Set, TypeOK, locks
    <2>3. CallTells(t)'
      BY <1>1, <1>2, <1>3, <2>2 DEF CallTells, Deciding
    <2> QED BY <1>1, <2>1, <2>2, <2>3, QuietTells, ReadsTouchNobody
  <1> QED BY <1>5, <1>6

\* A call that has lost its row answers what the request has come to.
LEMMA RereadTells ==
  ASSUME TypeOK, LockDiscipline, NEW t \in Txns, Tells(t), Reread(t)
  PROVE  Tells(t)' /\ \A u \in Txns \ {t} : Untouched(u)
  <1> DEFINE locals == [tx[t] EXCEPT !.answer = IF SeesRequest(t).deleted THEN @
                                                ELSE SeesRequest(t).status]
  <1>1. /\ pc[t] = "reread" /\ Goto(t, "commit") /\ Set(t, locals)
        /\ UNCHANGED <<committed, locks, chain>> /\ tx[t] \in Locals /\ CallTells(t)
    BY DEF Reread, world, TypeOK, Tells
  <1>2. /\ locals.verb = tx[t].verb /\ locals.actor = tx[t].actor
        /\ locals.step_no = tx[t].step_no
        /\ locals.answer = IF SeesRequest(t).deleted THEN tx[t].answer
                           ELSE SeesRequest(t).status
    BY <1>1 DEF Locals
  <1>3. pc'[t] = "commit" /\ tx'[t] = locals /\ request' = request
        /\ SeesRequest(t)' = SeesRequest(t)
    BY <1>1 DEF Goto, Set, TypeOK, committed, locks, SeesRequest
  <1>4. \A r \in Rows : stepLock'[r] # t
    BY <1>1, NoLocks DEF locks, Writing
  <1> HIDE DEF locals
  <1>5. CallTells(t)'
    BY <1>1, <1>2, <1>3, <1>4 DEF CallTells, Deciding
  <1> QED BY <1>1, <1>5, QuietTells, ReadsTouchNobody DEF Writing

\* The rows a call has written keep telling the same through its next statements.
LEMMA RowsStillTell ==
  ASSUME NEW t \in Txns, Tells(t), UNCHANGED <<newSteps, stepLock, chain>>,
         tx'[t].verb = tx[t].verb, tx'[t].actor = tx[t].actor,
         tx'[t].approve = tx[t].approve, tx'[t].step_no = tx[t].step_no,
         tx'[t].row = tx[t].row
  PROVE  \A r \in Rows : stepLock'[r] = t => RowTells(t, r)'
  <1>1. /\ \A n : RowsAt(n)' = RowsAt(n)
        /\ \A r : AnyHolderRow(r)' = AnyHolderRow(r)
        /\ VerdictOf(t)' = VerdictOf(t)
    BY DEF RowsAt, AnyHolderRow, VerdictOf
  <1>2. OwnsRow(t)' = OwnsRow(t)
    BY <1>1 DEF OwnsRow
  <1> QED BY <1>1, <1>2 DEF Tells, RowTells

\* A statement that reads, of a call that has written rows.
LEMMA GoOnTells ==
  ASSUME TypeOK, LockDiscipline, NEW t \in Txns, Tells(t), pc[t] # "commit",
         NEW label, NEW locals,
         UNCHANGED <<committed, locks, chain>>, Goto(t, label), Set(t, locals),
         locals.verb = tx[t].verb, locals.actor = tx[t].actor,
         locals.approve = tx[t].approve, locals.step_no = tx[t].step_no,
         locals.row = tx[t].row, CallTells(t)'
  PROVE  Tells(t)' /\ \A u \in Txns \ {t} : Untouched(u)
  <1>1. tx'[t] = locals
    BY DEF Set, TypeOK
  <1>2. \A r \in Rows : stepLock'[r] = t => RowTells(t, r)'
    BY <1>1, RowsStillTell DEF locks
  <1>3. requestLock' # t
    BY NoLocks DEF locks
  <1> QED BY <1>2, <1>3, ReadsTouchNobody DEF Tells

\* The UPDATE of the request.
LEMMA RequestWriteTells ==
  ASSUME TypeOK, NEW t \in Txns, Tells(t), requestLock = NoTxn,
         NEW row, NEW locals, WriteRequest(t, row), Goto(t, "commit"), Set(t, locals),
         UNCHANGED <<committed, newSteps, stepLock, chain>>,
         locals.verb = tx[t].verb, locals.actor = tx[t].actor,
         locals.approve = tx[t].approve, locals.step_no = tx[t].step_no,
         locals.row = tx[t].row, RequestTells(t)',
         locals.answer \in {"approved", "rejected"} => row.status = locals.answer
  PROVE  Tells(t)' /\ \A u \in Txns \ {t} : Untouched(u)
  <1>1. /\ tx'[t] = locals /\ pc'[t] = "commit" /\ request' = request
        /\ requestLock' = t /\ newRequest' = row
    BY DEF Set, Goto, WriteRequest, TypeOK, committed
  <1>2. \A r \in Rows : stepLock'[r] = t => RowTells(t, r)'
    BY <1>1, RowsStillTell
  <1>3. CallTells(t)'
    BY <1>1 DEF Tells, CallTells, Deciding, SeesRequest
  <1> QED BY <1>2, <1>3, RequestWritesTouchNobody DEF Tells

\* Rows of one step come from one template.
LEMMA OneTemplate ==
  ASSUME TypeOK, NEW q \in Rows, NEW r \in Rows, chain[q].step_no = chain[r].step_no
  PROVE  /\ chain[q].approver_kind = chain[r].approver_kind
         /\ AnyHolderRow(q) = AnyHolderRow(r)
         /\ AnyHolderRow(r) => chain[q].approver_ref = chain[r].approver_ref
  BY ChainAssumption DEF TypeOK, ValidChain, Walkable, AnyHolderRow

\* A skipped row is one the verdict of its call skips.
LEMMA SkipRowTells ==
  ASSUME TypeOK, LockDiscipline, NEW t \in Txns, Tells(t), SkipRow(t)
  PROVE  Tells(t)' /\ \A u \in Txns \ {t} : Untouched(u)
  <1> DEFINE own == tx[t].row
  <1>1. PICK r \in StillToSkip(t) :
          /\ stepLock[r] = NoTxn
          /\ WriteStep(t, r, [steps[r] EXCEPT !.status = "skipped"])
    BY DEF SkipRow
  <1>2. /\ pc[t] = "skip" /\ CallKnows(t) /\ CallTells(t)
        /\ UNCHANGED <<committed, newRequest, requestLock, chain, pc, tx>>
    BY DEF SkipRow, LockDiscipline, Tells, world, session
  <1>3. r \in SkipTargets(t) /\ r \in Rows /\ steps[r] \in StepRow
    BY DEF StillToSkip, SkipTargets, TypeOK
  <1>4. /\ stepLock'[r] = t /\ newSteps'[r].status = "skipped"
        /\ \A q \in Rows \ {r} : stepLock'[q] = stepLock[q] /\ newSteps'[q] = newSteps[q]
    <2>1. newSteps'[r] = [steps[r] EXCEPT !.status = "skipped"]
      BY <1>1, <1>3 DEF WriteStep, TypeOK
    <2>2. newSteps'[r].status = "skipped"
      BY <1>3, <2>1 DEF StepRow
    <2> QED BY <1>1, <1>3, <2>2 DEF WriteStep, TypeOK
  <1>5. /\ request' = request /\ \A n : RowsAt(n)' = RowsAt(n)
        /\ \A q : AnyHolderRow(q)' = AnyHolderRow(q)
        /\ VerdictOf(t)' = VerdictOf(t) /\ Deciding(t)' = Deciding(t)
    BY <1>2 DEF RowsAt, committed, AnyHolderRow, VerdictOf, Deciding
  <1>6. requestLock # t
    BY <1>2, NoLocks
  <1>7. tx[t].verb = "decide" => OwnsRow(t) /\ r # own /\ own \in Rows /\ Deciding(t)
    BY <1>2, <1>3 DEF CallKnows, HasDecided, Deciding, OwnsRow, SkipTargets, RowsAt
  <1>8. tx[t].verb = "decide" => OwnsRow(t)'
    BY <1>2, <1>4, <1>5, <1>7 DEF OwnsRow
  <1>9. RowTells(t, r)'
    <2>1. tx[t].verb = "decide" /\ tx[t].approve =>
            AnyHolderRow(own) /\ r \in RowsAt(tx[t].step_no)
      BY <1>2, <1>3, <1>7 DEF CallTells, SkipTargets, RowsAt
    <2> QED BY <1>2, <1>4, <1>5, <1>7, <1>8, <2>1 DEF RowTells, CallKnows
  <1>10. ASSUME NEW q \in Rows \ {r}, stepLock'[q] = t PROVE RowTells(t, q)'
    <2>1. RowTells(t, q) /\ newSteps'[q] = newSteps[q]
      BY <1>4, <1>10 DEF Tells
    <2> QED BY <1>2, <1>5, <1>8, <2>1 DEF RowTells
  <1>11. CallTells(t)'
    BY <1>2, <1>5 DEF CallTells
  <1>12. \A u \in Txns \ {t} : Untouched(u)
    <2>1. Goto(t, "skip")
      BY <1>2 DEF Goto, TypeOK
    <2> QED BY <1>1, <1>2, <1>3, <2>1, RowWritesTouchNobody
  <1> QED BY <1>2, <1>6, <1>9, <1>10, <1>11, <1>12 DEF Tells

\* Behind the sibling skip nobody at the step is asked any more: the siblings of an
\* any-holder row are the whole step.
LEMMA SkipDoneTells ==
  ASSUME TypeOK, LockDiscipline, NEW t \in Txns, Tells(t), SkipDone(t)
  PROVE  Tells(t)' /\ \A u \in Txns \ {t} : Untouched(u)
  <1> DEFINE own == tx[t].row
  <1> DEFINE label == IF tx[t].verb = "withdraw" THEN "withdraw"
                      ELSE IF tx[t].approve THEN "count" ELSE "finish"
  <1>1. /\ UNCHANGED <<committed, locks, chain, tx>>
        /\ pc[t] = "skip" /\ Goto(t, label) /\ Set(t, tx[t]) /\ StillToSkip(t) = {}
        /\ CallKnows(t) /\ CallTells(t) /\ pc'[t] = label
    BY DEF SkipDone, world, LockDiscipline, Tells, Goto, Set, TypeOK
  <1>2. /\ request' = request /\ \A n : RowsAt(n)' = RowsAt(n)
        /\ \A q : AnyHolderRow(q)' = AnyHolderRow(q)
        /\ \A n : Settled(t, RowsAt(n))' = Settled(t, RowsAt(n))
    BY <1>1 DEF RowsAt, committed, locks, AnyHolderRow, Settled, SeesStep
  <1>3. label = "count" /\ AnyHolderRow(own) => Settled(t, RowsAt(tx[t].step_no))
    <2> SUFFICES ASSUME label = "count", AnyHolderRow(own), NEW q \in RowsAt(tx[t].step_no)
                 PROVE  SeesStep(t, q).status # "pending"
      BY DEF Settled
    <2>1. /\ tx[t].verb = "decide" /\ tx[t].approve
          /\ own \in RowsAt(tx[t].step_no) /\ stepLock[own] = t
          /\ newSteps[own].status # "pending"
      BY <1>1 DEF CallKnows, HasDecided, Deciding
    <2>2. /\ q \in Rows /\ own \in Rows
          /\ chain[q].step_no = tx[t].step_no /\ chain[own].step_no = tx[t].step_no
      BY <2>1 DEF RowsAt
    <2>3. CASE q = own
      BY <2>1, <2>3 DEF SeesStep
    <2>4. CASE q # own
      <3>1. q \in SkipTargets(t)
        BY <2>1, <2>2, <2>4, OneTemplate DEF SkipTargets
      <3> QED BY <3>1, <1>1 DEF StillToSkip
    <2> QED BY <2>3, <2>4
  <1>4. CallTells(t)'
    BY <1>1, <1>2, <1>3 DEF CallTells, Deciding
  <1> QED BY <1>1, <1>4, GoOnTells

\* The countdown parts a quorum that waits from a step that is done.
LEMMA CountTells ==
  ASSUME TypeOK, LockDiscipline, NEW t \in Txns, Tells(t), Count(t)
  PROVE  Tells(t)' /\ \A u \in Txns \ {t} : Untouched(u)
  <1> DEFINE label == IF Remaining(t) # {} THEN "commit"
                      ELSE IF LastStep(tx[t].step_no) THEN "finish" ELSE "advance"
  <1>1. /\ UNCHANGED <<committed, locks, chain, tx>>
        /\ pc[t] = "count" /\ Goto(t, label) /\ Set(t, tx[t])
        /\ CallKnows(t) /\ CallTells(t) /\ pc'[t] = label
    BY DEF Count, world, LockDiscipline, Tells, Goto, Set, TypeOK
  <1>2. /\ request' = request /\ LastStep(tx[t].step_no)' = LastStep(tx[t].step_no)
        /\ AnyHolderRow(tx[t].row)' = AnyHolderRow(tx[t].row)
        /\ stepLock' = stepLock /\ tx' = tx
    BY <1>1 DEF LastStep, StepNos, AnyHolderRow, committed, locks
  <1>3. tx[t].verb = "decide" /\ tx[t].approve
    BY <1>1 DEF CallKnows, Deciding
  <1>4. label = "commit" => ~ AnyHolderRow(tx[t].row)
    BY <1>1 DEF CallTells, Settled, Remaining
  <1>5. CallTells(t)'
    BY <1>1, <1>2, <1>3, <1>4 DEF CallTells, Deciding
  <1> QED BY <1>1, <1>5, GoOnTells

\* A call at the request has decided its row, and the request is its own to write.
LEMMA AtRequest ==
  ASSUME TypeOK, LockDiscipline, NEW t \in Txns, pc[t] \in {"advance", "finish"}
  PROVE  /\ StillPending /\ requestLock = NoTxn
         /\ request.current_step = tx[t].step_no
         /\ tx[t].verb = "decide" /\ OwnsRow(t)
         /\ tx[t] \in Locals /\ request \in RequestRow
  <1>1. HasDecided(t) /\ CallKnows(t)
    BY DEF HasDecided, Deciding, LockDiscipline
  <1> QED BY <1>1, DeciderOwns DEF CallKnows, OwnsRow, TypeOK

LEMMA AdvanceTells ==
  ASSUME TypeOK, LockDiscipline, NEW t \in Txns, Tells(t), Advance(t)
  PROVE  Tells(t)' /\ \A u \in Txns \ {t} : Untouched(u)
  <1> DEFINE row == [request EXCEPT !.current_step = tx[t].step_no + 1]
  <1> DEFINE locals == [tx[t] EXCEPT !.answer = request.status]
  <1>1. /\ StillPending /\ requestLock = NoTxn
        /\ request.current_step = tx[t].step_no
        /\ tx[t].verb = "decide" /\ OwnsRow(t)
        /\ tx[t] \in Locals /\ request \in RequestRow
    BY AtRequest DEF Advance
  <1>2. tx[t].approve
    BY DEF Advance, LockDiscipline, CallKnows
  <1>3. /\ WriteRequest(t, row) /\ Goto(t, "commit") /\ Set(t, locals)
        /\ UNCHANGED <<committed, newSteps, stepLock, chain>>
    BY <1>1 DEF Advance, world
  <1>4. /\ locals.verb = tx[t].verb /\ locals.actor = tx[t].actor
        /\ locals.approve = tx[t].approve /\ locals.step_no = tx[t].step_no
        /\ locals.row = tx[t].row /\ locals.answer = "pending"
    BY <1>1 DEF Locals, StillPending
  <1>5. row = [request EXCEPT !.current_step = @ + 1]
    BY <1>1
  <1>6. RequestTells(t)'
    <2>1. tx'[t] = locals /\ newRequest' = row /\ request' = request
      BY <1>3 DEF Set, WriteRequest, TypeOK, committed
    <2>2. OwnsRow(t)'
      BY <1>1, <1>3, <1>4, <2>1 DEF OwnsRow, RowsAt
    <2>3. newRequest' = [request' EXCEPT !.current_step = @ + 1]
      BY <1>5, <2>1
    <2>4. tx'[t].verb = "decide" /\ tx'[t].approve
      BY <1>1, <1>2, <1>4, <2>1
    <2> HIDE DEF locals, row
    <2> QED BY <2>2, <2>3, <2>4 DEF RequestTells
  <1> HIDE DEF locals, row
  <1> QED BY <1>1, <1>3, <1>4, <1>6, RequestWriteTells

LEMMA FinishTells ==
  ASSUME TypeOK, LockDiscipline, NEW t \in Txns, Tells(t), Finish(t)
  PROVE  Tells(t)' /\ \A u \in Txns \ {t} : Untouched(u)
  <1> DEFINE row == [request EXCEPT !.status = VerdictOf(t), !.decided_by = tx[t].actor]
  <1> DEFINE locals == [tx[t] EXCEPT !.answer = VerdictOf(t)]
  <1>1. /\ StillPending /\ requestLock = NoTxn
        /\ tx[t].verb = "decide" /\ OwnsRow(t)
        /\ tx[t] \in Locals /\ request \in RequestRow
    BY AtRequest DEF Finish
  <1>2. tx[t].approve => LastStep(tx[t].step_no)
    BY DEF Finish, Tells, CallTells
  <1>3. /\ WriteRequest(t, row) /\ Goto(t, "commit") /\ Set(t, locals)
        /\ UNCHANGED <<committed, newSteps, stepLock, chain>>
    BY <1>1 DEF Finish, world, VerdictOf
  <1>4. /\ locals.verb = tx[t].verb /\ locals.actor = tx[t].actor
        /\ locals.approve = tx[t].approve /\ locals.step_no = tx[t].step_no
        /\ locals.row = tx[t].row /\ locals.answer = VerdictOf(t)
        /\ row.status = VerdictOf(t)
    BY <1>1 DEF Locals, RequestRow
  <1>5. RequestTells(t)'
    <2>1. tx'[t] = locals /\ newRequest' = row /\ request' = request
      BY <1>3 DEF Set, WriteRequest, TypeOK, committed
    <2>2. OwnsRow(t)'
      BY <1>1, <1>3, <1>4, <2>1 DEF OwnsRow, RowsAt
    <2>3. VerdictOf(t)' = VerdictOf(t)
      BY <1>4, <2>1 DEF VerdictOf
    <2>4. newRequest' = [request' EXCEPT !.status = VerdictOf(t)',
                                         !.decided_by = tx'[t].actor]
      BY <1>4, <2>1, <2>3
    <2>5. tx'[t].approve => LastStep(tx[t].step_no)'
      <3>1. tx'[t].approve = tx[t].approve /\ tx'[t].step_no = tx[t].step_no
        BY <1>4, <2>1
      <3>2. LastStep(tx[t].step_no)' <=> \A m \in StepNos : m <= tx'[t].step_no
        BY <1>3 DEF LastStep, StepNos
      <3> QED BY <1>2, <3>1, <3>2 DEF LastStep
    <2>6. tx'[t].verb = "decide"
      BY <1>1, <1>4, <2>1
    <2> HIDE DEF locals, row
    <2> QED BY <2>2, <2>4, <2>5, <2>6 DEF RequestTells
  <1> HIDE DEF locals, row
  <1> QED BY <1>1, <1>3, <1>4, <1>5, RequestWriteTells

\* A withdraw that finds a verdict has found no row to skip either.
LEMMA WithdrawFinishTells ==
  ASSUME TypeOK, LockDiscipline, NEW t \in Txns, Tells(t), WithdrawFinish(t)
  PROVE  Tells(t)' /\ \A u \in Txns \ {t} : Untouched(u)
  <1> DEFINE locals == [tx[t] EXCEPT !.answer = "withdrawn"]
  <1>1. /\ pc[t] = "withdraw" /\ CallTells(t) /\ requestLock = NoTxn
        /\ Set(t, locals) /\ Goto(t, "commit") /\ tx[t] \in Locals
        /\ UNCHANGED <<committed, newSteps, stepLock, chain>>
        /\ request \in RequestRow /\ tx[t].verb = "withdraw"
    BY DEF WithdrawFinish, Tells, CallTells, world, TypeOK
  <1>2. /\ locals.verb = tx[t].verb /\ locals.actor = tx[t].actor
        /\ locals.approve = tx[t].approve /\ locals.step_no = tx[t].step_no
        /\ locals.row = tx[t].row /\ locals.answer = "withdrawn"
    BY <1>1 DEF Locals
  <1>3. tx'[t] = locals /\ pc'[t] = "commit" /\ request' = request
    BY <1>1 DEF Set, Goto, TypeOK, committed
  <1>4. CASE StillPending
    <2> DEFINE row == [request EXCEPT !.status = "withdrawn", !.deleted = TRUE]
    <2>1. WriteRequest(t, row) /\ row.status = "withdrawn"
      BY <1>1, <1>4 DEF WithdrawFinish, RequestRow
    <2>2. RequestTells(t)'
      BY <1>1, <1>2, <1>3, <2>1 DEF RequestTells, WriteRequest
    <2> HIDE DEF locals, row
    <2> QED BY <1>1, <1>2, <2>1, <2>2, RequestWriteTells
  <1>5. CASE ~ StillPending
    <2>1. UNCHANGED <<committed, locks, chain>>
      BY <1>1, <1>5 DEF WithdrawFinish, locks
    <2>2. \A r \in Rows : stepLock[r] # t
      BY <1>5, TxnAssumption DEF LockDiscipline, RowLocks, Walked, StillPending
    <2>3. CallTells(t)'
      BY <1>1, <1>2, <1>3, <2>1, <2>2 DEF CallTells, Deciding, locks
    <2> HIDE DEF locals
    <2> QED BY <1>1, <1>2, <2>1, <2>3, GoOnTells
  <1> QED BY <1>4, <1>5

\* An escalation leaves its row pending.
LEMMA EscalateTells ==
  ASSUME TypeOK, LockDiscipline, NEW t \in Txns, Tells(t), Escalate(t)
  PROVE  Tells(t)' /\ \A u \in Txns \ {t} : Untouched(u)
  <1>0. tx[t] \in Locals /\ CallTells(t)
    BY DEF TypeOK, Tells
  <1>1. CASE EscalateNowhere(t)
    BY <1>1, ReturnUnchangedTells DEF EscalateNowhere, Writing
  <1>2. CASE EscalateTo(t)
    <2>1. PICK r \in Rows, head \in Heads :
            Set(t, [tx[t] EXCEPT !.row = r, !.target = head,
                                 !.assignee = SeesStep(t, r).assigned_to])
      BY <1>2 DEF EscalateTo
    <2>2. /\ UNCHANGED <<committed, locks, chain>>
          /\ pc[t] = "find" /\ Goto(t, "escalate") /\ pc'[t] = "escalate"
      BY <1>2 DEF EscalateTo, world, Goto, TypeOK
    <2>3. tx'[t].verb = tx[t].verb /\ tx'[t].answer = tx[t].answer
      BY <1>0, <2>1 DEF Set, TypeOK, Locals
    <2>4. CallTells(t)'
      BY <1>0, <2>2, <2>3 DEF CallTells, Deciding
    <2> QED BY <2>1, <2>2, <2>4, QuietTells, ReadsTouchNobody DEF Writing
  <1>3. CASE EscalateRow(t)
    <2> DEFINE r == tx[t].row
    <2>1. /\ pc[t] = "escalate" /\ stepLock[r] = NoTxn /\ r \in Rows
          /\ tx[t].verb = "escalate" /\ pc[t] \notin Writing
      BY <1>0, <1>3 DEF EscalateRow, LockDiscipline, CallKnows, RowsAt, CallTells, Writing
    <2>2. CASE steps[r].status = "pending" /\ steps[r].assigned_to = tx[t].assignee
      <3> DEFINE row == [steps[r] EXCEPT !.assigned_to = tx[t].target,
                                         !.delegated_from = Nobody]
      <3>1. /\ WriteStep(t, r, row) /\ Goto(t, "index")
            /\ UNCHANGED <<tx, newRequest, requestLock, committed, chain>>
        BY <1>3, <2>2 DEF EscalateRow, world
      <3>2. row.status = "pending"
        BY <2>1, <2>2 DEF TypeOK, StepRow
      <3>3. requestLock # t /\ \A q \in Rows : stepLock[q] # t
        BY <2>1, NoLocks
      <3> HIDE DEF row
      <3>4. /\ pc'[t] = "index" /\ newSteps'[r] = row /\ tx' = tx
            /\ \A q \in Rows \ {r} : stepLock'[q] # t
        BY <2>1, <3>1, <3>3 DEF Goto, WriteStep, TypeOK
      <3>5. RowTells(t, r)'
        BY <2>1, <3>2, <3>4 DEF RowTells
      <3>6. CallTells(t)'
        BY <1>0, <2>1, <3>4 DEF CallTells, Deciding
      <3>7. \A u \in Txns \ {t} : Untouched(u)
        BY <2>1, <3>1, RowWritesTouchNobody
      <3> QED BY <3>1, <3>3, <3>4, <3>5, <3>6, <3>7 DEF Tells
    <2>3. CASE ~ (steps[r].status = "pending" /\ steps[r].assigned_to = tx[t].assignee)
      BY <1>3, <2>1, <2>3, ReturnUnchangedTells DEF EscalateRow
    <2> QED BY <2>2, <2>3
  <1>4. CASE EscalateIndex(t)
    <2>1. CASE Rollback(t, "database_error")
      BY <2>1, RollbackTells
    <2>2. CASE ~ Rollback(t, "database_error")
      <3> DEFINE locals == [tx[t] EXCEPT !.answer = "escalated"]
      <3>1. /\ UNCHANGED <<committed, locks, chain>>
            /\ pc[t] = "index" /\ Goto(t, "commit") /\ pc'[t] = "commit"
            /\ Set(t, locals) /\ tx'[t] = locals
        BY <1>4, <2>2 DEF EscalateIndex, world, Goto, Set, TypeOK
      <3>2. /\ locals.verb = tx[t].verb /\ locals.actor = tx[t].actor
            /\ locals.approve = tx[t].approve /\ locals.step_no = tx[t].step_no
            /\ locals.row = tx[t].row /\ locals.answer = "escalated"
        BY <1>0 DEF Locals
      <3> HIDE DEF locals
      <3>3. CallTells(t)'
        BY <1>0, <3>1, <3>2 DEF CallTells, Deciding
      <3> QED BY <3>1, <3>2, <3>3, GoOnTells
    <2> QED BY <2>1, <2>2
  <1> QED BY <1>1, <1>2, <1>3, <1>4 DEF Escalate

-----------------------------------------------------------------------------
(* What a commit publishes.                                                *)

\* A commit publishes pending rows only, each as its call tells; a decision's own
\* row stands at the current step.
LEMMA CommitFacts ==
  ASSUME TypeOK, LockDiscipline, NEW t \in Txns, Tells(t), Commit(t)
  PROVE  /\ chain' = chain /\ \A n : RowsAt(n)' = RowsAt(n) /\ StepNos' = StepNos
         /\ \A r : AnyHolderRow(r)' = AnyHolderRow(r)
         /\ \A n : LastStep(n)' = LastStep(n)
         /\ \A r \in Rows : steps'[r] = IF stepLock[r] = t THEN newSteps[r] ELSE steps[r]
         /\ \A r \in Rows : stepLock[r] = t =>
                steps[r].status = "pending" /\ RowTells(t, r)
         /\ request' = IF requestLock = t THEN newRequest ELSE request
         /\ tx[t].verb = "decide" /\ OwnsRow(t) =>
                /\ tx[t].row \in Rows
                /\ chain[tx[t].row].step_no = tx[t].step_no
                /\ tx[t].step_no = request.current_step
  <1>1. chain' = chain
    BY DEF Commit, world
  <1>2. \A r \in Rows : steps'[r] = IF stepLock[r] = t THEN newSteps[r] ELSE steps[r]
    BY DEF Commit, SeesStep
  <1>3. \A r \in Rows : stepLock[r] = t => steps[r].status = "pending" /\ RowTells(t, r)
    BY TxnAssumption DEF LockDiscipline, RowLocks, Tells
  <1>4. ASSUME tx[t].verb = "decide", OwnsRow(t)
        PROVE  /\ tx[t].row \in Rows
               /\ chain[tx[t].row].step_no = tx[t].step_no
               /\ tx[t].step_no = request.current_step
    <2>1. /\ tx[t].row \in Rows /\ chain[tx[t].row].step_no = tx[t].step_no
          /\ steps[tx[t].row].status = "pending"
      BY <1>3, <1>4 DEF OwnsRow, RowsAt
    <2>2. tx[t].step_no <= request.current_step
      BY <1>4 DEF Tells, CallTells
    <2>3. ~ (chain[tx[t].row].step_no < request.current_step)
      BY <2>1 DEF LockDiscipline, Walked
    <2>4. tx[t].step_no \in Nat /\ request.current_step \in Nat
      BY DEF TypeOK, Locals, RequestRow
    <2> QED BY <2>1, <2>2, <2>3, <2>4
  <1>5. request' = IF requestLock = t THEN newRequest ELSE request
    BY DEF Commit, SeesRequest
  <1> QED BY <1>1, <1>2, <1>3, <1>4, <1>5 DEF RowsAt, StepNos, AnyHolderRow, LastStep

\* A step behind which nothing is pending is what it was.
LEMMA EarlierStaysComplete ==
  ASSUME TypeOK, LockDiscipline, NEW t \in Txns, Tells(t), Commit(t),
         NEW n \in StepNos, Complete(n), \A r \in RowsAt(n) : steps[r].status # "pending"
  PROVE  Complete(n)'
  <1>1. /\ RowsAt(n)' = RowsAt(n) /\ \A r : AnyHolderRow(r)' = AnyHolderRow(r)
        /\ \A r \in RowsAt(n) : steps'[r] = steps[r]
    BY CommitFacts DEF RowsAt
  <1> QED BY <1>1 DEF Complete

\* A commit without the request writes at most one approval of a quorum at the
\* current step, and moves pending rows to other assignees.
LEMMA WaitingCommitInOrder ==
  ASSUME TypeOK, LockDiscipline, Evidence, NEW t \in Txns, Commit(t), requestLock # t,
         request.status = "pending"
  PROVE  ChainInOrder' /\ CurrentStepIsOpen'
  <1> DEFINE own == tx[t].row
  <1>1. Tells(t) /\ ChainInOrder /\ CurrentStepIsOpen /\ pc[t] = "commit"
    BY DEF Evidence, Commit
  <1>2. request' = request /\ StepNos' = StepNos /\ \A n : RowsAt(n)' = RowsAt(n)
        /\ \A r : AnyHolderRow(r)' = AnyHolderRow(r) /\ chain' = chain
    BY <1>1, CommitFacts
  <1>3. ASSUME NEW r \in Rows
        PROVE  \/ steps'[r].status = steps[r].status
               \/ /\ steps'[r].status = "approved" /\ ~ AnyHolderRow(r)
                  /\ chain[r].step_no = request.current_step
    <2>1. CASE stepLock[r] # t
      BY <2>1, <1>1, CommitFacts
    <2>2. CASE stepLock[r] = t
      <3>1. /\ steps[r].status = "pending" /\ RowTells(t, r) /\ steps'[r] = newSteps[r]
        BY <2>2, <1>1, CommitFacts
      <3>2. \/ tx[t].verb = "escalate"
            \/ tx[t].verb = "decide" /\ tx[t].approve /\ ~ AnyHolderRow(own)
        BY <2>2, <1>1 DEF Tells, CallTells
      <3>3. CASE tx[t].verb = "escalate"
        BY <3>1, <3>3 DEF RowTells
      <3>4. CASE tx[t].verb = "decide" /\ tx[t].approve /\ ~ AnyHolderRow(own)
        <4>1. OwnsRow(t) /\ r = own /\ newSteps[r].status = "approved"
          BY <3>1, <3>4 DEF RowTells, VerdictOf
        <4>2. chain[own].step_no = request.current_step
          BY <4>1, <3>4, <1>1, CommitFacts
        <4> QED BY <3>1, <3>4, <4>1, <4>2
      <3> QED BY <3>2, <3>3, <3>4
    <2> QED BY <2>1, <2>2
  <1>4. ASSUME NEW n \in StepNos, n < request.current_step PROVE Complete(n)'
    <2>1. Complete(n)
      BY <1>1, <1>4 DEF ChainInOrder
    <2>2. \A r \in RowsAt(n) : steps[r].status # "pending"
      BY <1>4 DEF LockDiscipline, Walked, RowsAt
    <2> QED BY <2>1, <2>2, <1>1, EarlierStaysComplete
  <1>5. ASSUME NEW r \in Rows
        PROVE  /\ chain[r].step_no > request.current_step => steps'[r].status = "pending"
               /\ steps'[r].status # "rejected"
    <2>1. /\ chain[r].step_no > request.current_step => steps[r].status = "pending"
          /\ steps[r].status # "rejected"
      BY <1>1 DEF ChainInOrder
    <2>2. chain[r].step_no \in Nat /\ request.current_step \in Nat
      BY ChainNumbers DEF TypeOK, RequestRow
    <2> QED BY <2>1, <2>2, <1>3
  <1>6. request.current_step \in StepNos
    BY <1>1 DEF ChainInOrder
  <1>7. ChainInOrder'
    BY <1>2, <1>4, <1>5, <1>6 DEF ChainInOrder
  <1>8. CurrentStepIsOpen'
    <2> SUFFICES ASSUME NEW r \in RowsAt(request.current_step)
                 PROVE  steps'[r].status \in IF AnyHolderRow(r) THEN {"pending"}
                                             ELSE {"pending", "approved"}
      BY <1>2 DEF CurrentStepIsOpen
    <2>1. r \in Rows /\ steps[r].status \in IF AnyHolderRow(r) THEN {"pending"}
                                            ELSE {"pending", "approved"}
      BY <1>1 DEF CurrentStepIsOpen, RowsAt
    <2> QED BY <2>1, <1>3
  <1> QED BY <1>7, <1>8

\* An approval that reaches the request completes the current step: alone for its
\* any-holder group, or as the last member of the quorum.
LEMMA ApprovalCompletes ==
  ASSUME TypeOK, LockDiscipline, Evidence, NEW t \in Txns, Commit(t), NEW n,
         n = request.current_step, request.status = "pending",
         tx[t].verb = "decide", tx[t].approve, OwnsRow(t), Settled(t, RowsAt(n))
  PROVE  /\ Complete(n)'
         /\ \A r \in Rows \ RowsAt(n) : steps'[r] = steps[r]
         /\ \A r \in RowsAt(n) : steps'[r].status # "rejected"
         /\ steps'[tx[t].row].status = "approved"
         /\ steps'[tx[t].row].actor = tx[t].actor
  <1> DEFINE own == tx[t].row
  <1>1. Tells(t) /\ CurrentStepIsOpen
    BY DEF Evidence
  <1>2. /\ own \in RowsAt(n) /\ own \in Rows /\ stepLock[own] = t
        /\ tx[t].step_no = n
    BY <1>1, CommitFacts DEF OwnsRow, RowsAt
  <1>3. /\ newSteps[own].status = "approved" /\ newSteps[own].actor = tx[t].actor
        /\ steps'[own] = newSteps[own]
    BY <1>1, <1>2, CommitFacts DEF RowTells, VerdictOf
  <1>4. ASSUME NEW r \in Rows \ {own}, stepLock[r] = t
        PROVE  /\ steps'[r].status = "skipped" /\ r \in RowsAt(n) /\ AnyHolderRow(own)
    BY <1>1, <1>2, <1>4, CommitFacts DEF RowTells
  <1>5. \A r \in Rows : stepLock[r] # t => steps'[r] = steps[r]
    BY <1>1, CommitFacts
  <1>6. \A r \in RowsAt(n) : r \in Rows /\ (AnyHolderRow(r) <=> AnyHolderRow(own))
    BY <1>2, OneTemplate DEF RowsAt
  <1>7. ASSUME NEW r \in RowsAt(n) \ {own}
        PROVE  IF AnyHolderRow(own) THEN steps'[r].status = "skipped"
                                    ELSE steps'[r].status = "approved"
    <2>1. CASE stepLock[r] = t
      BY <2>1, <1>4, <1>6
    <2>2. CASE stepLock[r] # t
      <3>1. steps'[r] = steps[r] /\ steps[r].status # "pending"
        BY <2>2, <1>5, <1>6 DEF Settled, SeesStep
      <3>2. steps[r].status \in IF AnyHolderRow(own) THEN {"pending"}
                                ELSE {"pending", "approved"}
        BY <1>1, <1>6 DEF CurrentStepIsOpen
      <3> QED BY <3>1, <3>2
    <2> QED BY <2>1, <2>2
  <1>8. Complete(n)'
    <2>1. /\ RowsAt(n)' = RowsAt(n) /\ \A r : AnyHolderRow(r)' = AnyHolderRow(r)
      BY <1>1, CommitFacts
    <2>2. (\A r \in RowsAt(n) :
              IF AnyHolderRow(r) THEN steps'[r].status \in {"approved", "skipped"}
                                 ELSE steps'[r].status = "approved")
      BY <1>3, <1>6, <1>7
    <2>3. /\ steps'[own].status = "approved"
          /\ AnyHolderRow(own) => \A q \in RowsAt(n) \ {own} : steps'[q].status = "skipped"
      BY <1>3, <1>7
    <2>4. \E r \in RowsAt(n) :
            /\ steps'[r].status = "approved"
            /\ AnyHolderRow(r) =>
                \A q \in RowsAt(n) \ {r} : steps'[q].status = "skipped"
      BY <1>2, <2>3
    <2> QED BY <2>1, <2>2, <2>4 DEF Complete
  <1>9. \A r \in Rows \ RowsAt(n) : steps'[r] = steps[r]
    BY <1>2, <1>4, <1>5
  <1> QED BY <1>2, <1>3, <1>7, <1>8, <1>9

\* Which of the three ways a commit of the request takes.
LEMMA RequestCommitCases ==
  ASSUME TypeOK, LockDiscipline, NEW t \in Txns, Tells(t), Commit(t), requestLock = t
  PROVE  /\ request.status = "pending"
         /\ \/ /\ tx[t].verb = "withdraw"
               /\ request'.status = "withdrawn" /\ Settled(t, Rows)
            \/ /\ tx[t].verb = "decide" /\ OwnsRow(t) /\ tx[t].approve
               /\ request'.status = "pending"
               /\ request'.current_step = request.current_step + 1
               /\ request'.current_step \in StepNos
               /\ Settled(t, RowsAt(request.current_step))
            \/ /\ tx[t].verb = "decide" /\ OwnsRow(t)
               /\ request'.status = VerdictOf(t) /\ request'.decided_by = tx[t].actor
               /\ request'.current_step = request.current_step
               /\ tx[t].approve => LastStep(tx[t].step_no)
               /\ Settled(t, Rows)
  <1>1. request' = newRequest /\ RequestTells(t) /\ request \in RequestRow
    BY CommitFacts DEF Tells, TypeOK
  <1>2. /\ StillPending
        /\ \/ /\ newRequest = [request EXCEPT !.current_step = @ + 1]
              /\ newRequest.current_step \in StepNos
              /\ Settled(t, RowsAt(request.current_step))
           \/ /\ newRequest.status # "pending"
              /\ newRequest.current_step = request.current_step
              /\ Settled(t, Rows)
    BY TxnAssumption DEF LockDiscipline, RequestLocked
  <1>3. LET row == [request EXCEPT !.current_step = @ + 1] IN
            row.status = "pending" /\ row.current_step = request.current_step + 1
    BY <1>1, <1>2 DEF StillPending, RequestRow
  <1>4. LET row == [request EXCEPT !.status = VerdictOf(t), !.decided_by = tx[t].actor] IN
            /\ row.status = VerdictOf(t) /\ row.decided_by = tx[t].actor
            /\ row.current_step = request.current_step
    BY <1>1 DEF RequestRow
  <1>5. VerdictOf(t) # "pending"
    BY DEF VerdictOf
  <1>6. CASE tx[t].verb = "withdraw" /\ newRequest.status = "withdrawn"
    BY <1>1, <1>2, <1>3, <1>6 DEF StillPending
  <1>7. CASE /\ tx[t].verb = "decide" /\ OwnsRow(t) /\ tx[t].approve
             /\ newRequest = [request EXCEPT !.current_step = @ + 1]
    <2>1. newRequest.status = "pending" /\ newRequest.current_step = request.current_step + 1
      BY <1>3, <1>7
    <2> QED BY <1>1, <1>2, <1>7, <2>1 DEF StillPending
  <1>8. CASE /\ tx[t].verb = "decide" /\ OwnsRow(t)
             /\ newRequest = [request EXCEPT !.status = VerdictOf(t),
                                             !.decided_by = tx[t].actor]
             /\ tx[t].approve => LastStep(tx[t].step_no)
    <2>1. /\ newRequest.status = VerdictOf(t) /\ newRequest.decided_by = tx[t].actor
          /\ newRequest.current_step = request.current_step
      BY <1>4, <1>8
    <2>2. newRequest # [request EXCEPT !.current_step = @ + 1]
      BY <1>3, <1>5, <2>1
    <2> QED BY <1>1, <1>2, <1>8, <2>1, <2>2 DEF StillPending
  <1> QED BY <1>1, <1>6, <1>7, <1>8 DEF RequestTells

\* set_current_step: the step that was asked is complete, the next one untouched.
LEMMA AdvancingCommit ==
  ASSUME TypeOK, LockDiscipline, Evidence, NEW t \in Txns, Commit(t),
         request.status = "pending", tx[t].verb = "decide", OwnsRow(t), tx[t].approve,
         request'.status = "pending", request'.current_step = request.current_step + 1,
         request'.current_step \in StepNos, Settled(t, RowsAt(request.current_step))
  PROVE  ChainInOrder' /\ CurrentStepIsOpen'
  <1>0. PICK n : n = request.current_step
    OBVIOUS
  <1>1. Tells(t) /\ ChainInOrder /\ n \in Nat
    BY <1>0 DEF Evidence, TypeOK, RequestRow
  <1>2. StepNos' = StepNos /\ \A m : RowsAt(m)' = RowsAt(m)
        /\ \A r : AnyHolderRow(r)' = AnyHolderRow(r) /\ chain' = chain
    BY <1>1, CommitFacts
  <1>3. /\ Complete(n)'
        /\ \A r \in Rows \ RowsAt(n) : steps'[r] = steps[r]
        /\ \A r \in RowsAt(n) : steps'[r].status # "rejected"
    BY <1>0, ApprovalCompletes
  <1>4. ASSUME NEW m \in StepNos, m < n + 1 PROVE Complete(m)'
    <2>1. CASE m = n
      BY <2>1, <1>3
    <2>2. CASE m # n
      <3>1. m \in Nat /\ m < n
        BY <1>1, <1>4, <2>2, ChainNumbers
      <3>2. Complete(m)
        BY <1>0, <1>1, <3>1 DEF ChainInOrder
      <3>3. \A r \in RowsAt(m) : steps[r].status # "pending"
        BY <1>0, <3>1 DEF LockDiscipline, Walked, RowsAt
      <3> QED BY <1>1, <3>2, <3>3, EarlierStaysComplete
    <2> QED BY <2>1, <2>2
  <1>5. ASSUME NEW r \in Rows
        PROVE  /\ chain[r].step_no >= n + 1 => steps'[r].status = "pending"
               /\ steps'[r].status # "rejected"
    <2>1. chain[r].step_no \in Nat
      BY ChainNumbers
    <2>2. /\ chain[r].step_no > n => steps[r].status = "pending"
          /\ steps[r].status # "rejected"
      BY <1>0, <1>1 DEF ChainInOrder
    <2>3. CASE r \in RowsAt(n)
      BY <1>1, <1>3, <2>3 DEF RowsAt
    <2>4. CASE r \notin RowsAt(n)
      BY <1>1, <1>3, <2>1, <2>2, <2>4
    <2> QED BY <2>3, <2>4
  <1>6. \A r \in Rows : chain[r].step_no \in Nat
    BY ChainNumbers
  <1>7. ChainInOrder'
    BY <1>0, <1>1, <1>2, <1>4, <1>5, <1>6 DEF ChainInOrder
  <1>8. CurrentStepIsOpen'
    BY <1>0, <1>1, <1>2, <1>5, <1>6 DEF CurrentStepIsOpen, RowsAt
  <1> QED BY <1>7, <1>8

\* finish_request of an approval: the last step completes the chain, and the row
\* decided last names the decider.
LEMMA ApprovingCommit ==
  ASSUME TypeOK, LockDiscipline, Evidence, NEW t \in Txns, Commit(t),
         request.status = "pending", tx[t].verb = "decide", OwnsRow(t), tx[t].approve,
         request'.status = "approved", request'.decided_by = tx[t].actor,
         LastStep(tx[t].step_no), Settled(t, Rows)
  PROVE  VerdictMatchesRows' /\ VerdictHasDecider'
  <1> DEFINE own == tx[t].row
  <1>0. PICK n : n = request.current_step
    OBVIOUS
  <1>1. Tells(t) /\ ChainInOrder /\ n \in Nat /\ Settled(t, RowsAt(n))
    BY <1>0 DEF Evidence, TypeOK, RequestRow, Settled, RowsAt
  <1>2. /\ StepNos' = StepNos /\ chain' = chain
        /\ own \in Rows /\ chain[own].step_no = n /\ tx[t].step_no = n
        /\ \A m : LastStep(m)' = LastStep(m)
    BY <1>0, <1>1, CommitFacts
  <1>3. Complete(n)' /\ steps'[own].status = "approved" /\ steps'[own].actor = tx[t].actor
    BY <1>0, <1>1, ApprovalCompletes
  <1>4. ASSUME NEW m \in StepNos PROVE Complete(m)'
    <2>1. m \in Nat /\ m <= n
      BY <1>2, ChainNumbers DEF LastStep
    <2>2. CASE m = n
      BY <2>2, <1>3
    <2>3. CASE m # n
      <3>1. m < n
        BY <1>1, <2>1, <2>3
      <3>2. Complete(m)
        BY <1>0, <1>1, <3>1 DEF ChainInOrder
      <3>3. \A r \in RowsAt(m) : steps[r].status # "pending"
        BY <1>0, <3>1 DEF LockDiscipline, Walked, RowsAt
      <3> QED BY <1>1, <3>2, <3>3, EarlierStaysComplete
    <2> QED BY <2>2, <2>3
  <1>5. VerdictMatchesRows'
    BY <1>2, <1>4 DEF VerdictMatchesRows
  <1>6. tx[t].actor # Requester
    BY <1>1 DEF Tells, CallTells
  <1>7. VerdictHasDecider'
    BY <1>2, <1>3, <1>6 DEF VerdictHasDecider
  <1> QED BY <1>5, <1>7

\* finish_request of a rejection: one row rejects, every other pending row is skipped.
LEMMA RejectingCommit ==
  ASSUME TypeOK, LockDiscipline, Evidence, NEW t \in Txns, Commit(t),
         request.status = "pending", tx[t].verb = "decide", OwnsRow(t), ~ tx[t].approve,
         request'.status = "rejected", request'.decided_by = tx[t].actor,
         Settled(t, Rows)
  PROVE  VerdictMatchesRows' /\ VerdictHasDecider'
  <1> DEFINE own == tx[t].row
  <1>1. Tells(t) /\ ChainInOrder
    BY DEF Evidence
  <1>2. own \in Rows /\ stepLock[own] = t
    BY <1>1, CommitFacts DEF OwnsRow
  <1>3. steps'[own].status = "rejected" /\ steps'[own].actor = tx[t].actor
    BY <1>1, <1>2, CommitFacts DEF RowTells, VerdictOf
  <1>4. ASSUME NEW r \in Rows \ {own}
        PROVE  steps'[r].status # "pending" /\ steps'[r].status # "rejected"
    <2>1. CASE stepLock[r] = t
      BY <2>1, <1>1, CommitFacts DEF RowTells
    <2>2. CASE stepLock[r] # t
      BY <2>2, <1>1, CommitFacts DEF ChainInOrder, Settled, SeesStep
    <2> QED BY <2>1, <2>2
  <1>5. /\ {r \in Rows : steps'[r].status = "pending"} = {}
        /\ {r \in Rows : steps'[r].status = "rejected"} = {own}
    BY <1>2, <1>3, <1>4
  <1>6. Cardinality({own}) = 1
    BY FS_Singleton
  <1>7. VerdictMatchesRows'
    BY <1>5, <1>6 DEF VerdictMatchesRows
  <1>8. tx[t].actor # Requester
    BY <1>1 DEF Tells, CallTells
  <1>9. VerdictHasDecider'
    BY <1>2, <1>3, <1>8 DEF VerdictHasDecider
  <1> QED BY <1>7, <1>9

\* withdraw_request: every pending row is skipped and none rejects.
LEMMA WithdrawingCommit ==
  ASSUME TypeOK, LockDiscipline, Evidence, NEW t \in Txns, Commit(t),
         request.status = "pending", tx[t].verb = "withdraw",
         request'.status = "withdrawn", Settled(t, Rows)
  PROVE  VerdictMatchesRows'
  <1>1. Tells(t) /\ ChainInOrder
    BY DEF Evidence
  <1>2. ASSUME NEW r \in Rows
        PROVE  steps'[r].status # "pending" /\ steps'[r].status # "rejected"
    <2>1. CASE stepLock[r] = t
      BY <2>1, <1>1, CommitFacts DEF RowTells
    <2>2. CASE stepLock[r] # t
      BY <2>2, <1>1, CommitFacts DEF ChainInOrder, Settled, SeesStep
    <2> QED BY <2>1, <2>2
  <1> QED BY <1>2 DEF VerdictMatchesRows

\* The committed part of Evidence.
Committed == ChainInOrder /\ CurrentStepIsOpen /\ VerdictMatchesRows /\ VerdictHasDecider

\* Every commit keeps the committed tables in order.
LEMMA CommitStaysInOrder ==
  ASSUME TypeOK, LockDiscipline, Evidence, NEW t \in Txns, Commit(t)
  PROVE  Committed'
  <1>0. Tells(t)
    BY DEF Evidence
  <1>1. CASE requestLock # t /\ request.status = "pending"
    <2>1. request' = request
      BY <1>0, <1>1, CommitFacts
    <2>2. ChainInOrder' /\ CurrentStepIsOpen'
      BY <1>1, WaitingCommitInOrder
    <2>3. VerdictMatchesRows' /\ VerdictHasDecider'
      BY <1>1, <2>1 DEF VerdictMatchesRows, VerdictHasDecider
    <2> QED BY <2>2, <2>3 DEF Committed
  <1>2. CASE requestLock # t /\ request.status # "pending"
    <2>1. request' = request
      BY <1>0, <1>2, CommitFacts
    <2>2. \A r \in Rows : steps'[r] = steps[r]
      BY <1>2, CommitKeeps DEF LockDiscipline, Walked
    <2>3. /\ chain' = chain /\ StepNos' = StepNos /\ \A n : RowsAt(n)' = RowsAt(n)
          /\ \A r : AnyHolderRow(r)' = AnyHolderRow(r)
          /\ \A n : LastStep(n)' = LastStep(n)
      BY <1>0, CommitFacts
    <2>4. \A n : Complete(n)' <=> Complete(n)
      BY <2>2, <2>3 DEF Complete, RowsAt
    <2>5. VerdictMatchesRows'
      <3>1. \A status : {r \in Rows : steps'[r].status = status}
                          = {r \in Rows : steps[r].status = status}
        BY <2>2
      <3> QED BY <2>1, <2>3, <2>4, <3>1 DEF VerdictMatchesRows, Evidence
    <2>6. VerdictHasDecider'
      BY <2>1, <2>2, <2>3 DEF VerdictHasDecider, Evidence
    <2>7. ChainInOrder' /\ CurrentStepIsOpen'
      BY <1>2, <2>1 DEF ChainInOrder, CurrentStepIsOpen
    <2> QED BY <2>5, <2>6, <2>7 DEF Committed
  <1>3. CASE requestLock = t
    <2>1. request.status = "pending"
      BY <1>0, <1>3, RequestCommitCases
    <2>2. CASE /\ tx[t].verb = "withdraw"
               /\ request'.status = "withdrawn" /\ Settled(t, Rows)
      <3>1. VerdictMatchesRows'
        BY <2>1, <2>2, WithdrawingCommit
      <3> QED BY <2>2, <3>1
              DEF Committed, ChainInOrder, CurrentStepIsOpen, VerdictHasDecider
    <2>3. CASE /\ tx[t].verb = "decide" /\ OwnsRow(t) /\ tx[t].approve
               /\ request'.status = "pending"
               /\ request'.current_step = request.current_step + 1
               /\ request'.current_step \in StepNos
               /\ Settled(t, RowsAt(request.current_step))
      <3>1. ChainInOrder' /\ CurrentStepIsOpen'
        BY <2>1, <2>3, AdvancingCommit
      <3> QED BY <2>3, <3>1 DEF Committed, VerdictMatchesRows, VerdictHasDecider
    <2>4. CASE /\ tx[t].verb = "decide" /\ OwnsRow(t)
               /\ request'.status = VerdictOf(t) /\ request'.decided_by = tx[t].actor
               /\ request'.current_step = request.current_step
               /\ tx[t].approve => LastStep(tx[t].step_no)
               /\ Settled(t, Rows)
      <3>1. VerdictMatchesRows' /\ VerdictHasDecider'
        <4>1. CASE tx[t].approve
          BY <2>1, <2>4, <4>1, ApprovingCommit DEF VerdictOf
        <4>2. CASE ~ tx[t].approve
          BY <2>1, <2>4, <4>2, RejectingCommit DEF VerdictOf
        <4> QED BY <4>1, <4>2
      <3>2. request'.status # "pending"
        BY <2>4 DEF VerdictOf
      <3> QED BY <3>1, <3>2 DEF Committed, ChainInOrder, CurrentStepIsOpen
    <2> QED BY <1>0, <1>3, <2>2, <2>3, <2>4, RequestCommitCases
  <1> QED BY <1>1, <1>2, <1>3

-----------------------------------------------------------------------------
(* Evidence is inductive.                                                  *)

LEMMA CommitTells ==
  ASSUME TypeOK, LockDiscipline, NEW t \in Txns, Commit(t)
  PROVE  Tells(t)' /\ \A u \in Txns \ {t} : Untouched(u)
  <1>1. /\ pc'[t] = "idle" /\ tx'[t] = NoCall
        /\ (\A r \in Rows : stepLock'[r] # t) /\ requestLock' # t
    BY TxnAssumption DEF Commit, Return, Goto, Set, TypeOK
  <1> QED BY <1>1, IdleTells, CommitTouchesNobody

\* What a session does leaves every other session's tale as it was.
LEMMA SessionTells ==
  ASSUME TypeOK, LockDiscipline, NEW t \in Txns, Tells(t),
         Call(t) \/ Proceed(t) \/ Abort(t)
  PROVE  Tells(t)' /\ \A u \in Txns \ {t} : Untouched(u)
  BY CallStartTells, DecideReadsTell, MarkTells, RereadTells, SkipRowTells, SkipDoneTells,
     CountTells, AdvanceTells, FinishTells, WithdrawFinishTells, EscalateTells,
     CommitTells, RollbackTells
     DEF Proceed, Decide, CancelDeadlocked, Abort

LEMMA FrameTouchesNobody ==
  ASSUME TypeOK, UNCHANGED <<committed, locks, chain, pc, tx>>
  PROVE  \A u \in Txns : Untouched(u)
  BY DEF TypeOK, RequestRow, Untouched, committed, locks

\* A step that publishes nothing leaves the committed tables in order.
LEMMA NothingPublished ==
  ASSUME Committed, UNCHANGED <<committed, chain>>
  PROVE  Committed'
  <1>1. /\ StepNos' = StepNos /\ \A n : RowsAt(n)' = RowsAt(n)
        /\ \A r : AnyHolderRow(r)' = AnyHolderRow(r)
        /\ request' = request /\ steps' = steps
        /\ \A n : LastStep(n)' = LastStep(n)
    BY DEF StepNos, RowsAt, AnyHolderRow, committed, LastStep
  <1>2. \A n : Complete(n)' = Complete(n)
    BY <1>1 DEF Complete
  <1>3. ChainInOrder'
    BY <1>1, <1>2 DEF Committed, ChainInOrder
  <1>4. CurrentStepIsOpen'
    BY <1>1 DEF Committed, CurrentStepIsOpen
  <1>5. VerdictMatchesRows'
    BY <1>1, <1>2 DEF Committed, VerdictMatchesRows
  <1>6. VerdictHasDecider'
    BY <1>1 DEF Committed, VerdictHasDecider
  <1> QED BY <1>3, <1>4, <1>5, <1>6 DEF Committed

LEMMA InitEvidence == Init => Evidence
  <1> SUFFICES ASSUME Init PROVE Evidence
    OBVIOUS
  <1>1. TypeOK
    BY InitType
  <1>2. ASSUME NEW t \in Txns PROVE Tells(t)
    <2>1. pc[t] = "idle" /\ tx[t].verb = "none" /\ tx[t].answer = "none"
      BY DEF Init, NoCall
    <2>2. (\A r \in Rows : stepLock[r] # t) /\ requestLock # t
      BY TxnAssumption DEF Init
    <2> QED BY <2>1, <2>2 DEF Tells, CallTells, Deciding
  <1>3. /\ request.status = "pending" /\ request.current_step = 1
        /\ \A r \in Rows : steps[r].status = "pending"
    BY DEF Init
  <1>4. ChainInOrder
    <2>1. \A n \in StepNos : ~ (n < 1)
      <3>1. \A r \in Rows : chain[r].step_no \in Nat \ {0}
        BY <1>1, ChainAssumption DEF TypeOK, ValidChain, ChainRow, ChainRowOf
      <3> QED BY <3>1 DEF StepNos
    <2> QED BY <1>1, <1>3, <2>1, ChainNumbers DEF ChainInOrder
  <1>5. CurrentStepIsOpen /\ VerdictMatchesRows /\ VerdictHasDecider
    BY <1>3 DEF CurrentStepIsOpen, VerdictMatchesRows, VerdictHasDecider, RowsAt
  <1> QED BY <1>2, <1>4, <1>5 DEF Evidence

LEMMA StepEvidence ==
  TypeOK /\ LockDiscipline /\ Evidence /\ [Next]_vars => Evidence'
  <1> SUFFICES ASSUME TypeOK, LockDiscipline, Evidence, [Next]_vars PROVE Evidence'
    OBVIOUS
  <1>1. \A t \in Txns : Tells(t)'
    <2>1. ASSUME NEW t \in Txns, Call(t) \/ Proceed(t) \/ Abort(t), NEW u \in Txns
          PROVE  Tells(u)'
      <3>1. Tells(t) /\ Tells(u)
        BY DEF Evidence
      <3>2. Tells(t)' /\ \A v \in Txns \ {t} : Untouched(v)
        BY <2>1, <3>1, SessionTells
      <3> QED BY <3>1, <3>2, OthersTell
    <2>2. CASE Environment \/ UNCHANGED vars
      <3>1. UNCHANGED <<committed, locks, chain, pc, tx>>
        BY <2>2 DEF Environment, DelegationStarts, DelegationEnds, SlaBreach, session,
                    vars, world
      <3> QED BY <3>1, FrameTouchesNobody, OthersTell DEF Evidence
    <2> QED BY <2>1, <2>2 DEF Next
  <1>2. Committed'
    <2>1. CASE \E t \in Txns : Commit(t)
      BY <2>1, CommitStaysInOrder
    <2>2. CASE ~ \E t \in Txns : Commit(t)
      <3>1. UNCHANGED committed
        BY <2>2, OnlyCommitsPublish DEF vars
      <3>2. chain' = chain
        <4>1. ASSUME NEW t \in Txns, Call(t) \/ Proceed(t) \/ Abort(t)
              PROVE  chain' = chain
          BY <4>1 DEF Call, DecideRequest, WithdrawRequest, EscalateRequest,
             ReturnUnchanged, world, Proceed, Decide, DecideRows, Authorize, Choose,
             ChooseNone, Mark, Reread, Count, Advance, Finish, SkipRow, SkipDone,
             WithdrawFinish, Escalate, EscalateNowhere, EscalateTo, EscalateRow,
             EscalateIndex, Commit, CancelDeadlocked, Abort, Rollback
        <4> QED BY <4>1 DEF Next, Environment, DelegationStarts, DelegationEnds,
                            SlaBreach, vars, world
      <3> QED BY <3>1, <3>2, NothingPublished DEF Evidence, Committed
    <2> QED BY <2>1, <2>2
  <1> QED BY <1>1, <1>2 DEF Evidence, Committed

\* Every reachable state carries the evidence of its verdicts: what is committed is
\* in order, and each call's uncommitted rows (mark_step_decided, the skips,
\* finish_request) tell no other story than the commit will.
THEOREM EvidenceHolds == Spec => []Evidence
  <1>1. Init => TypeOK /\ LockDiscipline /\ Evidence
    BY InitType, InitDiscipline, InitEvidence
  <1>2. TypeOK /\ LockDiscipline /\ Evidence /\ [Next]_vars
          => (TypeOK /\ LockDiscipline /\ Evidence)'
    BY StepType, StepDiscipline, StepEvidence
  <1> QED BY <1>1, <1>2, PTL DEF Spec

-----------------------------------------------------------------------------
(* What the evidence gives.                                                *)

\* For any number of callers, rows and steps, a verdict decide or withdraw has
\* committed is the one the rows spell, under the regime of each step.
THEOREM VerdictsMatchTheirRows == Spec => []VerdictMatchesRows
  <1>1. Evidence => VerdictMatchesRows
    BY DEF Evidence
  <1> QED BY <1>1, EvidenceHolds, PTL

\* Whatever interleaves, set_current_step walks the steps in order: each one is
\* complete under its regime before the next is asked.
THEOREM ChainsAreWalkedInOrder == Spec => []ChainInOrder
  <1>1. Evidence => ChainInOrder
    BY DEF Evidence
  <1> QED BY <1>1, EvidenceHolds, PTL

\* An approved or rejected request names somebody other than its requester who
\* decided a row with that verdict, the last step's for an approval: no chain of
\* delegations and escalations lets a requester decide.
THEOREM VerdictsHaveDeciders == Spec => []VerdictHasDecider
  <1>1. Evidence => VerdictHasDecider
    BY DEF Evidence
  <1> QED BY <1>1, EvidenceHolds, PTL

\* How a call returns: by its commit, by an undone transaction, or with a refusal
\* or the status it read, having written nothing.
LEMMA ReturnsBy ==
  ASSUME TypeOK, NEW t \in Txns, Call(t) \/ Proceed(t) \/ Abort(t), NEW a, Returns(t, a)
  PROVE  \/ Commit(t)
         \/ Rollback(t, "database_error")
         \/ ReturnUnchanged(t, "no_such_step") \/ ReturnUnchanged(t, "step_not_overdue")
         \/ ReturnUnchanged(t, "step_resolution_failed")
         \/ ReturnUnchanged(t, "not_pending") \/ ReturnUnchanged(t, "not_step_approver")
         \/ pc[t] = "choose" /\ ReturnUnchanged(t, tx[t].answer)
  <1>1. pc[t] # "idle" /\ pc'[t] = "idle"
    BY DEF Returns
  <1>2. ASSUME NEW label, Goto(t, label) PROVE label = "idle"
    BY <1>1, <1>2 DEF Goto, TypeOK
  <1>3. ~ Call(t)
    BY <1>1 DEF Call, DecideRequest, WithdrawRequest, EscalateRequest
  <1>4. ~ Authorize(t) /\ ~ Choose(t) /\ ~ Reread(t) /\ ~ Count(t)
    BY <1>2 DEF Authorize, Choose, Reread, Count
  <1>5. ~ Mark(t)
    BY <1>2 DEF Mark, AfterMark
  <1>6. ~ Advance(t) /\ ~ Finish(t) /\ ~ WithdrawFinish(t) /\ ~ SkipDone(t)
    BY <1>2 DEF Advance, Finish, WithdrawFinish, SkipDone
  <1>7. ~ SkipRow(t)
    BY <1>1 DEF SkipRow, session
  <1>8. ~ EscalateTo(t)
    BY <1>2 DEF EscalateTo
  <1>9. DecideRows(t) => ReturnUnchanged(t, "no_such_step")
    BY <1>2 DEF DecideRows
  <1>10. EscalateRow(t) => ReturnUnchanged(t, "not_pending")
    BY <1>2 DEF EscalateRow
  <1>11. EscalateIndex(t) => Rollback(t, "database_error")
    BY <1>2 DEF EscalateIndex
  <1>12. ChooseNone(t) => \/ ReturnUnchanged(t, "not_step_approver")
                          \/ pc[t] = "choose" /\ ReturnUnchanged(t, tx[t].answer)
    BY DEF ChooseNone
  <1>13. EscalateNowhere(t) => \/ ReturnUnchanged(t, "no_such_step")
                               \/ ReturnUnchanged(t, "step_not_overdue")
                               \/ ReturnUnchanged(t, "step_resolution_failed")
    BY DEF EscalateNowhere
  <1> QED BY <1>3, <1>4, <1>5, <1>6, <1>7, <1>8, <1>9, <1>10, <1>11, <1>12, <1>13
             DEF Proceed, Decide, Escalate, CancelDeadlocked, Abort

\* A verdict decide answers with is the request's verdict at that moment: the
\* answer is the one it wrote and commits, or the one its re-read found.
THEOREM DecideReports == Spec => DecideReportsVerdict
  <1> DEFINE Reports == \A t \in Txns, a \in {"approved", "rejected"} :
                            Returns(t, a) => request'.status = a
  <1>1. TypeOK /\ LockDiscipline /\ Evidence /\ [Next]_vars => [Reports]_vars
    <2> SUFFICES ASSUME TypeOK, LockDiscipline, Evidence, Next,
                        NEW t \in Txns, NEW a \in {"approved", "rejected"}, Returns(t, a)
                 PROVE  request'.status = a
      OBVIOUS
    <2>1. Tells(t)
      BY DEF Evidence
    <2>2. pc[t] # "idle" /\ pc'[t] = "idle" /\ answer'[t] = a
      BY DEF Returns
    <2>3. ASSUME NEW u \in Txns \ {t}, Call(u) \/ Proceed(u) \/ Abort(u) PROVE FALSE
      <3>1. Untouched(t)
        BY <2>3, SessionTells DEF Evidence
      <3> QED BY <3>1, <2>2 DEF Untouched
    <2>4. ~ Environment
      BY <2>2 DEF Environment, DelegationStarts, DelegationEnds, SlaBreach, session
    <2>5. Call(t) \/ Proceed(t) \/ Abort(t)
      BY <2>3, <2>4 DEF Next
    <2>6. ASSUME NEW b, ReturnUnchanged(t, b) \/ Rollback(t, b) PROVE b = a
      BY <2>6, <2>2 DEF ReturnUnchanged, Rollback, Return, TypeOK
    <2>7. ~ (pc[t] = "choose" /\ ReturnUnchanged(t, tx[t].answer))
      BY <2>1, <2>6 DEF Tells, CallTells
    <2>8. Commit(t)
      BY <2>5, <2>6, <2>7, ReturnsBy
    <2>9. tx[t].answer = a
      BY <2>2, <2>8 DEF Commit, Return, TypeOK
    <2> QED BY <2>1, <2>8, <2>9 DEF Commit, Tells, CallTells
  <1> QED BY <1>1, TypeCorrect, LockDisciplineHolds, EvidenceHolds, PTL
             DEF Spec, DecideReportsVerdict

-----------------------------------------------------------------------------
(* The engine implements ApprovalLifecycle.                                *)

\* The rows nobody has decided, the abstract `open`.
Open == {r \in Rows : steps[r].status = "pending"}

LEMMA InitLifecycle == Init => Lifecycle!Init
  <1> SUFFICES ASSUME Init PROVE Lifecycle!Init
    OBVIOUS
  <1>1. chain \in [Rows -> ChainRow]
    BY ChainAssumption DEF Init, ValidChain
  <1>2. \A r \in Rows : chain[r].step_no \in Nat \ {0}
    BY <1>1 DEF ChainRow, ChainRowOf
  <1>3. /\ request.status = "pending" /\ request.current_step = 1
        /\ \A r \in Rows : steps[r].status = "pending"
    BY DEF Init
  <1> QED BY <1>2, <1>3 DEF Lifecycle!Init

LEMMA LifeStutters ==
  ASSUME chain' = chain, Open' = Open, request'.status = request.status,
         request'.current_step = request.current_step
  PROVE  UNCHANGED Lifecycle!life
  BY DEF Lifecycle!life, Open

\* A commit that leaves the request alone settles rows of the current step, or
\* none.
LEMMA WaitingCommitSettles ==
  ASSUME TypeOK, LockDiscipline, Evidence, Evidence', NEW t \in Txns, Commit(t),
         requestLock # t
  PROVE  [Lifecycle!Next]_(Lifecycle!life)
  <1>1. Tells(t) /\ ChainInOrder'
    BY DEF Evidence
  <1>2. /\ chain' = chain /\ request' = request
        /\ \A r \in Rows : steps'[r] # steps[r] => steps[r].status = "pending"
    BY <1>1, CommitFacts
  <1>3. Open' \subseteq Open
    BY <1>2 DEF Open
  <1>4. CASE request.status # "pending"
    <2>1. Open = {}
      BY <1>4 DEF LockDiscipline, Walked, Open
    <2> QED BY <2>1, <1>2, <1>3, LifeStutters
  <1>5. CASE request.status = "pending"
    <2>1. ASSUME NEW r \in Open \ Open'
          PROVE  chain[r].step_no = request.current_step
      <3>1. r \in Rows /\ steps[r].status = "pending" /\ steps'[r].status # "pending"
        BY <2>1 DEF Open
      <3>2. ~ (chain[r].step_no < request.current_step)
        BY <3>1, <1>5 DEF LockDiscipline, Walked
      <3>3. ~ (chain[r].step_no > request.current_step)
        BY <3>1, <1>1, <1>2, <1>5 DEF ChainInOrder
      <3>4. chain[r].step_no \in Nat /\ request.current_step \in Nat
        BY <3>1, ChainAssumption
           DEF TypeOK, RequestRow, ValidChain, ChainRow, ChainRowOf
      <3> QED BY <3>2, <3>3, <3>4
    <2>2. CASE Open' = Open
      BY <2>2, <1>2, LifeStutters
    <2>3. CASE Open' # Open
      <3> DEFINE rows == Open \ Open'
      <3>1. rows \in (SUBSET Lifecycle!Asked) \ {{}}
        BY <2>1, <2>3, <1>3 DEF Lifecycle!Asked, Lifecycle!At, Open
      <3>2. Open' = Open \ rows
        BY <1>3
      <3>3. Lifecycle!Settle
        BY <3>1, <3>2, <1>2, <1>5 DEF Lifecycle!Settle, Open
      <3> QED BY <3>3 DEF Lifecycle!Next
    <2> QED BY <2>2, <2>3
  <1> QED BY <1>4, <1>5

\* The row of a deciding call is one of the rows asked.
LEMMA OwnRowIsAsked ==
  ASSUME TypeOK, LockDiscipline, NEW t \in Txns, Tells(t), Commit(t),
         tx[t].verb = "decide", OwnsRow(t)
  PROVE  tx[t].row \in Lifecycle!Asked
  BY CommitFacts DEF OwnsRow, Lifecycle!Asked, Lifecycle!At

\* A commit of the request is one of the abstract steps: the question moves on, or
\* the verdict falls.
LEMMA RequestCommitIsAStep ==
  ASSUME TypeOK, LockDiscipline, Evidence, NEW t \in Txns, Commit(t), requestLock = t
  PROVE  Lifecycle!Next
  <1> DEFINE n == request.current_step
  <1>1. Tells(t)
    BY DEF Evidence
  <1>2. /\ chain' = chain /\ request' = newRequest /\ request.status = "pending"
        /\ \A r \in Rows : steps'[r] = SeesStep(t, r)
        /\ tx[t].verb = "decide" /\ OwnsRow(t) => tx[t].step_no = n
    BY <1>1, CommitFacts, RequestCommitCases DEF SeesStep
  <1>3. request'.status # "pending" => request'.current_step = n
    <2>1. LET row == [request EXCEPT !.current_step = @ + 1] IN row.status = "pending"
      BY <1>2 DEF TypeOK, RequestRow
    <2> QED BY <1>2, <2>1, TxnAssumption DEF LockDiscipline, RequestLocked
  <1>4. ASSUME Settled(t, Rows) PROVE Open' = {}
    BY <1>4, <1>2 DEF Settled, Open
  <1>5. CASE tx[t].verb = "withdraw" /\ request'.status = "withdrawn" /\ Settled(t, Rows)
    <2>1. Lifecycle!Withdraw
      BY <1>2, <1>3, <1>4, <1>5 DEF Lifecycle!Withdraw, Open
    <2> QED BY <2>1 DEF Lifecycle!Next
  <1>6. CASE /\ tx[t].verb = "decide" /\ OwnsRow(t) /\ tx[t].approve
             /\ request'.status = "pending" /\ request'.current_step = n + 1
             /\ request'.current_step \in StepNos /\ Settled(t, RowsAt(n))
    <2>1. \A r \in Rows \ RowsAt(n) : steps'[r] = steps[r]
      BY <1>2, <1>6, ApprovalCompletes
    <2>2. Open' = Open \ Lifecycle!Asked
      BY <1>2, <1>6, <2>1 DEF Settled, Open, Lifecycle!Asked, Lifecycle!At, RowsAt
    <2>3. \E r \in Rows : chain[r].step_no > n
      <3>1. PICK r \in Rows : chain[r].step_no = n + 1
        BY <1>6 DEF StepNos
      <3>2. n \in Nat
        BY DEF TypeOK, RequestRow
      <3> QED BY <3>1, <3>2
    <2>4. Lifecycle!MoveOn
      BY <1>1, <1>2, <1>6, <2>2, <2>3, OwnRowIsAsked DEF Lifecycle!MoveOn, Open
    <2> QED BY <2>4 DEF Lifecycle!Next
  <1>7. CASE /\ tx[t].verb = "decide" /\ OwnsRow(t)
             /\ request'.status = VerdictOf(t)
             /\ tx[t].approve => LastStep(tx[t].step_no)
             /\ Settled(t, Rows)
    <2>1. Lifecycle!Asked # {}
      BY <1>1, <1>7, OwnRowIsAsked
    <2>2. CASE tx[t].approve
      <3>1. \A r \in Rows : chain[r].step_no <= n
        BY <1>2, <1>7, <2>2 DEF LastStep, StepNos
      <3>2. Lifecycle!Asked = Open
        <4>1. ASSUME NEW r \in Open PROVE chain[r].step_no = n
          <5>1. r \in Rows /\ ~ (chain[r].step_no < n)
            BY <4>1, <1>2 DEF LockDiscipline, Walked, Open
          <5>2. chain[r].step_no \in Nat /\ n \in Nat
            BY <5>1, ChainAssumption
               DEF TypeOK, RequestRow, ValidChain, ChainRow, ChainRowOf
          <5> QED BY <5>1, <5>2, <3>1
        <4> QED BY <4>1 DEF Open, Lifecycle!Asked, Lifecycle!At
      <3>3. Lifecycle!Approve
        BY <1>2, <1>3, <1>4, <1>7, <2>1, <2>2, <3>1, <3>2
           DEF Lifecycle!Approve, VerdictOf, Open
      <3> QED BY <3>3 DEF Lifecycle!Next
    <2>3. CASE ~ tx[t].approve
      <3>1. Lifecycle!Reject
        BY <1>2, <1>3, <1>4, <1>7, <2>1, <2>3 DEF Lifecycle!Reject, VerdictOf, Open
      <3> QED BY <3>1 DEF Lifecycle!Next
    <2> QED BY <2>2, <2>3
  <1> QED BY <1>1, <1>5, <1>6, <1>7, RequestCommitCases

\* A call never rewrites what filing wrote of the chain.
LEMMA ChainStays == ASSUME [Next]_vars PROVE chain' = chain
  <1>1. ASSUME NEW t \in Txns, Call(t) \/ Proceed(t) \/ Abort(t)
        PROVE  chain' = chain
    BY <1>1 DEF Call, DecideRequest, WithdrawRequest, EscalateRequest,
       ReturnUnchanged, world, Proceed, Decide, DecideRows, Authorize, Choose,
       ChooseNone, Mark, Reread, Count, Advance, Finish, SkipRow, SkipDone,
       WithdrawFinish, Escalate, EscalateNowhere, EscalateTo, EscalateRow,
       EscalateIndex, Commit, CancelDeadlocked, Abort, Rollback
  <1> QED BY <1>1 DEF Next, Environment, DelegationStarts, DelegationEnds,
                      SlaBreach, vars, world

\* For every number of callers, rows and steps, the engine is an ApprovalLifecycle:
\* a commit is one of its steps, and any other statement leaves it where it is.
THEOREM EngineImplementsLifecycle == Spec => ImplementsLifecycle
  <1>1. /\ TypeOK /\ LockDiscipline /\ Evidence /\ Evidence' /\ [Next]_vars
        => [Lifecycle!Next]_(Lifecycle!life)
    <2> SUFFICES ASSUME TypeOK, LockDiscipline, Evidence, Evidence', [Next]_vars
                 PROVE  [Lifecycle!Next]_(Lifecycle!life)
      OBVIOUS
    <2>1. CASE \E t \in Txns : Commit(t)
      BY <2>1, WaitingCommitSettles, RequestCommitIsAStep
    <2>2. CASE ~ \E t \in Txns : Commit(t)
      <3>1. UNCHANGED committed
        BY <2>2, OnlyCommitsPublish DEF vars
      <3> QED BY <3>1, ChainStays, LifeStutters DEF committed, Open
    <2> QED BY <2>1, <2>2
  <1> QED BY <1>1, InitLifecycle, TypeCorrect, LockDisciplineHolds, EvidenceHolds, PTL
             DEF Spec, ImplementsLifecycle, Lifecycle!Spec
=============================================================================
