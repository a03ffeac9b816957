--------------------- MODULE DecisionEngineRaces_proofs ---------------------
(***************************************************************************)
(* What TLAPS proves about calls that overlap: that their row locks never  *)
(* strand one of them, and that each promise the engine breaks, it breaks  *)
(* only while two calls of certain verbs are in flight together.           *)
(***************************************************************************)
EXTENDS DecisionEngineVerdict_proofs, WaitCircles

-----------------------------------------------------------------------------
(* Row locks strand nobody.                                                *)

\* Whoever waits, waits for other calls, and for such as are at work.
LEMMA WaitsAreForOthers ==
  ASSUME TypeOK, LockDiscipline, Evidence, NEW t \in Txns
  PROVE  WaitsFor(t) \subseteq InFlight \ {t}
  <1>1. \A r \in Rows : stepLock[r] # NoTxn =>
          stepLock[r] \in Txns /\ stepLock[r] \in InFlight /\ pc[stepLock[r]] \in Writing
    BY DEF TypeOK, LockDiscipline, RowLocks, InFlight, Writing
  <1>2. requestLock # NoTxn =>
          /\ requestLock \in Txns /\ requestLock \in InFlight
          /\ pc[requestLock] = "commit"
    BY DEF TypeOK, LockDiscipline, RequestLocked, InFlight
  <1>3. CASE pc[t] \in {"mark", "escalate"}
    <2>1. WaitsFor(t) = {stepLock[tx[t].row]} \ {NoTxn}
      BY <1>3 DEF WaitsFor
    <2>2. tx[t].row \in Rows
      BY <1>3 DEF LockDiscipline, CallKnows, RowsAt
    <2>3. pc[t] \notin Writing
      BY <1>3 DEF Writing
    <2> QED BY <1>1, <2>1, <2>2, <2>3
  <1>4. CASE pc[t] = "skip"
    <2>1. WaitsFor(t) = {stepLock[r] : r \in StillToSkip(t)} \ {NoTxn}
      BY <1>4 DEF WaitsFor
    <2>2. ASSUME NEW r \in StillToSkip(t), stepLock[r] = t PROVE FALSE
      <3>1. r \in Rows /\ newSteps[r].status = "pending"
        BY <2>2 DEF StillToSkip, SkipTargets, SeesStep
      <3>2. tx[t].verb \in {"decide", "withdraw"}
        BY <1>4 DEF LockDiscipline, CallKnows
      <3>3. RowTells(t, r)
        BY <2>2, <3>1 DEF Evidence, Tells
      <3> QED BY <3>1, <3>2, <3>3 DEF RowTells, VerdictOf
    <2>3. StillToSkip(t) \subseteq Rows
      BY DEF StillToSkip, SkipTargets
    <2> QED BY <1>1, <2>1, <2>2, <2>3
  <1>5. CASE pc[t] \in {"advance", "finish", "withdraw"}
    <2>1. WaitsFor(t) = {requestLock} \ {NoTxn}
      BY <1>5 DEF WaitsFor
    <2> QED BY <1>2, <1>5, <2>1
  <1>6. CASE pc[t] = "index"
    <2>1. WaitsFor(t) = {u \in Txns : KeyHeldBy(t, u)}
      BY <1>6 DEF WaitsFor
    <2>2. ASSUME NEW u \in Txns, KeyHeldBy(t, u) PROVE u # t /\ u \in InFlight
      <3>1. PICK q \in Rows : u # t /\ stepLock[q] = u
        BY <2>2 DEF KeyHeldBy, RowsAt
      <3> QED BY <1>1, <3>1, TxnAssumption
    <2> QED BY <2>1, <2>2
  <1>7. CASE pc[t] \notin {"mark", "escalate", "skip", "advance", "finish", "withdraw",
                           "index"}
    BY <1>7 DEF WaitsFor
  <1> QED BY <1>3, <1>4, <1>5, <1>6, <1>7

\* A step starts one call at most.
LEMMA OneCallStarts ==
  ASSUME TypeOK, LockDiscipline, Evidence, IsFiniteSet(InFlight), [Next]_vars
  PROVE  IsFiniteSet(InFlight')
  <1>1. ASSUME NEW t \in Txns, Call(t) \/ Proceed(t) \/ Abort(t)
        PROVE  IsFiniteSet(InFlight')
    <2>1. \A u \in Txns \ {t} : pc'[u] = pc[u]
      BY <1>1, SessionTells DEF Evidence, Untouched
    <2>2. InFlight' \subseteq InFlight \cup {t}
      BY <2>1 DEF InFlight
    <2> QED BY <2>2, FS_AddElement, FS_Subset
  <1>2. CASE UNCHANGED pc
    BY <1>2 DEF InFlight
  <1> QED
    BY <1>1, <1>2 DEF Next, Environment, DelegationStarts, DelegationEnds, SlaBreach,
                      session, vars

\* However many sessions there are, finitely many calls are in flight at once.
LEMMA FinitelyManyInFlight == Spec => []IsFiniteSet(InFlight)
  <1>1. Init => IsFiniteSet(InFlight)
    <2> SUFFICES ASSUME Init PROVE InFlight = {}
      BY FS_EmptySet
    <2> QED BY DEF Init, InFlight
  <1>2. TypeOK /\ LockDiscipline /\ Evidence /\ IsFiniteSet(InFlight) /\ [Next]_vars
        => IsFiniteSet(InFlight')
    BY OneCallStarts
  <1> DEFINE Finite == IsFiniteSet(InFlight)
  <1>3. Init => Finite
    BY <1>1
  <1>4. TypeOK /\ LockDiscipline /\ Evidence /\ Finite /\ [Next]_vars => Finite'
    BY <1>2
  <1> HIDE DEF Finite
  <1>5. Spec => []Finite
    BY <1>3, <1>4, TypeCorrect, LockDisciplineHolds, EvidenceHolds, PTL DEF Spec
  <1> QED BY <1>5 DEF Finite

\* For any number of sessions on one request, its rows and any chain: calls wait for
\* calls at work only, and calls that all wait for each other contain a circle, which
\* PostgreSQL cancels.  No call is left behind a lock for ever because its holder has
\* gone, which is the part of CallsReturn that needs no fairness.
THEOREM CallsAreNeverStranded == Spec => []NobodyIsStranded
  <1> DEFINE Finite == IsFiniteSet(InFlight)
  <1>1. TypeOK /\ LockDiscipline /\ Evidence /\ Finite => NobodyIsStranded
    <2> SUFFICES ASSUME TypeOK, LockDiscipline, Evidence, Finite PROVE NobodyIsStranded
      OBVIOUS
    <2>1. \A t \in Txns : WaitsFor(t) \subseteq InFlight \ {t}
      BY WaitsAreForOthers
    <2>2. ASSUME NEW group \in (SUBSET InFlight) \ {{}},
                 \A t \in group : WaitsFor(t) \subseteq group,
                 \A t \in group : WaitsFor(t) # {}
          PROVE  \E t \in group : Deadlocked(t)
      <3> DEFINE waits == [t \in group |-> WaitsFor(t)]
      <3>1. group \subseteq Txns /\ IsFiniteSet(group) /\ group # {}
        BY FS_Subset DEF InFlight
      <3>2. \A t \in group : waits[t] \subseteq group \ {t} /\ waits[t] # {}
        BY <2>1, <2>2, <3>1
      <3> HIDE DEF waits
      <3>3. PICK circle \in (SUBSET group) \ {{}} : Circle(waits, circle)
        BY <3>1, <3>2, WaitingClosesACircle
      <3>4. \A u \in circle : /\ WaitsFor(u) \cap circle # {}
                              /\ \E w \in circle : u \in WaitsFor(w)
        BY <3>3 DEF Circle, waits
      <3>5. PICK t \in circle : TRUE
        BY <3>3
      <3> QED BY <3>1, <3>3, <3>4, <3>5 DEF Deadlocked
    <2> QED BY <2>1, <2>2 DEF NobodyIsStranded
  <1>2. Spec => []Finite
    BY FinitelyManyInFlight
  <1> HIDE DEF Finite
  <1> QED BY <1>1, <1>2, TypeCorrect, LockDisciplineHolds, EvidenceHolds, PTL

\* One session's statement that is no commit publishes nothing.
LEMMA OthersPublishNothing ==
  ASSUME TypeOK, LockDiscipline, Evidence, NEW t \in Txns,
         Call(t) \/ Proceed(t) \/ Abort(t), ~ Commit(t)
  PROVE  steps' = steps /\ request' = request
  <1>1. ASSUME NEW u \in Txns, Commit(u) PROVE FALSE
    <2>1. pc[u] = "commit" /\ pc'[u] = "idle" /\ u # t
      BY <1>1 DEF Commit, Return, Goto, TypeOK
    <2>2. Untouched(u)
      BY <2>1, SessionTells DEF Evidence
    <2> QED BY <2>1, <2>2 DEF Untouched
  <1> QED BY <1>1, OnlyCommitsPublish DEF Next, committed

-----------------------------------------------------------------------------
(* Quorums stall only while two decisions overlap.                         *)

\* Escalations and withdrawals settle no row of a request that stays pending.
LEMMA OnlyDecisionsSettle ==
  ASSUME TypeOK, LockDiscipline, NEW t \in Txns, Tells(t), Commit(t),
         tx[t].verb # "decide", request'.status = "pending"
  PROVE  /\ \A r \in Rows : steps'[r].status = steps[r].status
         /\ request' = request
  <1>1. requestLock # t /\ request' = request
    BY CommitFacts, RequestCommitCases
  <1>2. ASSUME NEW r \in Rows, stepLock[r] = t PROVE newSteps[r].status = "pending"
    <2>1. tx[t].verb = "escalate"
      BY <1>1, <1>2 DEF Tells, CallTells, Commit
    <2> QED BY <1>2, <2>1 DEF Tells, RowTells
  <1> QED BY <1>1, <1>2, CommitFacts

\* A commit that is no decision, or that a decision makes after its countdown, leaves
\* the pending request with a row to decide; one that moves on asks the next step.
LEMMA CommitStaysAsked ==
  ASSUME TypeOK, LockDiscipline, Evidence, Asked, NEW t \in Txns, LeavesAsked(t),
         Commit(t)
  PROVE  Asked'
  <1> SUFFICES ASSUME request'.status = "pending"
               PROVE  \E r \in RowsAt(request'.current_step) : steps'[r].status = "pending"
    <2>1. \A n : RowsAt(n)' = RowsAt(n)
      BY CommitFacts DEF Evidence
    <2> QED BY <2>1 DEF Asked
  <1>1. Tells(t) /\ ChainInOrder /\ pc[t] = "commit"
    BY DEF Evidence, Commit
  <1>2. /\ \A r \in Rows : steps'[r] = IF stepLock[r] = t THEN newSteps[r] ELSE steps[r]
        /\ \A n : RowsAt(n) \subseteq Rows
    BY <1>1, CommitFacts DEF RowsAt
  <1>3. CASE tx[t].verb # "decide"
    BY <1>1, <1>2, <1>3, OnlyDecisionsSettle DEF Asked
  <1>4. CASE tx[t].verb = "decide" /\ requestLock = t
    <2>1. /\ request.status = "pending" /\ tx[t].approve /\ OwnsRow(t)
          /\ request'.current_step = request.current_step + 1
          /\ request'.current_step \in StepNos
      BY <1>1, <1>4, RequestCommitCases DEF VerdictOf
    <2>2. PICK r \in Rows : chain[r].step_no = request'.current_step
      BY <2>1 DEF StepNos
    <2>3. request.current_step \in Nat
      BY DEF TypeOK, RequestRow
    <2>4. steps[r].status = "pending"
      BY <1>1, <2>1, <2>2, <2>3 DEF ChainInOrder
    <2>5. stepLock[r] # t
      <3>1. SUFFICES ASSUME stepLock[r] = t PROVE FALSE
        OBVIOUS
      <3>2. RowTells(t, r)
        BY <3>1 DEF Evidence, Tells
      <3>3. chain[r].step_no = tx[t].step_no
        BY <1>4, <2>1, <3>2 DEF RowTells, OwnsRow, RowsAt
      <3>4. tx[t].step_no = request.current_step
        BY <1>1, <1>4, <2>1, CommitFacts
      <3> QED BY <2>1, <2>2, <2>3, <3>3, <3>4
    <2> QED BY <1>2, <2>2, <2>4, <2>5 DEF RowsAt
  <1>5. CASE tx[t].verb = "decide" /\ requestLock # t
    <2>1. request' = request
      BY <1>1, <1>5, CommitFacts
    <2>2. CASE OwnsRow(t)
      <3>1. tx[t].step_no = request.current_step
        BY <1>1, <1>5, <2>2, CommitFacts
      <3>2. PICK r \in RowsAt(request.current_step) : SeesStep(t, r).status = "pending"
        BY <1>1, <1>5, <2>1, <2>2, <3>1 DEF LeavesAsked
      <3> QED BY <1>2, <2>1, <3>2 DEF SeesStep
    <2>3. CASE ~ OwnsRow(t)
      <3>1. \A r \in Rows : stepLock[r] # t
        BY <1>1, <1>5, <2>3 DEF Tells, RowTells
      <3> QED BY <1>2, <2>1, <3>1 DEF Asked
    <2> QED BY <2>2, <2>3
  <1> QED BY <1>3, <1>4, <1>5

\* What the call of t knows of its step after its own statement.
LEMMA OwnStatementLeavesAsked ==
  ASSUME TypeOK, LockDiscipline, Evidence, NEW t \in Txns, LeavesAsked(t),
         Call(t) \/ Proceed(t) \/ Abort(t)
  PROVE  LeavesAsked(t)'
  <1> SUFFICES ASSUME pc'[t] = "commit", tx'[t].verb = "decide", OwnsRow(t)',
                      requestLock' # t, request'.status = "pending"
               PROVE  \E r \in RowsAt(tx[t].step_no)' : SeesStep(t, r)'.status = "pending"
    BY DEF LeavesAsked
  <1>1. ASSUME NEW label, Goto(t, label) PROVE label = "commit"
    BY <1>1 DEF Goto, TypeOK
  <1>2. \/ Reread(t) \/ Count(t) \/ Advance(t) \/ Finish(t) \/ WithdrawFinish(t)
        \/ EscalateIndex(t) /\ tx[t].verb = tx'[t].verb
    <2>1. ~ Call(t)
      BY <1>1 DEF Call, DecideRequest, WithdrawRequest, EscalateRequest, ReturnUnchanged,
                  Return
    <2>2. ~ (DecideRows(t) \/ Authorize(t) \/ Choose(t) \/ ChooseNone(t) \/ Mark(t))
      BY <1>1 DEF DecideRows, Authorize, Choose, ChooseNone, Mark, AfterMark,
                  ReturnUnchanged, Return
    <2>3. ~ (SkipRow(t) \/ SkipDone(t))
      BY <1>1 DEF SkipRow, SkipDone, session
    <2>4. ~ (EscalateNowhere(t) \/ EscalateTo(t) \/ EscalateRow(t))
      BY <1>1 DEF EscalateNowhere, EscalateTo, EscalateRow, ReturnUnchanged, Return
    <2>5. ~ (Commit(t) \/ CancelDeadlocked(t) \/ Abort(t))
      BY <1>1 DEF Commit, CancelDeadlocked, Abort, Rollback, Return
    <2>6. EscalateIndex(t) => tx[t].verb = tx'[t].verb
      BY <1>1 DEF EscalateIndex, Rollback, Return, Set, TypeOK, Locals
    <2> QED BY <2>1, <2>2, <2>3, <2>4, <2>5, <2>6 DEF Proceed, Decide, Escalate
  <1>3. Tells(t)
    BY DEF Evidence
  <1>4. CASE Count(t)
    <2>1. PICK r \in RowsAt(tx[t].step_no) : SeesStep(t, r).status = "pending"
      BY <1>1, <1>4 DEF Count, Remaining
    <2> QED BY <1>4, <2>1 DEF Count, SeesStep, RowsAt, committed, locks, world
  <1>5. CASE Reread(t)
    <2>1. \A r \in Rows : stepLock'[r] # t
      BY <1>5, NoLocks DEF Reread, Writing, locks
    <2> QED BY <2>1 DEF OwnsRow, RowsAt
  <1>6. CASE Advance(t) \/ Finish(t)
    <2>1. pc[t] \in {"advance", "finish"}
      BY <1>6 DEF Advance, Finish
    <2>2. requestLock' = t
      BY <1>6, <2>1, AtRequest DEF Advance, Finish, WriteRequest
    <2> QED BY <2>2
  <1>7. CASE WithdrawFinish(t)
    <2>1. tx[t].verb = "withdraw" /\ tx'[t].verb = tx[t].verb
      BY <1>3, <1>7 DEF WithdrawFinish, Tells, CallTells, Set, TypeOK, Locals
    <2> QED BY <2>1
  <1>8. CASE EscalateIndex(t) /\ tx[t].verb = tx'[t].verb
    <2>1. tx[t].verb = "escalate"
      BY <1>3, <1>8 DEF EscalateIndex, Tells, CallTells
    <2> QED BY <1>8, <2>1
  <1> QED BY <1>2, <1>4, <1>5, <1>6, <1>7, <1>8

\* What another session's statement leaves of it: all, unless that session commits a
\* decision of its own.
LEMMA OthersStatementLeavesAsked ==
  ASSUME TypeOK, LockDiscipline, Evidence, NEW t \in Txns, NEW u \in Txns \ {t},
         Apart("decide", "decide"), LeavesAsked(u), Call(t) \/ Proceed(t) \/ Abort(t)
  PROVE  LeavesAsked(u)'
  <1>1. Untouched(u) /\ Tells(t)
    BY SessionTells DEF Evidence
  <1> SUFFICES ASSUME pc'[u] = "commit", tx'[u].verb = "decide", OwnsRow(u)',
                      requestLock' # u, request'.status = "pending"
               PROVE  \E r \in RowsAt(tx[u].step_no)' : SeesStep(u, r)'.status = "pending"
    BY DEF LeavesAsked
  <1>2. /\ \A n : RowsAt(n)' = RowsAt(n) /\ RowsAt(n) \subseteq Rows
        /\ tx'[u] = tx[u] /\ request.status = "pending"
    BY <1>1 DEF Untouched, RowsAt
  <1>3. OwnsRow(u) /\ pc[u] = "commit" /\ requestLock # u
    BY <1>1, <1>2 DEF OwnsRow, Untouched, RowsAt
  <1>4. PICK r \in RowsAt(tx[u].step_no) : SeesStep(u, r).status = "pending"
    BY <1>2, <1>3 DEF LeavesAsked
  <1>5. stepLock[r] # u => steps'[r].status = steps[r].status
    <2>1. CASE Commit(t)
      <3>1. tx[t].verb # "decide"
        BY <1>2 DEF Apart
      <3> QED BY <1>1, <1>2, <2>1, <3>1, OnlyDecisionsSettle
    <2>2. CASE ~ Commit(t)
      BY <2>2, OthersPublishNothing
    <2> QED BY <2>1, <2>2
  <1> QED BY <1>1, <1>2, <1>4, <1>5 DEF SeesStep, Untouched

\* A filed request asks its first step.
LEMMA InitStaysAsked == Init => StepStaysAsked
  <1> SUFFICES ASSUME Init PROVE StepStaysAsked
    OBVIOUS
  <1>1. Asked
    BY InitType, ChainNumbers DEF Init, Asked, StepNos, RowsAt
  <1>2. \A t \in Txns : LeavesAsked(t)
    BY DEF Init, LeavesAsked
  <1> QED BY <1>1, <1>2 DEF StepStaysAsked

\* No statement, committing or not, takes the last row a pending request asks.
LEMMA StatementStaysAsked ==
  ASSUME TypeOK, LockDiscipline, Evidence, [Next]_vars, StepStaysAsked, NEW t \in Txns,
         Call(t) \/ Proceed(t) \/ Abort(t)
  PROVE  Asked'
  <1>1. Asked /\ LeavesAsked(t)
    BY DEF StepStaysAsked
  <1>2. CASE Commit(t)
    BY <1>1, <1>2, CommitStaysAsked
  <1>3. CASE ~ Commit(t)
    <2>1. chain' = chain
      BY ChainStays
    <2> QED BY <1>1, <1>3, <2>1, OthersPublishNothing DEF Asked, RowsAt
  <1> QED BY <1>2, <1>3

\* Windows and deadlines decide nothing.
LEMMA FrameStaysAsked ==
  ASSUME StepStaysAsked, Environment \/ UNCHANGED vars
  PROVE  StepStaysAsked'
  <1>1. UNCHANGED <<committed, locks, chain, pc, tx>>
    BY DEF Environment, DelegationStarts, DelegationEnds, SlaBreach, session, vars, world
  <1>2. Asked'
    BY <1>1 DEF StepStaysAsked, Asked, RowsAt, committed
  <1>3. \A t \in Txns : LeavesAsked(t)'
    BY <1>1 DEF StepStaysAsked, LeavesAsked, RowsAt, SeesStep, OwnsRow, committed, locks
  <1> QED BY <1>2, <1>3 DEF StepStaysAsked

\* For any number of sessions, employees and rows: as long as no two decisions of one
\* request overlap, count_pending_steps_at tells each the truth, and a pending request
\* asks somebody.  The stall of quorum_stalls is that race and nothing else.
THEOREM QuorumsAdvanceOneByOne ==
  Spec /\ []Apart("decide", "decide") => []QuorumAdvances
  <1> DEFINE Known == TypeOK /\ LockDiscipline /\ Evidence
  <1>1. Known /\ Apart("decide", "decide") /\ StepStaysAsked /\ [Next]_vars
            => StepStaysAsked'
    <2> SUFFICES ASSUME Known, Apart("decide", "decide"), StepStaysAsked, [Next]_vars
                 PROVE  StepStaysAsked'
      OBVIOUS
    <2>1. \A t \in Txns : LeavesAsked(t)
      BY DEF StepStaysAsked
    <2>2. ASSUME NEW t \in Txns, Call(t) \/ Proceed(t) \/ Abort(t)
          PROVE  StepStaysAsked'
      <3>1. Asked'
        BY <2>2, StatementStaysAsked
      <3>2. \A u \in Txns : LeavesAsked(u)'
        BY <2>1, <2>2, OwnStatementLeavesAsked, OthersStatementLeavesAsked
      <3> QED BY <3>1, <3>2 DEF StepStaysAsked
    <2>3. CASE Environment \/ UNCHANGED vars
      BY <2>3, FrameStaysAsked
    <2>4. Next \/ UNCHANGED vars
      OBVIOUS
    <2> HIDE DEF Known
    <2> QED BY <2>2, <2>3, <2>4 DEF Next
  <1>2. StepStaysAsked => QuorumAdvances
    BY DEF StepStaysAsked, Asked, QuorumAdvances
  <1> HIDE DEF Known
  <1>3. Spec => []Known
    BY TypeCorrect, LockDisciplineHolds, EvidenceHolds, PTL DEF Known
  <1> QED BY <1>1, <1>2, <1>3, InitStaysAsked, PTL DEF Spec

\* At a step that takes one answer, no decision is committed without the request.
LEMMA SoloDecisionsMoveTheRequest ==
  ASSUME TypeOK, LockDiscipline, Evidence, SoloSteps, NEW t \in Txns, LeavesAsked(t),
         pc[t] = "commit", tx[t].verb = "decide", OwnsRow(t), requestLock # t
  PROVE  request.status # "pending"
  <1> SUFFICES ASSUME request.status = "pending" PROVE FALSE
    OBVIOUS
  <1> DEFINE own == tx[t].row
  <1>1. PICK r \in RowsAt(tx[t].step_no) : SeesStep(t, r).status = "pending"
    BY DEF LeavesAsked
  <1>2. own \in RowsAt(tx[t].step_no) /\ stepLock[own] = t /\ own \in Rows
    BY DEF OwnsRow, RowsAt
  <1>3. ~ AnyHolderRow(own) /\ RowTells(t, own)
    BY <1>2 DEF Evidence, Tells, CallTells
  <1>4. r = own
    BY <1>1, <1>2, <1>3 DEF SoloSteps, RowsAt
  <1>5. newSteps[own].status = VerdictOf(t)
    BY <1>3 DEF RowTells
  <1> QED BY <1>1, <1>2, <1>4, <1>5 DEF SeesStep, VerdictOf

\* For any number of sessions, employees and rows, and whatever calls overlap: where no
\* quorum has two members, a pending request asks somebody.  The stall of quorum_stalls
\* is one of quorums of two or more.
THEOREM SoloStepsNeverStall == Spec /\ SoloSteps => []QuorumAdvances
  <1> DEFINE Known == TypeOK /\ LockDiscipline /\ Evidence
             Solo == SoloSteps /\ StepStaysAsked
  <1>1. Init => StepStaysAsked
    BY InitStaysAsked
  <1>2. Known /\ Solo /\ [Next]_vars => Solo'
    <2> SUFFICES ASSUME Known, Solo, [Next]_vars PROVE Solo'
      OBVIOUS
    <2>1. SoloSteps'
      BY ChainStays DEF SoloSteps, AnyHolderRow
    <2>2. Asked /\ \A t \in Txns : LeavesAsked(t)
      BY DEF StepStaysAsked
    <2>3. ASSUME NEW t \in Txns, Call(t) \/ Proceed(t) \/ Abort(t)
          PROVE  StepStaysAsked'
      <3>1. Asked'
        BY <2>2, <2>3, StatementStaysAsked
      <3>2. LeavesAsked(t)'
        BY <2>2, <2>3, OwnStatementLeavesAsked
      <3>3. ASSUME NEW u \in Txns \ {t} PROVE LeavesAsked(u)'
        <4> SUFFICES ASSUME pc'[u] = "commit", tx'[u].verb = "decide", OwnsRow(u)',
                            requestLock' # u, request'.status = "pending"
                     PROVE  FALSE
          BY DEF LeavesAsked
        <4>1. Untouched(u)
          BY <2>3, SessionTells DEF Evidence
        <4>2. /\ pc[u] = "commit" /\ tx[u].verb = "decide" /\ OwnsRow(u)
              /\ requestLock # u /\ request.status = "pending"
          BY <4>1 DEF Untouched, OwnsRow, RowsAt
        <4> QED BY <2>2, <4>2, SoloDecisionsMoveTheRequest
      <3> QED BY <3>1, <3>2, <3>3 DEF StepStaysAsked
    <2>4. CASE Environment \/ UNCHANGED vars
      BY <2>1, <2>4, FrameStaysAsked
    <2>5. Next \/ UNCHANGED vars
      OBVIOUS
    <2> HIDE DEF Known
    <2> QED BY <2>1, <2>3, <2>4, <2>5 DEF Next
  <1>3. Solo => QuorumAdvances
    BY DEF StepStaysAsked, Asked, QuorumAdvances
  <1>4. Init /\ SoloSteps => Solo
    BY <1>1
  <1> HIDE DEF Known, Solo
  <1>5. Spec => []Known
    BY TypeCorrect, LockDisciplineHolds, EvidenceHolds, PTL DEF Known
  <1> QED BY <1>2, <1>3, <1>4, <1>5, PTL DEF Spec

-----------------------------------------------------------------------------
(* The trail names the wrong authority only after an escalation that a      *)
(* decision overlaps.                                                      *)

\* Three statements write rows; any other leaves the versions as they are, or ends the
\* call, which leaves each row a version it had.
LEMMA VersionsWritten ==
  ASSUME TypeOK, NEW t \in Txns, Call(t) \/ Proceed(t) \/ Abort(t)
  PROVE  \/ Mark(t) \/ SkipRow(t) \/ EscalateRow(t)
         \/ newSteps' = newSteps /\ stepLock' = stepLock
         \/ /\ \A r \in Rows : newSteps'[r] = newSteps[r] \/ newSteps'[r] = steps[r]
            /\ pc'[t] = "idle"
  <1> DEFINE Kept == newSteps' = newSteps /\ stepLock' = stepLock
  <1>1. ASSUME NEW a, ReturnUnchanged(t, a) PROVE Kept
    BY <1>1 DEF ReturnUnchanged, locks
  <1>2. Call(t) => Kept
    BY <1>1 DEF Call, DecideRequest, WithdrawRequest, EscalateRequest, locks
  <1>3. DecideRows(t) \/ Authorize(t) \/ Choose(t) \/ ChooseNone(t) \/ Reread(t)
        \/ Count(t) \/ SkipDone(t) \/ EscalateNowhere(t) \/ EscalateTo(t) => Kept
    BY <1>1 DEF DecideRows, Authorize, Choose, ChooseNone, Reread, Count, SkipDone,
                EscalateNowhere, EscalateTo, locks
  <1>4. Advance(t) \/ Finish(t) \/ WithdrawFinish(t) => Kept
    BY DEF Advance, Finish, WithdrawFinish
  <1>5. ASSUME NEW a, Rollback(t, a)
        PROVE  /\ \A r \in Rows : newSteps'[r] = newSteps[r] \/ newSteps'[r] = steps[r]
               /\ pc'[t] = "idle"
    BY <1>5 DEF Rollback, Return, Goto, TypeOK
  <1>6. Commit(t) => newSteps' = newSteps /\ pc'[t] = "idle"
    BY DEF Commit, Return, Goto, TypeOK
  <1>7. EscalateIndex(t) => Kept \/ Rollback(t, "database_error")
    BY DEF EscalateIndex, locks
  <1> QED BY <1>2, <1>3, <1>4, <1>5, <1>6, <1>7
             DEF Proceed, Decide, Escalate, CancelDeadlocked, Abort

\* A call keeps its verb until it returns.
LEMMA VerbStays ==
  ASSUME TypeOK, NEW t \in Txns, Call(t) \/ Proceed(t) \/ Abort(t),
         pc[t] # "idle", pc'[t] # "idle"
  PROVE  tx'[t].verb = tx[t].verb
  <1>1. ASSUME NEW a PROVE ~ Return(t, a)
    BY DEF Return, Goto, TypeOK
  <1>2. ~ Call(t) /\ ~ ChooseNone(t) /\ ~ EscalateNowhere(t) /\ ~ Commit(t)
        /\ \A a : ~ Rollback(t, a) /\ ~ ReturnUnchanged(t, a)
    BY <1>1 DEF Call, DecideRequest, WithdrawRequest, EscalateRequest, ChooseNone,
                EscalateNowhere, Commit, Rollback, ReturnUnchanged
  <1> USE DEF Set, TypeOK, Locals
  <1>3. DecideRows(t) \/ Authorize(t) \/ Choose(t) \/ Reread(t) \/ WithdrawFinish(t)
        \/ EscalateTo(t) => tx'[t].verb = tx[t].verb
    <2>1. DecideRows(t) => tx'[t].verb = tx[t].verb
      BY <1>2 DEF DecideRows
    <2>2. Authorize(t) => tx'[t].verb = tx[t].verb
      BY DEF Authorize
    <2>3. Choose(t) => tx'[t].verb = tx[t].verb
      BY DEF Choose
    <2>4. Reread(t) => tx'[t].verb = tx[t].verb
      BY DEF Reread
    <2>5. WithdrawFinish(t) => tx'[t].verb = tx[t].verb
      BY DEF WithdrawFinish
    <2>6. EscalateTo(t) => tx'[t].verb = tx[t].verb
      BY DEF EscalateTo
    <2> QED BY <2>1, <2>2, <2>3, <2>4, <2>5, <2>6
  <1>4. Mark(t) \/ SkipRow(t) \/ SkipDone(t) \/ Count(t) \/ EscalateRow(t)
        => tx' = tx
    BY <1>2 DEF Mark, SkipRow, SkipDone, Count, EscalateRow, session
  <1>5. Advance(t) \/ Finish(t) \/ EscalateIndex(t) => tx'[t].verb = tx[t].verb
    BY <1>2 DEF Advance, Finish, EscalateIndex
  <1> QED BY <1>2, <1>3, <1>4, <1>5
             DEF Proceed, Decide, Escalate, CancelDeadlocked, Abort

\* A step of the engine after which a session still holds a row leaves its call open.
LEMMA HoldersWork ==
  ASSUME TypeOK, LockDiscipline, [Next]_vars, NEW t \in Txns, NEW r \in Rows,
         stepLock'[r] = t
  PROVE  pc'[t] \in Writing
  <1>1. LockDiscipline'
    BY StepDiscipline
  <1> QED BY <1>1, TxnAssumption DEF LockDiscipline, RowLocks

\* A statement publishes a session's own versions, or nothing.
LEMMA RowsPublished ==
  ASSUME TypeOK, LockDiscipline, Evidence, NEW t \in Txns,
         Call(t) \/ Proceed(t) \/ Abort(t)
  PROVE  /\ \A r \in Rows : \/ steps'[r] = steps[r]
                            \/ stepLock[r] = t /\ steps'[r] = newSteps[r]
         /\ Commit(t) \/ steps' = steps
  <1>1. CASE Commit(t)
    BY <1>1, CommitFacts DEF Evidence
  <1>2. CASE ~ Commit(t)
    BY <1>2, OthersPublishNothing
  <1> QED BY <1>1, <1>2

\* mark_step_decided stamps the row with the authority that was used.
LEMMA DecidedNamesDecider ==
  ASSUME TypeOK, LockDiscipline, AssigneeStands, NEW t \in Txns, pc[t] = "mark",
         steps[tx[t].row].status = "pending"
  PROVE  LET row == Decided(t, tx[t].row) IN
           /\ NamesDecider(row) /\ Undecided(row)
           /\ row.assigned_to = steps[tx[t].row].assigned_to
  <1> DEFINE r == tx[t].row
             row == Decided(t, r)
  <1>1. r \in Rows /\ steps[r] \in StepRow /\ tx[t] \in Locals
    BY DEF LockDiscipline, CallKnows, RowsAt, TypeOK
  <1>2. /\ row.status # "pending" /\ row.actor = tx[t].actor
        /\ row.assigned_to = steps[r].assigned_to
        /\ row.delegated_from = IF tx[t].assignee = tx[t].actor
                                THEN steps[r].delegated_from ELSE tx[t].assignee
    BY <1>1 DEF Decided, StepRow
  <1>3. tx[t].assignee = steps[r].assigned_to /\ MayStandFor(tx[t].actor, tx[t].assignee)
    BY DEF AssigneeStands, ReadStands
  <1>4. NamesDecider(row) /\ Undecided(row)
    BY <1>2, <1>3 DEF NamesDecider, Undecided, MayStandFor
  <1> QED BY <1>2, <1>4

\* Skipping a pending row or moving it decides nothing.
LEMMA UndecidedStays ==
  ASSUME NEW row \in StepRow, row.status = "pending", Undecided(row),
         NEW new \in StepRow, new.actor = row.actor
  PROVE  NamesDecider(new) /\ Undecided(new)
  BY DEF NamesDecider, Undecided

\* The three statements that write rows, each of the row it has waited for.
LEMMA WrittenRows ==
  ASSUME TypeOK, LockDiscipline, AssigneeStands, NEW t \in Txns,
         Mark(t) \/ SkipRow(t) \/ EscalateRow(t), NEW r \in Rows
  PROVE  \/ newSteps'[r] = newSteps[r] /\ stepLock'[r] = stepLock[r]
         \/ /\ stepLock'[r] = t
            /\ NamesDecider(newSteps'[r]) /\ Undecided(newSteps'[r])
            /\ EscalateRow(t) \/ newSteps'[r].assigned_to = steps[r].assigned_to
  <1>1. steps[r] \in StepRow /\ Undecided(steps[r])
    BY DEF TypeOK, AssigneeStands
  <1>2. ASSUME NEW q, NEW row, WriteStep(t, q, row)
        PROVE  IF r = q THEN newSteps'[r] = row /\ stepLock'[r] = t
               ELSE newSteps'[r] = newSteps[r] /\ stepLock'[r] = stepLock[r]
    BY <1>2 DEF WriteStep, TypeOK
  <1>3. CASE Mark(t)
    <2>1. CASE steps[tx[t].row].status = "pending"
      BY <1>2, <1>3, <2>1, DecidedNamesDecider DEF Mark
    <2>2. CASE steps[tx[t].row].status # "pending"
      BY <1>3, <2>2 DEF Mark
    <2> QED BY <2>1, <2>2
  <1>4. CASE SkipRow(t)
    <2>1. PICK q \in StillToSkip(t) :
            stepLock[q] = NoTxn /\ WriteStep(t, q, [steps[q] EXCEPT !.status = "skipped"])
      BY <1>4 DEF SkipRow
    <2> DEFINE new == [steps[r] EXCEPT !.status = "skipped"]
    <2>2. /\ new \in StepRow /\ new.actor = steps[r].actor
          /\ new.assigned_to = steps[r].assigned_to
      BY <1>1 DEF StepRow, ApprovalStepStatus
    <2>3. r = q => steps[r].status = "pending"
      BY <2>1, TxnAssumption DEF StillToSkip, SeesStep
    <2>4. r = q => NamesDecider(new) /\ Undecided(new)
      BY <1>1, <2>2, <2>3, UndecidedStays
    <2>5. CASE r = q
      <3>1. newSteps'[r] = new /\ stepLock'[r] = t
        BY <1>2, <2>1, <2>5
      <3> QED BY <2>2, <2>4, <2>5, <3>1
    <2>6. CASE r # q
      BY <1>2, <2>1, <2>6
    <2> QED BY <2>5, <2>6
  <1>5. CASE EscalateRow(t)
    <2>1. CASE /\ steps[tx[t].row].status = "pending"
               /\ steps[tx[t].row].assigned_to = tx[t].assignee
      <3> DEFINE new == [steps[r] EXCEPT !.assigned_to = tx[t].target,
                                         !.delegated_from = Nobody]
      <3>1. tx[t].target \in Employees \union {Nobody}
        BY DEF TypeOK, Locals
      <3>2. new \in StepRow /\ new.actor = steps[r].actor
        BY <1>1, <3>1 DEF StepRow
      <3>3. r = tx[t].row => NamesDecider(new) /\ Undecided(new)
        BY <1>1, <2>1, <3>2, UndecidedStays
      <3>4. WriteStep(t, tx[t].row,
                      [steps[tx[t].row] EXCEPT !.assigned_to = tx[t].target,
                                               !.delegated_from = Nobody])
        BY <1>5, <2>1 DEF EscalateRow
      <3>5. CASE r = tx[t].row
        <4>1. newSteps'[r] = new /\ stepLock'[r] = t
          BY <1>2, <3>4, <3>5
        <4> QED BY <1>5, <3>3, <3>5, <4>1
      <3>6. CASE r # tx[t].row
        BY <1>2, <3>4, <3>6
      <3> QED BY <3>5, <3>6
    <2>2. CASE ~ (/\ steps[tx[t].row].status = "pending"
                  /\ steps[tx[t].row].assigned_to = tx[t].assignee)
      BY <1>5, <2>2 DEF EscalateRow, ReturnUnchanged, locks
    <2> QED BY <2>1, <2>2
  <1> QED BY <1>3, <1>4, <1>5

\* Every version of every row, committed or not, keeps naming its decider.
LEMMA RowsNameDeciders ==
  ASSUME TypeOK, LockDiscipline, Evidence, AssigneeStands, NEW t \in Txns,
         Call(t) \/ Proceed(t) \/ Abort(t)
  PROVE  \A r \in Rows : /\ NamesDecider(steps[r])' /\ NamesDecider(newSteps[r])'
                         /\ Undecided(steps[r])' /\ Undecided(newSteps[r])'
  <1> TAKE r \in Rows
  <1>1. \A row \in {steps[r], newSteps[r]} : NamesDecider(row) /\ Undecided(row)
    BY DEF AssigneeStands
  <1>2. steps'[r] \in {steps[r], newSteps[r]}
    BY RowsPublished
  <1>3. \/ newSteps'[r] \in {steps[r], newSteps[r]}
        \/ NamesDecider(newSteps'[r]) /\ Undecided(newSteps'[r])
    BY VersionsWritten, WrittenRows
  <1>4. /\ NamesDecider(steps'[r]) /\ Undecided(steps'[r])
        /\ NamesDecider(newSteps'[r]) /\ Undecided(newSteps'[r])
    BY <1>1, <1>2, <1>3
  <1> QED BY <1>4 DEF NamesDecider, Undecided

\* A call that is no escalation writes rows their committed assignee.
LEMMA OwnAssigneesKept ==
  ASSUME TypeOK, LockDiscipline, Evidence, AssigneeStands, [Next]_vars, NEW t \in Txns,
         Call(t) \/ Proceed(t) \/ Abort(t)
  PROVE  KeepsAssignees(t)'
  <1> SUFFICES ASSUME tx'[t].verb # "escalate", NEW r \in Rows, stepLock'[r] = t
               PROVE  newSteps'[r].assigned_to = steps'[r].assigned_to
    BY DEF KeepsAssignees
  <1>1. pc'[t] # "idle"
    BY HoldersWork DEF Writing
  <1>2. steps' = steps
    <2>1. ~ Commit(t)
      BY <1>1 DEF Commit, Return, Goto, TypeOK
    <2> QED BY <2>1, RowsPublished
  <1>3. CASE newSteps'[r] = newSteps[r] /\ stepLock'[r] = stepLock[r]
    <2>1. pc[t] # "idle"
      BY <1>3, NoLocks DEF Writing
    <2>2. tx'[t].verb = tx[t].verb
      BY <1>1, <2>1, VerbStays
    <2> QED BY <1>2, <1>3, <2>2 DEF AssigneeStands, KeepsAssignees
  <1>4. CASE EscalateRow(t)
    <2>1. tx[t].verb = "escalate" /\ pc[t] # "idle"
      BY <1>4 DEF EscalateRow, Evidence, Tells, CallTells
    <2> QED BY <1>1, <2>1, VerbStays
  <1>5. CASE ~ (newSteps'[r] = newSteps[r] /\ stepLock'[r] = stepLock[r])
             /\ ~ EscalateRow(t)
    <2>1. Mark(t) \/ SkipRow(t)
      BY <1>1, <1>5, VersionsWritten
    <2> QED BY <1>2, <1>5, <2>1, WrittenRows
  <1> QED BY <1>3, <1>4, <1>5

\* A call decides what it reads at four of its statements.
LEMMA ReadsBy ==
  ASSUME TypeOK, NEW t \in Txns, Call(t) \/ Proceed(t) \/ Abort(t),
         pc'[t] \in {"rows", "authorize", "choose", "mark"}
  PROVE  /\ \/ \E actor \in Employees, approve \in BOOLEAN, n \in StepNos :
                    DecideRequest(t, actor, approve, n)
            \/ DecideRows(t) \/ Authorize(t) \/ Choose(t)
         /\ steps' = steps
  <1>1. ASSUME NEW label, Goto(t, label)
        PROVE  label \in {"rows", "authorize", "choose", "mark"}
    BY <1>1 DEF Goto, TypeOK
  <1>2. ASSUME NEW a PROVE ~ ReturnUnchanged(t, a) /\ ~ Rollback(t, a)
    BY <1>1 DEF ReturnUnchanged, Rollback, Return
  <1>3. \A actor \in Employees : ~ WithdrawRequest(t, actor)
    BY <1>1, <1>2 DEF WithdrawRequest
  <1>4. \A n \in StepNos : ~ EscalateRequest(t, n)
    BY <1>1, <1>2 DEF EscalateRequest
  <1>5. ~ ChooseNone(t) /\ ~ Mark(t) /\ ~ Reread(t) /\ ~ Count(t) /\ ~ Advance(t)
        /\ ~ Finish(t)
    BY <1>1, <1>2 DEF ChooseNone, Mark, AfterMark, Reread, Count, Advance, Finish
  <1>6. ~ SkipRow(t) /\ ~ SkipDone(t) /\ ~ WithdrawFinish(t)
    BY <1>1 DEF SkipRow, SkipDone, WithdrawFinish, session
  <1>7. ~ EscalateNowhere(t) /\ ~ EscalateTo(t) /\ ~ EscalateRow(t) /\ ~ EscalateIndex(t)
    <2>1. ~ EscalateNowhere(t)
      BY <1>2 DEF EscalateNowhere
    <2>2. ~ EscalateTo(t)
      <3>1. EscalateTo(t) => Goto(t, "escalate")
        BY Zenon DEF EscalateTo
      <3> QED BY <1>1, <3>1
    <2>3. ~ EscalateRow(t)
      BY <1>1, <1>2 DEF EscalateRow
    <2>4. ~ EscalateIndex(t)
      BY <1>1, <1>2 DEF EscalateIndex
    <2> QED BY <2>1, <2>2, <2>3, <2>4
  <1>8. ~ Commit(t) /\ ~ CancelDeadlocked(t) /\ ~ Abort(t)
    BY <1>1, <1>2 DEF Commit, Return, CancelDeadlocked, Abort
  <1>9. \/ \E actor \in Employees, approve \in BOOLEAN, n \in StepNos :
                DecideRequest(t, actor, approve, n)
        \/ DecideRows(t) \/ Authorize(t) \/ Choose(t)
    BY <1>3, <1>4, <1>5, <1>6, <1>7, <1>8 DEF Call, Proceed, Decide, Escalate
  <1>10. steps' = steps
    BY <1>2, <1>9 DEF DecideRequest, DecideRows, Authorize, Choose, committed
  <1> QED BY <1>9, <1>10

\* live_steps_at, actor_may_decide and the choice of the row carry the assignee as read.
LEMMA OwnReadsStand ==
  ASSUME TypeOK, LockDiscipline, AssigneeStands, NEW t \in Txns,
         Call(t) \/ Proceed(t) \/ Abort(t)
  PROVE  ReadStands(t)'
  <1> SUFFICES ASSUME pc'[t] \in {"rows", "authorize", "choose", "mark"}
               PROVE  ReadStands(t)'
    BY DEF ReadStands
  <1>1. steps' = steps /\ tx[t] \in Locals /\ ReadStands(t)
    BY ReadsBy DEF TypeOK, AssigneeStands
  <1>2. ASSUME NEW label, NEW locals, Goto(t, label), Set(t, locals)
        PROVE  pc'[t] = label /\ tx'[t] = locals
    BY <1>2 DEF Goto, Set, TypeOK
  <1>3. ASSUME NEW a PROVE ~ ReturnUnchanged(t, a)
    BY DEF ReturnUnchanged, Return, Goto, TypeOK
  <1>4. ASSUME NEW actor \in Employees, NEW approve \in BOOLEAN, NEW n \in StepNos,
               DecideRequest(t, actor, approve, n)
        PROVE  ReadStands(t)'
    <2> DEFINE call == [NoCall EXCEPT !.verb = "decide", !.actor = actor,
                                      !.approve = approve, !.step_no = n,
                                      !.answer = request.status]
    <2>1. Goto(t, "rows") /\ Set(t, call)
      BY <1>3, <1>4 DEF DecideRequest
    <2>2. call.authorized = {}
      BY DEF NoCall
    <2> HIDE DEF call
    <2>3. pc'[t] = "rows" /\ tx'[t] = call
      BY <1>2, <2>1
    <2> QED BY <2>2, <2>3 DEF ReadStands
  <1>5. CASE DecideRows(t)
    <2> DEFINE rows == RowsAt(tx[t].step_no)
               seen == [r \in Rows |-> IF r \in rows THEN SeesStep(t, r) ELSE UnreadRow]
    <2>1. /\ pc'[t] = "authorize"
          /\ tx'[t] = [tx[t] EXCEPT !.seen = seen, !.unchecked = rows]
      BY <1>2, <1>3, <1>5 DEF DecideRows
    <2>2. tx'[t].seen = seen /\ tx'[t].unchecked = rows /\ tx'[t].authorized = {}
      BY <1>1, <1>5, <2>1 DEF Locals, DecideRows, ReadStands
    <2>3. \A r \in rows : seen[r] = steps[r]
      BY <1>5, NoLocks DEF DecideRows, Writing, SeesStep, RowsAt
    <2> QED BY <1>1, <2>1, <2>2, <2>3 DEF ReadStands
  <1>6. CASE Authorize(t)
    <2> DEFINE assignee(r) == tx[t].seen[r].assigned_to
               may(r) == assignee(r) = tx[t].actor
                         \/ <<assignee(r), tx[t].actor>> \in delegations
               left(r) == [tx[t] EXCEPT !.unchecked = @ \ {r},
                               !.authorized = IF may(r) THEN @ \union {r} ELSE @]
    <2>1. PICK r \in Rows : /\ r \in tx[t].unchecked /\ tx'[t] = left(r)
                            /\ pc'[t] \in {"authorize", "choose"}
      BY <1>2, <1>6 DEF Authorize, First
    <2>2. /\ tx'[t].seen = tx[t].seen /\ tx'[t].actor = tx[t].actor
          /\ tx'[t].unchecked = tx[t].unchecked \ {r}
          /\ tx'[t].authorized = IF may(r) THEN tx[t].authorized \union {r}
                                 ELSE tx[t].authorized
      BY <1>1, <2>1 DEF Locals
    <2>3. /\ \A q \in tx[t].unchecked \union tx[t].authorized :
                 assignee(q) = steps[q].assigned_to
          /\ \A q \in tx[t].authorized : MayStandFor(tx[t].actor, assignee(q))
      BY <1>1, <1>6 DEF ReadStands, Authorize
    <2>4. may(r) => MayStandFor(tx[t].actor, assignee(r))
      BY DEF MayStandFor, TypeOK
    <2>5. /\ \A q \in tx'[t].unchecked \union tx'[t].authorized :
                 tx'[t].seen[q].assigned_to = steps'[q].assigned_to
          /\ \A q \in tx'[t].authorized :
                 MayStandFor(tx'[t].actor, tx'[t].seen[q].assigned_to)
      BY <1>1, <2>1, <2>2, <2>3, <2>4
    <2> QED BY <2>1, <2>5 DEF ReadStands, MayStandFor
  <1>7. CASE Choose(t)
    <2>1. PICK r \in Choosable(t) :
            /\ pc'[t] = "mark"
            /\ tx'[t] = [tx[t] EXCEPT !.row = r, !.assignee = tx[t].seen[r].assigned_to,
                                      !.seen = NoCall.seen, !.authorized = {}]
      BY <1>2, <1>7 DEF Choose, First
    <2>2. /\ tx'[t].row = r /\ tx'[t].assignee = tx[t].seen[r].assigned_to
          /\ tx'[t].actor = tx[t].actor
      BY <1>1, <2>1 DEF Locals
    <2>3. /\ tx[t].seen[r].assigned_to = steps[r].assigned_to
          /\ MayStandFor(tx[t].actor, tx[t].seen[r].assigned_to)
      BY <1>1, <1>7, <2>1 DEF ReadStands, Choosable, Choose
    <2> QED BY <1>1, <2>1, <2>2, <2>3 DEF ReadStands, MayStandFor
  <1> QED BY <1>4, <1>5, <1>6, <1>7, ReadsBy

\* What another session does leaves the assignees a decision has read, unless it
\* escalates.
LEMMA OthersAssigneesStand ==
  ASSUME TypeOK, LockDiscipline, Evidence, AssigneeStands, Apart("decide", "escalate"),
         NEW t \in Txns, NEW u \in Txns \ {t}, Call(t) \/ Proceed(t) \/ Abort(t)
  PROVE  KeepsAssignees(u)' /\ ReadStands(u)'
  <1>1. Untouched(u) /\ tx'[u] = tx[u] /\ pc'[u] = pc[u]
    BY SessionTells DEF Evidence, Untouched
  <1>2. KeepsAssignees(u) /\ KeepsAssignees(t) /\ ReadStands(u)
    BY DEF AssigneeStands
  <1>3. ASSUME NEW r \in Rows, stepLock[r] = u PROVE steps'[r] = steps[r]
    BY <1>3, RowsPublished
  <1>4. KeepsAssignees(u)'
    BY <1>1, <1>2, <1>3 DEF KeepsAssignees, Untouched
  <1>5. CASE pc[u] \in {"authorize", "choose", "mark"}
    <2>1. tx[u].verb = "decide"
      BY <1>5 DEF LockDiscipline, CallKnows, Deciding
    <2>2. tx[t].verb # "escalate"
      BY <2>1 DEF Apart
    <2>3. \A r \in Rows : steps'[r].assigned_to = steps[r].assigned_to
      BY <1>2, <2>2, RowsPublished DEF KeepsAssignees
    <2>4. /\ pc[u] = "mark" => tx[u].row \in Rows
          /\ pc[u] \in {"authorize", "choose"} =>
                tx[u].unchecked \union tx[u].authorized \subseteq Rows
      BY DEF TypeOK, Locals, LockDiscipline, CallKnows, RowsAt
    <2> QED BY <1>1, <1>2, <1>4, <2>3, <2>4 DEF ReadStands, MayStandFor
  <1>6. CASE pc[u] \notin {"authorize", "choose", "mark"}
    BY <1>1, <1>2, <1>4, <1>6 DEF ReadStands
  <1> QED BY <1>5, <1>6

\* For any number of sessions, employees and rows: as long as no escalation overlaps a
\* decision, a decided row names its decider, or is stamped with the assignee the decider
\* stood in for.  The wrong trail of escalated_trail is that race and nothing else.
THEOREM TrailIsRightWithoutRacingEscalation ==
  Spec /\ []Apart("decide", "escalate") => []TrailNamesDecider
  <1> DEFINE Known == TypeOK /\ LockDiscipline /\ Evidence
  <1>1. Init => AssigneeStands
    <2> SUFFICES ASSUME Init PROVE AssigneeStands
      OBVIOUS
    <2>1. \A r \in Rows : steps[r].actor = Nobody /\ newSteps[r] = steps[r]
                          /\ stepLock[r] = NoTxn
      BY DEF Init
    <2>2. \A t \in Txns : pc[t] = "idle"
      BY DEF Init
    <2>3. \A r \in Rows : /\ NamesDecider(steps[r]) /\ NamesDecider(newSteps[r])
                          /\ Undecided(steps[r]) /\ Undecided(newSteps[r])
      BY <2>1 DEF NamesDecider, Undecided
    <2>4. \A t \in Txns : KeepsAssignees(t) /\ ReadStands(t)
      BY <2>1, <2>2, TxnAssumption DEF KeepsAssignees, ReadStands
    <2> QED BY <2>3, <2>4 DEF AssigneeStands
  <1>2. Known /\ Apart("decide", "escalate") /\ AssigneeStands /\ [Next]_vars
            => AssigneeStands'
    <2> SUFFICES ASSUME Known, Apart("decide", "escalate"), AssigneeStands, [Next]_vars
                 PROVE  AssigneeStands'
      OBVIOUS
    <2>1. ASSUME NEW t \in Txns, Call(t) \/ Proceed(t) \/ Abort(t) PROVE AssigneeStands'
      <3>1. \A r \in Rows : /\ NamesDecider(steps[r])' /\ NamesDecider(newSteps[r])'
                            /\ Undecided(steps[r])' /\ Undecided(newSteps[r])'
        BY <2>1, RowsNameDeciders
      <3>2. KeepsAssignees(t)' /\ ReadStands(t)'
        BY <2>1, OwnAssigneesKept, OwnReadsStand
      <3>3. \A u \in Txns \ {t} : KeepsAssignees(u)' /\ ReadStands(u)'
        BY <2>1, OthersAssigneesStand
      <3> QED BY <3>1, <3>2, <3>3 DEF AssigneeStands
    <2>2. CASE Environment \/ UNCHANGED vars
      <3>1. UNCHANGED <<committed, locks, pc, tx>>
        BY <2>2 DEF Environment, DelegationStarts, DelegationEnds, SlaBreach, session, vars
      <3> QED BY <3>1 DEF AssigneeStands, NamesDecider, Undecided, KeepsAssignees,
                          ReadStands, MayStandFor, committed, locks
    <2>3. Next \/ UNCHANGED vars
      OBVIOUS
    <2> HIDE DEF Known
    <2> QED BY <2>1, <2>2, <2>3 DEF Next
  <1>3. AssigneeStands => TrailNamesDecider
    BY DEF AssigneeStands, NamesDecider, TrailNamesDecider
  <1> HIDE DEF Known
  <1>4. Spec => []Known
    BY TypeCorrect, LockDisciplineHolds, EvidenceHolds, PTL DEF Known
  <1> QED BY <1>1, <1>2, <1>3, <1>4, PTL DEF Spec

-----------------------------------------------------------------------------
(* A withdrawal and a decision report a verdict that is not the request's  *)
(* only while they overlap.                                                *)

\* What a call means to answer: what its start read, a verdict it writes, what its
\* re-read finds, or a withdrawal.
LEMMA AnswersBy ==
  ASSUME TypeOK, NEW t \in Txns, Call(t) \/ Proceed(t) \/ Abort(t)
  PROVE  \/ tx'[t].answer = tx[t].answer
         \/ tx'[t].answer \in Answers \ {"withdrawn"}
         \/ Reread(t) \/ WithdrawFinish(t)
  <1> DEFINE Goal == \/ tx'[t].answer = tx[t].answer
                     \/ tx'[t].answer \in Answers \ {"withdrawn"}
  <1>1. tx[t] \in Locals
    BY DEF TypeOK
  <1>2. ASSUME NEW locals, Set(t, locals) PROVE tx'[t] = locals
    BY <1>2 DEF Set, TypeOK
  <1>3. ASSUME NEW a, Return(t, a) PROVE Goal
    BY <1>2, <1>3 DEF Return, NoCall, Answers
  <1>4. ASSUME NEW a, ReturnUnchanged(t, a) \/ Rollback(t, a) PROVE Goal
    BY <1>3, <1>4 DEF ReturnUnchanged, Rollback
  <1>5. ASSUME tx' = tx PROVE Goal
    BY <1>5
  <1>6. ASSUME NEW actor \in Employees, NEW approve \in BOOLEAN, NEW n \in StepNos,
               DecideRequest(t, actor, approve, n)
        PROVE  Goal
    <2> DEFINE call == [NoCall EXCEPT !.verb = "decide", !.actor = actor,
                                      !.approve = approve, !.step_no = n,
                                      !.answer = request.status]
    <2>1. CASE DecideRefusal(actor, n) = "none"
      <3>1. Set(t, call) /\ request.status = "pending"
        BY <1>6, <2>1 DEF DecideRequest, DecideRefusal
      <3>2. call.answer = "pending"
        BY <3>1 DEF NoCall
      <3> HIDE DEF call
      <3>3. tx'[t] = call
        BY <1>2, <3>1
      <3> QED BY <3>2, <3>3 DEF Answers, ApprovalStatus
    <2>2. CASE DecideRefusal(actor, n) # "none"
      BY <1>4, <1>6, <2>2 DEF DecideRequest
    <2> QED BY <2>1, <2>2
  <1>7. ASSUME NEW actor \in Employees, WithdrawRequest(t, actor) PROVE Goal
    <2> DEFINE call == [NoCall EXCEPT !.verb = "withdraw", !.actor = actor]
    <2>1. CASE WithdrawRefusal(actor) = "none"
      <3>1. Set(t, call)
        BY <1>7, <2>1 DEF WithdrawRequest
      <3>2. call.answer = "none"
        BY DEF NoCall
      <3> HIDE DEF call
      <3>3. tx'[t] = call
        BY <1>2, <3>1
      <3> QED BY <3>2, <3>3 DEF Answers
    <2>2. CASE WithdrawRefusal(actor) # "none"
      BY <1>4, <1>7, <2>2 DEF WithdrawRequest
    <2> QED BY <2>1, <2>2
  <1>8. ASSUME NEW n \in StepNos, EscalateRequest(t, n) PROVE Goal
    <2> DEFINE call == [NoCall EXCEPT !.verb = "escalate", !.step_no = n]
    <2>1. CASE EscalateRefusal(n) = "none"
      <3>1. Set(t, call)
        BY <1>8, <2>1 DEF EscalateRequest
      <3>2. call.answer = "none"
        BY DEF NoCall
      <3> HIDE DEF call
      <3>3. tx'[t] = call
        BY <1>2, <3>1
      <3> QED BY <3>2, <3>3 DEF Answers
    <2>2. CASE EscalateRefusal(n) # "none"
      BY <1>4, <1>8, <2>2 DEF EscalateRequest
    <2> QED BY <2>1, <2>2
  <1>9. DecideRows(t) => Goal
    BY <1>1, <1>2, <1>4 DEF DecideRows, Locals
  <1>10. Authorize(t) => Goal
    BY <1>1, <1>2 DEF Authorize, Locals
  <1>11. Choose(t) => Goal
    BY <1>1, <1>2 DEF Choose, Locals
  <1>12. ChooseNone(t) => Goal
    BY <1>4 DEF ChooseNone
  <1>13. Mark(t) \/ Count(t) \/ SkipRow(t) \/ SkipDone(t) => Goal
    BY <1>5 DEF Mark, Count, SkipRow, SkipDone, session
  <1>14. Advance(t) => Goal
    <2>1. Advance(t) => \/ tx' = tx
                        \/ /\ request.status = "pending"
                           /\ Set(t, [tx[t] EXCEPT !.answer = request.status])
      BY DEF Advance, StillPending
    <2> QED BY <1>1, <1>2, <2>1 DEF Locals, Answers, ApprovalStatus
  <1>15. Finish(t) => Goal
    <2>1. Finish(t) => \/ Set(t, [tx[t] EXCEPT !.answer = "approved"])
                       \/ Set(t, [tx[t] EXCEPT !.answer = "rejected"])
                       \/ Set(t, [tx[t] EXCEPT !.answer = @])
      BY DEF Finish
    <2> QED BY <1>1, <1>2, <2>1 DEF Locals, Answers, ApprovalStatus
  <1>16. EscalateNowhere(t) => Goal
    BY <1>4 DEF EscalateNowhere
  <1>17. EscalateTo(t) => Goal
    BY <1>1, <1>2 DEF EscalateTo, Locals
  <1>18. EscalateRow(t) => Goal
    BY <1>4, <1>5 DEF EscalateRow
  <1>19. EscalateIndex(t) => Goal
    BY <1>1, <1>2, <1>4 DEF EscalateIndex, Locals, Answers
  <1>20. Commit(t) => Goal
    BY <1>3 DEF Commit
  <1>21. Call(t) => Goal
    BY <1>6, <1>7, <1>8 DEF Call
  <1>22. Decide(t) => Goal \/ Reread(t)
    BY <1>9, <1>10, <1>11, <1>12, <1>13, <1>14, <1>15 DEF Decide
  <1>23. Escalate(t) => Goal
    BY <1>16, <1>17, <1>18, <1>19 DEF Escalate
  <1>24. CancelDeadlocked(t) \/ Abort(t) => Goal
    BY <1>4 DEF CancelDeadlocked, Abort
  <1> HIDE DEF Goal
  <1>25. Goal \/ Reread(t) \/ WithdrawFinish(t)
    BY <1>13, <1>20, <1>21, <1>22, <1>23, <1>24 DEF Proceed
  <1> QED BY <1>25 DEF Goal

\* The three statements that write the request, and the states they write.
LEMMA RequestVersions ==
  ASSUME TypeOK, LockDiscipline, NEW t \in Txns, Call(t) \/ Proceed(t) \/ Abort(t),
         DeletedIsWithdrawn(request), DeletedIsWithdrawn(newRequest)
  PROVE  DeletedIsWithdrawn(newRequest')
  <1>1. request \in RequestRow
    BY DEF TypeOK
  <1>2. newRequest' = newRequest => DeletedIsWithdrawn(newRequest')
    OBVIOUS
  <1>3. ASSUME NEW a, ReturnUnchanged(t, a) PROVE newRequest' = newRequest
    BY <1>3 DEF ReturnUnchanged, locks
  <1>4. ASSUME NEW a, Rollback(t, a) PROVE DeletedIsWithdrawn(newRequest')
    BY <1>4 DEF Rollback
  <1>5. Call(t) => newRequest' = newRequest
    BY <1>3 DEF Call, DecideRequest, WithdrawRequest, EscalateRequest, locks
  <1>6. DecideRows(t) \/ Authorize(t) \/ Choose(t) \/ ChooseNone(t) \/ Reread(t)
        \/ Count(t) \/ SkipDone(t) \/ EscalateNowhere(t) \/ EscalateTo(t)
        => newRequest' = newRequest
    BY <1>3 DEF DecideRows, Authorize, Choose, ChooseNone, Reread, Count, SkipDone,
                EscalateNowhere, EscalateTo, locks
  <1>7. Mark(t) \/ SkipRow(t) \/ EscalateRow(t) \/ Commit(t) => newRequest' = newRequest
    BY <1>3 DEF Mark, SkipRow, EscalateRow, Commit, locks
  <1>8. EscalateIndex(t) => DeletedIsWithdrawn(newRequest')
    BY <1>4 DEF EscalateIndex, locks
  <1>9. ASSUME Advance(t) PROVE DeletedIsWithdrawn(newRequest')
    <2> DEFINE row == [request EXCEPT !.current_step = tx[t].step_no + 1]
    <2>1. row.status = request.status /\ row.deleted = request.deleted
      BY <1>1 DEF RequestRow
    <2>2. newRequest' = row \/ newRequest' = newRequest
      BY <1>9 DEF Advance, WriteRequest
    <2> QED BY <2>1, <2>2 DEF DeletedIsWithdrawn
  <1>10. ASSUME Finish(t) PROVE DeletedIsWithdrawn(newRequest')
    <2> DEFINE row == [request EXCEPT !.status = VerdictOf(t), !.decided_by = tx[t].actor]
    <2>1. row.status # "withdrawn" /\ row.deleted = request.deleted
      BY <1>1 DEF RequestRow, VerdictOf
    <2>2. (StillPending /\ newRequest' = row) \/ newRequest' = newRequest
      BY <1>10 DEF Finish, WriteRequest, VerdictOf
    <2> QED BY <2>1, <2>2 DEF DeletedIsWithdrawn, StillPending
  <1>11. ASSUME WithdrawFinish(t) PROVE DeletedIsWithdrawn(newRequest')
    <2> DEFINE row == [request EXCEPT !.status = "withdrawn", !.deleted = TRUE]
    <2>1. row.status = "withdrawn" /\ row.deleted
      BY <1>1 DEF RequestRow
    <2>2. newRequest' = row \/ newRequest' = newRequest
      BY <1>11 DEF WithdrawFinish, WriteRequest
    <2> QED BY <2>1, <2>2 DEF DeletedIsWithdrawn
  <1> QED BY <1>2, <1>4, <1>5, <1>6, <1>7, <1>8, <1>9, <1>10, <1>11
             DEF Proceed, Decide, Escalate, CancelDeadlocked, Abort

\* The committed request: what a session's statement makes of it.
LEMMA RequestPublished ==
  ASSUME TypeOK, LockDiscipline, Evidence, NEW t \in Txns,
         Call(t) \/ Proceed(t) \/ Abort(t)
  PROVE  \/ request' = request
         \/ /\ pc'[t] = "idle" /\ tx'[t] = NoCall
            /\ request.status = "pending" /\ request' = newRequest
            /\ \/ tx[t].verb = "withdraw" /\ request'.status = "withdrawn"
               \/ tx[t].verb = "decide" /\ request'.status # "withdrawn"
  <1>1. Tells(t)
    BY DEF Evidence
  <1>2. CASE Commit(t) /\ requestLock = t
    <2>1. pc'[t] = "idle" /\ tx'[t] = NoCall
      BY <1>2 DEF Commit, Return, Goto, Set, TypeOK
    <2> QED BY <1>1, <1>2, <2>1, CommitFacts, RequestCommitCases DEF VerdictOf
  <1>3. CASE Commit(t) /\ requestLock # t
    BY <1>1, <1>3, CommitFacts
  <1>4. CASE ~ Commit(t)
    BY <1>4, OthersPublishNothing
  <1> QED BY <1>2, <1>3, <1>4

\* A call that starts has read a pending request.
LEMMA StartsPending ==
  ASSUME TypeOK, NEW t \in Txns, Call(t)
  PROVE  /\ request' = request
         /\ tx'[t].verb = "withdraw" => request.status = "pending"
         /\ tx'[t].verb = "decide" => ~ request.deleted
  <1>1. ASSUME NEW locals, Set(t, locals) PROVE tx'[t] = locals
    BY <1>1 DEF Set, TypeOK
  <1>2. ASSUME NEW a, ReturnUnchanged(t, a)
        PROVE  request' = request /\ tx'[t].verb = "none"
    BY <1>1, <1>2 DEF ReturnUnchanged, Return, committed, NoCall
  <1>3. ASSUME NEW actor \in Employees, NEW approve \in BOOLEAN, NEW n \in StepNos,
               DecideRequest(t, actor, approve, n)
        PROVE  /\ request' = request
               /\ \/ tx'[t].verb = "none"
                  \/ tx'[t].verb = "decide" /\ ~ request.deleted
    <2> DEFINE call == [NoCall EXCEPT !.verb = "decide", !.actor = actor,
                                      !.approve = approve, !.step_no = n,
                                      !.answer = request.status]
    <2>1. CASE DecideRefusal(actor, n) = "none"
      <3>1. Set(t, call) /\ request' = request /\ ~ request.deleted
        BY <1>3, <2>1 DEF DecideRequest, DecideRefusal, committed
      <3>2. call.verb = "decide"
        BY DEF NoCall
      <3> HIDE DEF call
      <3> QED BY <1>1, <3>1, <3>2
    <2>2. CASE DecideRefusal(actor, n) # "none"
      BY <1>2, <1>3, <2>2 DEF DecideRequest
    <2> QED BY <2>1, <2>2
  <1>4. ASSUME NEW actor \in Employees, WithdrawRequest(t, actor)
        PROVE  /\ request' = request
               /\ \/ tx'[t].verb = "none"
                  \/ tx'[t].verb = "withdraw" /\ request.status = "pending"
    <2> DEFINE call == [NoCall EXCEPT !.verb = "withdraw", !.actor = actor]
    <2>1. CASE WithdrawRefusal(actor) = "none"
      <3>1. Set(t, call) /\ request' = request /\ request.status = "pending"
        BY <1>4, <2>1 DEF WithdrawRequest, WithdrawRefusal, committed
      <3>2. call.verb = "withdraw"
        BY DEF NoCall
      <3> HIDE DEF call
      <3> QED BY <1>1, <3>1, <3>2
    <2>2. CASE WithdrawRefusal(actor) # "none"
      BY <1>2, <1>4, <2>2 DEF WithdrawRequest
    <2> QED BY <2>1, <2>2
  <1>5. ASSUME NEW n \in StepNos, EscalateRequest(t, n)
        PROVE  request' = request /\ tx'[t].verb \in {"none", "escalate"}
    <2> DEFINE call == [NoCall EXCEPT !.verb = "escalate", !.step_no = n]
    <2>1. CASE EscalateRefusal(n) = "none"
      <3>1. Set(t, call) /\ request' = request
        BY <1>5, <2>1 DEF EscalateRequest, committed
      <3>2. call.verb = "escalate"
        BY DEF NoCall
      <3> HIDE DEF call
      <3> QED BY <1>1, <3>1, <3>2
    <2>2. CASE EscalateRefusal(n) # "none"
      BY <1>2, <1>5, <2>2 DEF EscalateRequest
    <2> QED BY <2>1, <2>2
  <1> QED BY <1>3, <1>4, <1>5 DEF Call

\* A statement leaves a call its verb, or ends the call.
LEMMA VerbKept ==
  ASSUME TypeOK, NEW t \in Txns, Proceed(t) \/ Abort(t)
  PROVE  tx'[t].verb \in {tx[t].verb, "none"}
  <1>1. ASSUME NEW a, Return(t, a) PROVE tx'[t].verb = "none"
    BY <1>1 DEF Return, Set, NoCall, TypeOK
  <1>2. ASSUME NEW a, ReturnUnchanged(t, a) \/ Rollback(t, a) PROVE tx'[t].verb = "none"
    BY <1>1, <1>2 DEF ReturnUnchanged, Rollback
  <1>3. CASE pc[t] # "idle" /\ pc'[t] # "idle"
    BY <1>3, VerbStays
  <1>4. CASE pc[t] # "idle" /\ pc'[t] = "idle"
    <2>1. Returns(t, answer'[t])
      BY <1>4 DEF Returns
    <2> QED BY <1>1, <1>2, <2>1, ReturnsBy DEF Commit
  <1>5. CASE pc[t] = "idle"
    <2>1. ~ (Decide(t) \/ SkipRow(t) \/ SkipDone(t) \/ WithdrawFinish(t) \/ Commit(t))
      BY <1>5 DEF Decide, DecideRows, Authorize, Choose, ChooseNone, Mark, Reread, Count,
                  Advance, Finish, SkipRow, SkipDone, WithdrawFinish, Commit
    <2>2. ~ Escalate(t)
      BY <1>5 DEF Escalate, EscalateNowhere, EscalateTo, EscalateRow, EscalateIndex
    <2> QED BY <1>2, <2>1, <2>2 DEF Proceed, CancelDeadlocked, Abort
  <1> QED BY <1>3, <1>4, <1>5

\* After its last statement a call commits or is undone.
LEMMA CommitEnds ==
  ASSUME TypeOK, NEW t \in Txns, Call(t) \/ Proceed(t) \/ Abort(t), pc[t] = "commit"
  PROVE  tx'[t] = NoCall
  <1>1. ~ Call(t)
    BY DEF Call, DecideRequest, WithdrawRequest, EscalateRequest
  <1>2. ~ (Decide(t) \/ SkipRow(t) \/ SkipDone(t) \/ WithdrawFinish(t))
    BY DEF Decide, DecideRows, Authorize, Choose, ChooseNone, Mark, Reread, Count,
           Advance, Finish, SkipRow, SkipDone, WithdrawFinish
  <1>3. ~ Escalate(t)
    BY DEF Escalate, EscalateNowhere, EscalateTo, EscalateRow, EscalateIndex
  <1>4. \E a : Return(t, a)
    BY <1>1, <1>2, <1>3 DEF Proceed, Commit, CancelDeadlocked, Abort, Rollback
  <1> QED BY <1>4 DEF Return, Set, TypeOK

\* get_request after a lost row does not find a withdrawn request, and a withdrawal
\* finds it pending or withdrawn.
LEMMA OwnMeetings ==
  ASSUME TypeOK, LockDiscipline, Evidence, WithdrawnAlone, NEW t \in Txns,
         Call(t) \/ Proceed(t) \/ Abort(t)
  PROVE  MeetsNoWithdrawal(t)'
  <1>1. MeetsNoWithdrawal(t) /\ DeletedIsWithdrawn(request)
    BY DEF WithdrawnAlone
  <1>2. /\ tx'[t].verb = "withdraw" => request'.status \in {"pending", "withdrawn"}
        /\ tx'[t].verb = "decide" => ~ request'.deleted
    <2>1. CASE Call(t)
      BY <2>1, StartsPending
    <2>2. CASE ~ Call(t) /\ request' = request
      BY <1>1, <2>2, VerbKept DEF MeetsNoWithdrawal
    <2>3. CASE request' # request
      BY <2>3, RequestPublished DEF NoCall
    <2> QED BY <2>1, <2>2, <2>3
  <1>3. ASSUME tx'[t].answer = "withdrawn"
        PROVE  pc'[t] = "commit" /\ SeesRequest(t)'.status = "withdrawn"
    <2>1. tx'[t].answer # tx[t].answer
      <3>1. tx'[t].answer = tx[t].answer => pc[t] = "commit"
        BY <1>1, <1>3 DEF MeetsNoWithdrawal
      <3> QED BY <1>3, <3>1, CommitEnds DEF NoCall
    <2>2. tx[t] \in Locals /\ request \in RequestRow
      BY DEF TypeOK
    <2>3. CASE Reread(t)
      <3>1. SeesRequest(t) = request
        BY <2>3, NoLocks DEF Reread, SeesRequest
      <3>2. tx'[t] = [tx[t] EXCEPT !.answer = IF request.deleted THEN @
                                              ELSE request.status]
        BY <2>3, <3>1 DEF Reread, Set, TypeOK
      <3>3. tx'[t].answer = IF request.deleted THEN tx[t].answer ELSE request.status
        BY <2>2, <3>2 DEF Locals
      <3> QED BY <1>1, <1>3, <2>1, <3>3 DEF DeletedIsWithdrawn
    <2>4. CASE WithdrawFinish(t)
      <3>1. pc'[t] = "commit" /\ request' = request
        BY <2>4 DEF WithdrawFinish, Goto, TypeOK, committed
      <3>2. tx[t].verb = "withdraw"
        BY <2>4 DEF WithdrawFinish, Evidence, Tells, CallTells
      <3>3. CASE StillPending
        <4>1. /\ requestLock' = t
              /\ newRequest' = [request EXCEPT !.status = "withdrawn", !.deleted = TRUE]
          BY <2>4, <3>3 DEF WithdrawFinish, WriteRequest
        <4> QED BY <2>2, <3>1, <4>1 DEF SeesRequest, RequestRow
      <3>4. CASE ~ StillPending
        <4>1. request.status = "withdrawn"
          BY <1>1, <3>2, <3>4 DEF MeetsNoWithdrawal, StillPending, DeletedIsWithdrawn
        <4>2. requestLock' # t
          BY <2>4, <3>4, TxnAssumption DEF WithdrawFinish
        <4> QED BY <3>1, <4>1, <4>2 DEF SeesRequest
      <3> QED BY <3>3, <3>4
    <2> QED BY <1>3, <2>1, <2>3, <2>4, AnswersBy
  <1> QED BY <1>2, <1>3 DEF MeetsNoWithdrawal

\* A withdrawal that commits meets other withdrawals only, a decision other decisions.
LEMMA OthersMeetings ==
  ASSUME TypeOK, LockDiscipline, Evidence, WithdrawnAlone, Apart("decide", "withdraw"),
         NEW t \in Txns, NEW u \in Txns \ {t}, Call(t) \/ Proceed(t) \/ Abort(t),
         DeletedIsWithdrawn(request')
  PROVE  MeetsNoWithdrawal(u)'
  <1>1. Untouched(u) /\ tx'[u] = tx[u] /\ pc'[u] = pc[u]
    BY SessionTells DEF Evidence, Untouched
  <1>2. MeetsNoWithdrawal(u)
    BY DEF WithdrawnAlone
  <1>3. SeesRequest(u).status = "withdrawn" => SeesRequest(u)'.status = "withdrawn"
    BY <1>1 DEF SeesRequest, Untouched
  <1>4. CASE request' = request
    BY <1>1, <1>2, <1>3, <1>4 DEF MeetsNoWithdrawal
  <1>5. CASE tx[t].verb = "withdraw" /\ request'.status = "withdrawn"
    BY <1>1, <1>2, <1>3, <1>5 DEF MeetsNoWithdrawal, Apart
  <1>6. CASE tx[t].verb = "decide" /\ request'.status # "withdrawn"
    BY <1>1, <1>2, <1>3, <1>6 DEF MeetsNoWithdrawal, Apart, DeletedIsWithdrawn
  <1> QED BY <1>4, <1>5, <1>6, RequestPublished

\* Without an overlapping decision a withdrawal finds no verdict but its own kind.
LEMMA WithdrawnAloneHolds ==
  Spec /\ []Apart("decide", "withdraw") => []WithdrawnAlone
  <1> DEFINE Known == TypeOK /\ LockDiscipline /\ Evidence
  <1>1. Init => WithdrawnAlone
    <2> SUFFICES ASSUME Init PROVE WithdrawnAlone
      OBVIOUS
    <2>1. DeletedIsWithdrawn(request) /\ DeletedIsWithdrawn(newRequest)
      BY DEF Init, DeletedIsWithdrawn
    <2>2. \A t \in Txns : tx[t].verb = "none" /\ tx[t].answer = "none"
      BY DEF Init, NoCall
    <2> QED BY <2>1, <2>2 DEF WithdrawnAlone, MeetsNoWithdrawal
  <1>2. Known /\ Apart("decide", "withdraw") /\ WithdrawnAlone /\ [Next]_vars
            => WithdrawnAlone'
    <2> SUFFICES ASSUME Known, Apart("decide", "withdraw"), WithdrawnAlone, [Next]_vars
                 PROVE  WithdrawnAlone'
      OBVIOUS
    <2>1. ASSUME NEW t \in Txns, Call(t) \/ Proceed(t) \/ Abort(t) PROVE WithdrawnAlone'
      <3>1. DeletedIsWithdrawn(request') /\ DeletedIsWithdrawn(newRequest')
        BY <2>1, RequestVersions, RequestPublished DEF WithdrawnAlone
      <3>2. \A u \in Txns : MeetsNoWithdrawal(u)'
        BY <2>1, <3>1, OwnMeetings, OthersMeetings
      <3> QED BY <3>1, <3>2 DEF WithdrawnAlone, DeletedIsWithdrawn
    <2>2. CASE Environment \/ UNCHANGED vars
      <3>1. UNCHANGED <<committed, locks, pc, tx>>
        BY <2>2 DEF Environment, DelegationStarts, DelegationEnds, SlaBreach, session, vars
      <3> QED BY <3>1 DEF WithdrawnAlone, DeletedIsWithdrawn, MeetsNoWithdrawal,
                          SeesRequest, committed, locks
    <2>3. Next \/ UNCHANGED vars
      OBVIOUS
    <2> HIDE DEF Known
    <2> QED BY <2>1, <2>2, <2>3 DEF Next
  <1> HIDE DEF Known
  <1>3. Spec => []Known
    BY TypeCorrect, LockDisciplineHolds, EvidenceHolds, PTL DEF Known
  <1> QED BY <1>1, <1>2, <1>3, PTL DEF Spec

\* For any number of sessions, employees and rows: as long as no decision overlaps it, a
\* withdraw that answers "withdrawn" has withdrawn the request, even against another
\* withdraw.  The answer of withdraw_misreports is that race and nothing else.
THEOREM WithdrawReportsWithoutRacingDecision ==
  Spec /\ []Apart("decide", "withdraw") => WithdrawReportsVerdict
  <1> DEFINE Reports == \A t \in Txns : Returns(t, "withdrawn")
                                            => request'.status = "withdrawn"
  <1>1. TypeOK /\ LockDiscipline /\ Evidence /\ WithdrawnAlone /\ [Next]_vars
            => [Reports]_vars
    <2> SUFFICES ASSUME TypeOK, LockDiscipline, Evidence, WithdrawnAlone, Next,
                        NEW t \in Txns, Returns(t, "withdrawn")
                 PROVE  request'.status = "withdrawn"
      OBVIOUS
    <2>1. MeetsNoWithdrawal(t)
      BY DEF WithdrawnAlone
    <2>2. pc[t] # "idle" /\ pc'[t] = "idle" /\ answer'[t] = "withdrawn"
      BY DEF Returns
    <2>3. ASSUME NEW u \in Txns \ {t}, Call(u) \/ Proceed(u) \/ Abort(u) PROVE FALSE
      <3>1. Untouched(t)
        BY <2>3, SessionTells DEF Evidence
      <3> QED BY <3>1, <2>2 DEF Untouched
    <2>4. ~ Environment
      BY <2>2 DEF Environment, DelegationStarts, DelegationEnds, SlaBreach, session
    <2>5. Call(t) \/ Proceed(t) \/ Abort(t)
      BY <2>3, <2>4 DEF Next
    <2>6. ASSUME NEW b, ReturnUnchanged(t, b) \/ Rollback(t, b) PROVE b = "withdrawn"
      BY <2>6, <2>2 DEF ReturnUnchanged, Rollback, Return, TypeOK
    <2>7. ~ (pc[t] = "choose" /\ ReturnUnchanged(t, tx[t].answer))
      BY <2>1, <2>6 DEF MeetsNoWithdrawal
    <2>8. Commit(t)
      BY <2>5, <2>6, <2>7, ReturnsBy
    <2>9. tx[t].answer = "withdrawn"
      BY <2>2, <2>8 DEF Commit, Return, TypeOK
    <2> QED BY <2>1, <2>8, <2>9 DEF Commit, MeetsNoWithdrawal
  <1> QED BY <1>1, TypeCorrect, LockDisciplineHolds, EvidenceHolds, WithdrawnAloneHolds,
             PTL DEF Spec, WithdrawReportsVerdict

\* As long as no withdrawal overlaps it, a decision that has lost its row answers with
\* the status the request then has.  The "pending" of lost_decision_misreports is that
\* race and nothing else.
THEOREM LostDecisionReportsWithoutRacingWithdrawal ==
  Spec /\ []Apart("decide", "withdraw") => LostDecisionReportsVerdict
  <1> DEFINE Reports == \A t \in Txns : pc[t] = "reread" /\ pc'[t] = "commit"
                                            => tx'[t].answer = request.status
  <1>1. TypeOK /\ LockDiscipline /\ Evidence /\ WithdrawnAlone /\ [Next]_vars
            => [Reports]_vars
    <2> SUFFICES ASSUME TypeOK, LockDiscipline, Evidence, WithdrawnAlone, Next,
                        NEW t \in Txns, pc[t] = "reread", pc'[t] = "commit"
                 PROVE  tx'[t].answer = request.status
      OBVIOUS
    <2>1. ASSUME NEW u \in Txns \ {t}, Call(u) \/ Proceed(u) \/ Abort(u) PROVE FALSE
      <3>1. Untouched(t)
        BY <2>1, SessionTells DEF Evidence
      <3> QED BY <3>1 DEF Untouched
    <2>2. ~ Environment
      BY DEF Environment, DelegationStarts, DelegationEnds, SlaBreach, session
    <2>3. ASSUME NEW a PROVE ~ ReturnUnchanged(t, a) /\ ~ Rollback(t, a)
      BY DEF ReturnUnchanged, Rollback, Return, Goto, TypeOK
    <2>4. ~ Call(t) /\ ~ Abort(t) /\ ~ CancelDeadlocked(t)
      BY <2>3 DEF Call, DecideRequest, WithdrawRequest, EscalateRequest, Abort,
                  CancelDeadlocked
    <2>5. ~ (SkipRow(t) \/ SkipDone(t) \/ WithdrawFinish(t) \/ Commit(t) \/ Escalate(t))
      BY DEF SkipRow, SkipDone, WithdrawFinish, Commit, Escalate, EscalateNowhere,
             EscalateTo, EscalateRow, EscalateIndex
    <2>6. ~ (DecideRows(t) \/ Authorize(t) \/ Choose(t) \/ ChooseNone(t) \/ Mark(t)
             \/ Count(t) \/ Advance(t) \/ Finish(t))
      BY DEF DecideRows, Authorize, Choose, ChooseNone, Mark, Count, Advance, Finish
    <2>7. Reread(t)
      BY <2>1, <2>2, <2>4, <2>5, <2>6 DEF Next, Proceed, Decide
    <2>8. tx[t].verb = "decide" /\ tx[t] \in Locals
      BY DEF LockDiscipline, CallKnows, Deciding, TypeOK
    <2>9. ~ request.deleted /\ SeesRequest(t) = request
      BY <2>8, NoLocks DEF WithdrawnAlone, MeetsNoWithdrawal, SeesRequest
    <2>10. tx'[t] = [tx[t] EXCEPT !.answer = request.status]
      BY <2>7, <2>9 DEF Reread, Set, TypeOK
    <2> QED BY <2>8, <2>10 DEF Locals
  <1> QED BY <1>1, TypeCorrect, LockDisciplineHolds, EvidenceHolds, WithdrawnAloneHolds,
             PTL DEF Spec, LostDecisionReportsVerdict
=============================================================================
