--------------------------- MODULE Filing_proofs ---------------------------
(***************************************************************************)
(* What TLAPS proves about filing, for every number of sessions, ids,      *)
(* laps and employees, and every set of template chains.                   *)
(***************************************************************************)
EXTENDS FilingInv, SequenceTheorems, TLAPS

-----------------------------------------------------------------------------
(* What resolution, delegation and validate_chain make of a template.      *)

\* A chain with a live template per step number; each template and what it names.
LEMMA ChainTyped ==
  ASSUME NEW chain \in ChainsOf
  PROVE  /\ chain \in Seq(TemplateOf(Employees))
         /\ \A i, j \in DOMAIN chain : chain[i].step_no = chain[j].step_no => i = j
         /\ \A i \in DOMAIN chain :
                /\ chain[i] \in TemplateOf(Employees)
                /\ chain[i].approver_kind = "specific_employee" =>
                        chain[i].approver_ref \in Employees \union {NoRef}
  BY TemplateAssumption

\* A member the code builds from a template is a row of a chain and comes from it.
LEMMA MemberTyped ==
  ASSUME NEW t \in TemplateOf(Employees), NEW kind \in ApproverKind,
         NEW ref \in Nat, NEW employee \in Employees
  PROVE  Member(t, kind, ref, employee) \in ChainRowOf(Nat, Employees)
  BY DEF Member, TemplateOf, ChainRowOf

\* resolve_members: members of the type of rows, each with the marks of its template.
LEMMA MembersTyped ==
  ASSUME NEW t \in TemplateOf(Employees),
         t.approver_kind = "specific_employee" => t.approver_ref \in Employees \union {NoRef},
         TemplateRefusal(t) = "none",
         NEW named \in Seq(Employees)
  PROVE  /\ Members(t, named) \in ChainRows
         /\ \A k \in DOMAIN Members(t, named) : ResolvedFrom(Members(t, named)[k], t)
  <1> DEFINE Row == ChainRowOf(Nat, Employees)
  <1>0. /\ t.all_of \in Seq(Employees) /\ t.approver_ref \in Nat /\ NoRef \in Nat
        /\ t.approver_kind \in ApproverKind /\ "specific_employee" \in ApproverKind
        /\ t.quorum \in {"absent", "malformed", "members"} /\ Employees \subseteq Nat
    BY TemplateAssumption DEF TemplateOf, NoRef, ApproverKind
  <1>1. CASE t.quorum = "members"
    <2> DEFINE mem(i) == Member(t, "specific_employee", t.all_of[i], t.all_of[i])
    <2>1. Members(t, named) = [i \in 1..Len(t.all_of) |-> mem(i)]
      BY <1>0, <1>1 DEF Members
    <2>2. \A i \in 1..Len(t.all_of) : mem(i) \in Row
      <3>1. \A i \in 1..Len(t.all_of) : t.all_of[i] \in Employees /\ t.all_of[i] \in Nat
        BY <1>0
      <3> QED BY <1>0, <3>1, MemberTyped
    <2>3. \A i \in 1..Len(t.all_of) : ResolvedFrom(mem(i), t)
      BY <1>1 DEF ResolvedFrom, Member, AnyHolder
    <2>4. Len(t.all_of) \in Nat
      BY <1>0
    <2> HIDE DEF mem, Row
    <2>5. [i \in 1..Len(t.all_of) |-> mem(i)] \in Seq(Row)
      BY <2>2, <2>4, IsASeq
    <2> QED BY <2>1, <2>3, <2>5 DEF ChainRows, Row
  <1>2. CASE t.quorum # "members" /\ t.approver_kind = "specific_employee"
    <2> DEFINE m == Member(t, "specific_employee", t.approver_ref, t.approver_ref)
    <2>1. Members(t, named) = <<m>>
      BY <1>2 DEF Members
    <2>2. t.approver_ref \in Employees
      BY <1>0, <1>2 DEF TemplateRefusal, NeedsRef
    <2>3. m \in Row
      BY <1>0, <2>2, MemberTyped
    <2>4. ResolvedFrom(m, t)
      BY <1>2 DEF ResolvedFrom, Member, AnyHolder
    <2> HIDE DEF m, Row
    <2> QED BY <2>1, <2>3, <2>4 DEF ChainRows, Row
  <1>3. CASE t.quorum # "members" /\ t.approver_kind # "specific_employee"
    <2> DEFINE ref == IF t.approver_kind \in NeedsRef THEN t.approver_ref ELSE NoRef
               mem(i) == Member(t, t.approver_kind, ref, named[i])
    <2>1. Members(t, named) = [i \in 1..Len(named) |-> mem(i)]
      BY <1>3 DEF Members
    <2>2. \A i \in 1..Len(named) : mem(i) \in Row
      <3>1. \A i \in 1..Len(named) : named[i] \in Employees
        OBVIOUS
      <3>2. ref \in Nat
        BY <1>0
      <3> HIDE DEF ref
      <3> QED BY <1>0, <3>1, <3>2, MemberTyped
    <2>3. \A i \in 1..Len(named) : ResolvedFrom(mem(i), t)
      BY <1>3 DEF ResolvedFrom, Member, AnyHolder, NeedsRef
    <2>4. Len(named) \in Nat
      OBVIOUS
    <2> HIDE DEF mem, Row, ref
    <2>5. [i \in 1..Len(named) |-> mem(i)] \in Seq(Row)
      BY <2>2, <2>4, IsASeq
    <2> QED BY <2>1, <2>3, <2>5 DEF ChainRows, Row
  <1> QED BY <1>1, <1>2, <1>3

\* apply_delegation keeps everything but the assignee.
LEMMA DelegatedTyped ==
  ASSUME NEW m \in ChainRowOf(Nat, Employees), NEW d \in Employees
  PROVE  /\ Delegated(m, d) \in ChainRowOf(Nat, Employees)
         /\ \A t : ResolvedFrom(m, t) => ResolvedFrom(Delegated(m, d), t)
  <1> DEFINE reassigned == [m EXCEPT !.assigned_to = d]
  <1>0. Delegated(m, d) = [reassigned EXCEPT !.delegated_from = m.assigned_to]
    BY DEF Delegated
  <1>1. reassigned = [step_no |-> m.step_no, approver_kind |-> m.approver_kind,
                      approver_ref |-> m.approver_ref, assigned_to |-> d,
                      delegated_from |-> m.delegated_from, sla |-> m.sla]
    BY DEF ChainRowOf
  <1> HIDE DEF reassigned
  <1>2. Delegated(m, d) = [step_no |-> m.step_no, approver_kind |-> m.approver_kind,
                           approver_ref |-> m.approver_ref, assigned_to |-> d,
                           delegated_from |-> m.assigned_to, sla |-> m.sla]
    BY <1>0, <1>1
  <1>3. Delegated(m, d) \in ChainRowOf(Nat, Employees)
    BY <1>2 DEF ChainRowOf
  <1>4. \A t : ResolvedFrom(m, t) => ResolvedFrom(Delegated(m, d), t)
    BY <1>2 DEF ResolvedFrom
  <1> QED BY <1>3, <1>4

\* validate_chain: rows that come from one chain and that it accepts can be walked, and
\* have a row at every number the chain has.
LEMMA AcceptedIsWalkable ==
  ASSUME NEW chain \in ChainsOf, NEW rows \in ChainRows,
         AllFrom(rows, chain), Accepts(chain, rows)
  PROVE  Walkable(rows) /\ Numbers(rows) = Numbers(chain)
  <1>1. PICK last \in Numbers(chain) : Numbers(chain) = 1..last
    BY DEF Accepts
  <1>2. Numbers(rows) = Numbers(chain)
    <2>1. Numbers(rows) \subseteq Numbers(chain)
      BY DEF AllFrom, ResolvedFrom, Numbers
    <2> QED BY <2>1 DEF Accepts
  <1>3. ASSUME NEW q \in DOMAIN rows, NEW r \in DOMAIN rows,
               q # r, rows[q].step_no = rows[r].step_no
        PROVE  /\ rows[q].assigned_to # rows[r].assigned_to
               /\ rows[q].approver_kind = rows[r].approver_kind
               /\ rows[q].sla = rows[r].sla
               /\ rows[q].approver_kind \in AnyHolder =>
                        rows[q].approver_ref = rows[r].approver_ref
    <2>1. PICK i \in DOMAIN chain : ResolvedFrom(rows[q], chain[i])
      BY DEF AllFrom
    <2>2. PICK j \in DOMAIN chain : ResolvedFrom(rows[r], chain[j])
      BY DEF AllFrom
    <2>3. i = j
      BY <1>3, <2>1, <2>2, ChainTyped DEF ResolvedFrom
    <2>4. rows[q].assigned_to # rows[r].assigned_to
      BY <1>3 DEF Accepts
    <2> QED BY <2>1, <2>2, <2>3, <2>4 DEF ResolvedFrom
  <1>4. \E max \in Numbers(rows) : Numbers(rows) = 1..max
    BY <1>1, <1>2
  <1> QED BY <1>2, <1>3, <1>4 DEF Walkable, Numbers

-----------------------------------------------------------------------------
(* Moving on and returning.                                                *)

LEMMA NoCallTyped == NoCall \in Locals /\ Absent \in RequestRow
  BY FilerAssumption, EmptySeq DEF NoCall, Locals, Absent, RequestRow, RequestStatus, ChainRows

\* The invariant from one session's point of view: what the index says of it.
Guarded(label, l) ==
    /\ l.id # NoId <=> label \in Inserted
    /\ l.id # NoId => \A i \in Ids : ~ Holding(i)

\* The locals of a filing that has just been called, ...
LEMMA CallLocals ==
  ASSUME NEW requester
  PROVE  [NoCall EXCEPT !.requested_by = requester, !.lap = 1]
          = [requested_by |-> requester, lap |-> 1, id |-> NoId, policy |-> NoPolicy,
             templates |-> <<>>, next |-> 1, members |-> <<>>, rows |-> <<>>,
             overtaken |-> 0]
  <1> DEFINE l1 == [NoCall EXCEPT !.requested_by = requester]
  <1>1. [NoCall EXCEPT !.requested_by = requester, !.lap = 1] = [l1 EXCEPT !.lap = 1]
    OBVIOUS
  <1>2. l1 = [requested_by |-> requester, lap |-> 0, id |-> NoId, policy |-> NoPolicy,
              templates |-> <<>>, next |-> 1, members |-> <<>>, rows |-> <<>>,
              overtaken |-> 0]
    BY DEF NoCall
  <1> HIDE DEF l1
  <1> QED BY <1>1, <1>2

\* ... that has lost a lap, ...
LEMMA NextLapLocals ==
  ASSUME NEW l \in Locals, NEW a, NEW b
  PROVE  [l EXCEPT !.lap = a, !.policy = b]
          = [requested_by |-> l.requested_by, lap |-> a, id |-> l.id, policy |-> b,
             templates |-> l.templates, next |-> l.next, members |-> l.members,
             rows |-> l.rows, overtaken |-> l.overtaken]
  <1> DEFINE l1 == [l EXCEPT !.lap = a]
  <1>1. [l EXCEPT !.lap = a, !.policy = b] = [l1 EXCEPT !.policy = b]
    OBVIOUS
  <1>2. l1 = [requested_by |-> l.requested_by, lap |-> a, id |-> l.id, policy |-> l.policy,
              templates |-> l.templates, next |-> l.next, members |-> l.members,
              rows |-> l.rows, overtaken |-> l.overtaken]
    BY DEF Locals
  <1> HIDE DEF l1
  <1> QED BY <1>1, <1>2

\* ... that has resolved a template, ...
LEMMA ResolvedLocals ==
  ASSUME NEW l \in Locals, NEW a, NEW b
  PROVE  [l EXCEPT !.members = a, !.next = b]
          = [requested_by |-> l.requested_by, lap |-> l.lap, id |-> l.id,
             policy |-> l.policy, templates |-> l.templates, next |-> b, members |-> a,
             rows |-> l.rows, overtaken |-> l.overtaken]
  <1> DEFINE l1 == [l EXCEPT !.members = a]
  <1>1. [l EXCEPT !.members = a, !.next = b] = [l1 EXCEPT !.next = b]
    OBVIOUS
  <1>2. l1 = [requested_by |-> l.requested_by, lap |-> l.lap, id |-> l.id,
              policy |-> l.policy, templates |-> l.templates, next |-> l.next,
              members |-> a, rows |-> l.rows, overtaken |-> l.overtaken]
    BY DEF Locals
  <1> HIDE DEF l1
  <1> QED BY <1>1, <1>2

\* ... and that has made a member a row.
LEMMA DelegatedLocals ==
  ASSUME NEW l \in Locals, NEW a, NEW b
  PROVE  [l EXCEPT !.members = a, !.rows = b]
          = [requested_by |-> l.requested_by, lap |-> l.lap, id |-> l.id,
             policy |-> l.policy, templates |-> l.templates, next |-> l.next,
             members |-> a, rows |-> b, overtaken |-> l.overtaken]
  <1> DEFINE l1 == [l EXCEPT !.members = a]
  <1>1. [l EXCEPT !.members = a, !.rows = b] = [l1 EXCEPT !.rows = b]
    OBVIOUS
  <1>2. l1 = [requested_by |-> l.requested_by, lap |-> l.lap, id |-> l.id,
              policy |-> l.policy, templates |-> l.templates, next |-> l.next,
              members |-> a, rows |-> l.rows, overtaken |-> l.overtaken]
    BY DEF Locals
  <1> HIDE DEF l1
  <1> QED BY <1>1, <1>2

LEMMA NoCallFits == /\ LapLost("idle", NoCall) /\ ChainResolved("idle", NoCall)
                    /\ Guarded("idle", NoCall)
  BY IdAssumption DEF LapLost, ChainResolved, Guarded, NoCall, AllFrom, Inserted

\* A session moves on: the invariant asks only about its new label and locals.
LEMMA StepKeeps ==
  ASSUME TypeOK, FilingDiscipline, NEW t \in Filers, NEW label \in PCs, NEW locals \in Locals,
         Step(t, label, locals),
         LapLost(label, locals), ChainResolved(label, locals), Guarded(label, locals),
         locals.id # NoId => \A u \in Filers \ {t} : ~ HasInserted(u)
  PROVE  TypeOK' /\ FilingDiscipline'
  <1> USE DEF Step, Goto, Set, config
  <1>1. TypeOK'
    BY DEF TypeOK
  <1>2. /\ \A u \in Filers \ {t} : pc'[u] = pc[u] /\ tx'[u] = tx[u]
        /\ pc'[t] = label /\ tx'[t] = locals
        /\ requests' = requests /\ deciding' = deciding
    BY DEF TypeOK
  <1>3. IndexGuards'
    BY <1>2 DEF FilingDiscipline, IndexGuards, HasInserted, Holding, OneHolder, Guarded
  <1>4. LapsLost'
    BY <1>2 DEF FilingDiscipline, LapsLost, LapLost, Holding
  <1>5. ChainInProgress'
    BY <1>2 DEF FilingDiscipline, ChainInProgress
  <1>6. FiledWhole'
    BY <1>2 DEF FilingDiscipline, FiledWhole, Holding
  <1> QED BY <1>1, <1>3, <1>4, <1>5, <1>6 DEF FilingDiscipline

LEMMA ReturnKeeps ==
  ASSUME TypeOK, FilingDiscipline, NEW t \in Filers, NEW outcome \in Outcomes,
         Return(t, outcome)
  PROVE  TypeOK' /\ FilingDiscipline'
  <1> USE DEF Return, Goto, Set, config
  <1>1. TypeOK'
    BY NoCallTyped DEF TypeOK, PCs
  <1>2. /\ \A u \in Filers \ {t} : pc'[u] = pc[u] /\ tx'[u] = tx[u]
        /\ pc'[t] = "idle" /\ tx'[t] = NoCall
        /\ requests' = requests /\ deciding' = deciding
    BY DEF TypeOK
  <1>3. IndexGuards'
    BY <1>2, NoCallFits
    DEF FilingDiscipline, IndexGuards, HasInserted, Holding, OneHolder, Guarded, Inserted
  <1>4. LapsLost'
    BY <1>2 DEF FilingDiscipline, LapsLost, LapLost, Holding
  <1>5. ChainInProgress'
    BY <1>2, NoCallFits DEF FilingDiscipline, ChainInProgress
  <1>6. FiledWhole'
    BY <1>2 DEF FilingDiscipline, FiledWhole, Holding
  <1> QED BY <1>1, <1>3, <1>4, <1>5, <1>6 DEF FilingDiscipline

\* What the invariant says of a session that is about to move.
LEMMA SessionFits ==
  ASSUME TypeOK, FilingDiscipline, NEW t \in Filers
  PROVE  /\ tx[t] \in Locals /\ pc[t] \in PCs
         /\ LapLost(pc[t], tx[t]) /\ ChainResolved(pc[t], tx[t]) /\ Guarded(pc[t], tx[t])
         /\ HasInserted(t) => \A u \in Filers \ {t} : ~ HasInserted(u)
  BY DEF TypeOK, FilingDiscipline, IndexGuards, LapsLost, ChainInProgress, Guarded, HasInserted

-----------------------------------------------------------------------------
(* The actions of a filing.                                                *)

LEMMA FileKeeps ==
  ASSUME TypeOK, FilingDiscipline, NEW t \in Filers, Call(t)
  PROVE  TypeOK' /\ FilingDiscipline'
  <1>1. PICK requester \in Requesters : File(t, requester)
    BY DEF Call
  <1> DEFINE l == [NoCall EXCEPT !.requested_by = requester, !.lap = 1]
  <1>2. l = [requested_by |-> requester, lap |-> 1, id |-> NoId, policy |-> NoPolicy,
             templates |-> <<>>, next |-> 1, members |-> <<>>, rows |-> <<>>,
             overtaken |-> 0]
    BY CallLocals
  <1>3. /\ pc' = [pc EXCEPT ![t] = "find"] /\ tx' = [tx EXCEPT ![t] = l]
        /\ answer' = [answer EXCEPT ![t] = "none"]
        /\ UNCHANGED <<requests, deciding, config>>
    BY <1>1 DEF File, Goto, Set
  <1> HIDE DEF l
  <1>4. l \in Locals
    BY <1>2, FilerAssumption, TemplateAssumption, EmptySeq DEF Locals, ChainRows
  <1>5. LapLost("find", l) /\ ChainResolved("find", l) /\ l.id = NoId
    BY <1>2, FilerAssumption DEF LapLost, ChainResolved, AllFrom
  <1>6. TypeOK'
    BY <1>3, <1>4 DEF TypeOK, PCs, Outcomes, config
  <1>7. /\ \A u \in Filers \ {t} : pc'[u] = pc[u] /\ tx'[u] = tx[u]
        /\ pc'[t] = "find" /\ tx'[t] = l
        /\ requests' = requests /\ deciding' = deciding
    BY <1>3 DEF TypeOK
  <1>8. IndexGuards'
    BY <1>5, <1>7
    DEF FilingDiscipline, IndexGuards, HasInserted, Holding, OneHolder, Inserted
  <1>9. LapsLost'
    BY <1>5, <1>7 DEF FilingDiscipline, LapsLost, LapLost, Holding
  <1>10. ChainInProgress'
    BY <1>5, <1>7 DEF FilingDiscipline, ChainInProgress
  <1>11. FiledWhole'
    BY <1>7 DEF FilingDiscipline, FiledWhole, Holding
  <1> QED BY <1>6, <1>8, <1>9, <1>10, <1>11 DEF FilingDiscipline

LEMMA FindLiveKeeps ==
  ASSUME TypeOK, FilingDiscipline, NEW t \in Filers, FindLive(t)
  PROVE  TypeOK' /\ FilingDiscipline'
  <1>1. CASE Return(t, "already_filed")
    BY <1>1, ReturnKeeps DEF Outcomes
  <1>2. CASE (\A i \in Ids : ~ FoundByFile(requests[i].status)) /\ Step(t, "policy", tx[t])
    <2>1. LapLost("policy", tx[t]) /\ ChainResolved("policy", tx[t]) /\ Guarded("policy", tx[t])
      BY <1>2, SessionFits
      DEF FindLive, LapLost, ChainResolved, Guarded, Inserted, Holding, FoundByFile, HeldByIndex
    <2>2. tx[t] \in Locals /\ "policy" \in PCs
      BY SessionFits DEF PCs
    <2>3. tx[t].id # NoId => \A u \in Filers \ {t} : ~ HasInserted(u)
      BY SessionFits DEF HasInserted
    <2> QED BY <1>2, <2>1, <2>2, <2>3, StepKeeps
  <1> QED BY <1>1, <1>2 DEF FindLive

LEMMA FindPolicyKeeps ==
  ASSUME TypeOK, FilingDiscipline, NEW t \in Filers, FindPolicy(t)
  PROVE  TypeOK' /\ FilingDiscipline'
  <1> DEFINE l == [tx[t] EXCEPT !.policy = active]
  <1>1. Step(t, "insert", l) /\ pc[t] = "policy"
    BY DEF FindPolicy
  <1>2. tx[t] \in Locals /\ active \in Policies \union {NoPolicy}
    BY SessionFits DEF TypeOK
  <1>3. l \in Locals /\ "insert" \in PCs
    BY <1>2 DEF Locals, PCs
  <1>4. /\ l.id = tx[t].id /\ l.lap = tx[t].lap /\ l.overtaken = tx[t].overtaken
        /\ l.rows = tx[t].rows /\ l.members = tx[t].members
    BY <1>2 DEF Locals
  <1>5. l.templates = tx[t].templates
    BY <1>2 DEF Locals
  <1> HIDE DEF l
  <1>6. LapLost("insert", l) /\ ChainResolved("insert", l) /\ Guarded("insert", l) /\ l.id = NoId
    BY <1>1, <1>4, <1>5, SessionFits DEF LapLost, ChainResolved, Guarded, Inserted, AllFrom
  <1> QED BY <1>1, <1>3, <1>6, StepKeeps

LEMMA InsertRequestKeeps ==
  ASSUME TypeOK, FilingDiscipline, NEW t \in Filers, InsertRequest(t)
  PROVE  TypeOK' /\ FilingDiscipline'
  <1> DEFINE label == IF tx[t].policy = NoPolicy THEN "commit" ELSE "templates"
  <1>1. PICK i \in Ids : Step(t, label, [tx[t] EXCEPT !.id = i])
    BY DEF InsertRequest
  <1> DEFINE l == [tx[t] EXCEPT !.id = i]
  <1>2. /\ pc[t] = "insert" /\ \A j \in Ids : ~ Holding(j)
        /\ \A u \in Filers \ {t} : ~ HasInserted(u)
    BY DEF InsertRequest, InsertMayGo
  <1>3. tx[t] \in Locals
    BY SessionFits
  <1>4. l \in Locals /\ label \in PCs
    BY <1>3 DEF Locals, PCs
  <1>5. /\ l.id = i /\ l.lap = tx[t].lap /\ l.overtaken = tx[t].overtaken
        /\ l.rows = tx[t].rows /\ l.members = tx[t].members /\ l.policy = tx[t].policy
    BY <1>3 DEF Locals
  <1> HIDE DEF l
  <1>6. LapLost(label, l) /\ ChainResolved(label, l) /\ Guarded(label, l)
    BY <1>2, <1>5, SessionFits, IdAssumption
    DEF LapLost, ChainResolved, Guarded, Inserted, AllFrom
  <1> QED BY <1>1, <1>2, <1>4, <1>6, StepKeeps DEF l

LEMMA LoseRaceKeeps ==
  ASSUME TypeOK, FilingDiscipline, NEW t \in Filers, LoseRace(t)
  PROVE  TypeOK' /\ FilingDiscipline'
  <1> DEFINE l == [tx[t] EXCEPT !.lap = tx[t].lap + 1, !.policy = NoPolicy]
  <1>1. CASE tx[t].lap < FileAttempts /\ Step(t, "find", l)
    <2>1. tx[t] \in Locals /\ pc[t] = "insert" /\ FileAttempts \in Nat
      BY SessionFits, FilerAssumption DEF LoseRace
    <2>2. l = [requested_by |-> tx[t].requested_by, lap |-> tx[t].lap + 1, id |-> tx[t].id,
               policy |-> NoPolicy, templates |-> tx[t].templates, next |-> tx[t].next,
               members |-> tx[t].members, rows |-> tx[t].rows,
               overtaken |-> tx[t].overtaken]
      BY <2>1, NextLapLocals
    <2> HIDE DEF l
    <2>3. l \in Locals /\ "find" \in PCs
      BY <1>1, <2>1, <2>2 DEF Locals, PCs
    <2>4. LapLost("find", l)
      BY <1>1, <2>1, <2>2, SessionFits DEF LoseRace, LapLost, Locals
    <2>5. ChainResolved("find", l) /\ Guarded("find", l) /\ l.id = NoId
      BY <2>1, <2>2, SessionFits DEF ChainResolved, Guarded, Inserted, AllFrom
    <2> QED BY <1>1, <2>3, <2>4, <2>5, StepKeeps
  <1>2. CASE Return(t, "filing_race_exhausted")
    BY <1>2, ReturnKeeps DEF Outcomes, Refusals
  <1> QED BY <1>1, <1>2 DEF LoseRace

LEMMA ReadTemplatesKeeps ==
  ASSUME TypeOK, FilingDiscipline, NEW t \in Filers, ReadTemplates(t)
  PROVE  TypeOK' /\ FilingDiscipline'
  <1> DEFINE l == [tx[t] EXCEPT !.templates = templates[tx[t].policy]]
  <1>1. Step(t, "resolve", l) /\ pc[t] = "templates"
    BY DEF ReadTemplates
  <1>2. tx[t] \in Locals
    BY SessionFits
  <1>3. tx[t].policy \in Policies
    BY <1>1, <1>2, SessionFits DEF ChainResolved, Locals
  <1>4. templates[tx[t].policy] \in ChainsOf
    BY <1>3 DEF TypeOK
  <1>5. l \in Locals /\ "resolve" \in PCs
    BY <1>2, <1>4 DEF Locals, PCs
  <1>6. /\ l.id = tx[t].id /\ l.lap = tx[t].lap /\ l.overtaken = tx[t].overtaken
        /\ l.rows = tx[t].rows /\ l.members = tx[t].members /\ l.policy = tx[t].policy
        /\ l.templates \in ChainsOf
    BY <1>2, <1>4 DEF Locals
  <1> HIDE DEF l
  <1>7. LapLost("resolve", l) /\ ChainResolved("resolve", l) /\ Guarded("resolve", l)
    BY <1>1, <1>6, SessionFits DEF LapLost, ChainResolved, Guarded, Inserted, AllFrom
  <1>8. l.id # NoId => \A u \in Filers \ {t} : ~ HasInserted(u)
    BY <1>6, SessionFits DEF HasInserted
  <1> QED BY <1>1, <1>5, <1>7, <1>8, StepKeeps

\* The next template of a filing that has one.
LEMMA NextTemplate ==
  ASSUME TypeOK, FilingDiscipline, NEW t \in Filers, pc[t] = "resolve",
         tx[t].next \in DOMAIN tx[t].templates
  PROVE  LET template == tx[t].templates[tx[t].next] IN
         /\ tx[t].templates \in ChainsOf
         /\ template \in TemplateOf(Employees)
         /\ template.approver_kind = "specific_employee" =>
                template.approver_ref \in Employees \union {NoRef}
         /\ Named(template) \subseteq Seq(Employees)
  <1>1. tx[t].templates \in ChainsOf
    BY SessionFits DEF ChainResolved
  <1> QED BY <1>1, ChainTyped, TemplateAssumption, EmptySeq DEF Named

LEMMA ResolveKeeps ==
  ASSUME TypeOK, FilingDiscipline, NEW t \in Filers, Resolve(t)
  PROVE  TypeOK' /\ FilingDiscipline'
  <1> DEFINE template == tx[t].templates[tx[t].next]
             refusal == TemplateRefusal(template)
  <1>1. pc[t] = "resolve" /\ tx[t].next \in DOMAIN tx[t].templates /\ tx[t] \in Locals
    BY SessionFits DEF Resolve
  <1>2. CASE refusal # "none" /\ Return(t, refusal)
    BY <1>2, ReturnKeeps DEF TemplateRefusal, Outcomes, Refusals
  <1>3. CASE \E code \in {"no_org_scope", "step_resolution_failed"} : Return(t, code)
    BY <1>3, ReturnKeeps DEF Outcomes, Refusals
  <1>4. ASSUME refusal = "none", NEW named \in Named(template),
               Step(t, IF Members(template, named) = <<>> THEN "resolve" ELSE "delegate",
                    [tx[t] EXCEPT !.members = Members(template, named), !.next = tx[t].next + 1])
        PROVE  TypeOK' /\ FilingDiscipline'
    <2> DEFINE members == Members(template, named)
               label == IF members = <<>> THEN "resolve" ELSE "delegate"
               l == [tx[t] EXCEPT !.members = members, !.next = tx[t].next + 1]
    <2>1. members \in ChainRows /\ \A k \in DOMAIN members : ResolvedFrom(members[k], template)
      BY <1>1, <1>4, NextTemplate, MembersTyped
    <2>2. Step(t, label, l)
      BY <1>4
    <2> HIDE DEF members
    <2>3. l = [requested_by |-> tx[t].requested_by, lap |-> tx[t].lap, id |-> tx[t].id,
               policy |-> tx[t].policy, templates |-> tx[t].templates,
               next |-> tx[t].next + 1, members |-> members, rows |-> tx[t].rows,
               overtaken |-> tx[t].overtaken]
      BY <1>1, ResolvedLocals
    <2> HIDE DEF l
    <2>4. l \in Locals /\ label \in PCs
      BY <1>1, <2>1, <2>3 DEF Locals, PCs
    <2>5. AllFrom(members, l.templates)
      BY <1>1, <2>1, <2>3 DEF AllFrom
    <2>6. ChainResolved(label, l)
      BY <1>1, <2>3, <2>5, SessionFits DEF ChainResolved
    <2>7. LapLost(label, l) /\ Guarded(label, l)
      BY <1>1, <2>3, SessionFits DEF LapLost, Guarded, Inserted
    <2>8. l.id # NoId => \A u \in Filers \ {t} : ~ HasInserted(u)
      BY <2>3, SessionFits DEF HasInserted
    <2> QED BY <2>2, <2>4, <2>6, <2>7, <2>8, StepKeeps
  <1> QED BY <1>2, <1>3, <1>4 DEF Resolve

LEMMA DelegateKeeps ==
  ASSUME TypeOK, FilingDiscipline, NEW t \in Filers, Delegate(t)
  PROVE  TypeOK' /\ FilingDiscipline'
  <1> DEFINE m == Head(tx[t].members)
             label == IF Len(tx[t].members) = 1 THEN "resolve" ELSE "delegate"
             l(row) == [tx[t] EXCEPT !.members = Tail(tx[t].members),
                                     !.rows = Append(tx[t].rows, row)]
             Row == ChainRowOf(Nat, Employees)
  <1>1. /\ pc[t] = "delegate" /\ tx[t] \in Locals
        /\ tx[t].members \in Seq(Row) /\ tx[t].members # <<>> /\ tx[t].rows \in Seq(Row)
    BY SessionFits DEF Delegate, ChainResolved, Locals, ChainRows
  <1>2. /\ m \in Row /\ \E j \in DOMAIN tx[t].templates : ResolvedFrom(m, tx[t].templates[j])
    BY <1>1, HeadTailProperties, SessionFits DEF ChainResolved, AllFrom
  <1>3. ASSUME NEW row \in Row,
               \E j \in DOMAIN tx[t].templates : ResolvedFrom(row, tx[t].templates[j]),
               Step(t, label, l(row))
        PROVE  TypeOK' /\ FilingDiscipline'
    <2> DEFINE left == Tail(tx[t].members)
               rows == Append(tx[t].rows, row)
               new == l(row)
    <2>1. left \in Seq(Row) /\ rows \in Seq(Row) /\ (Len(tx[t].members) # 1 => left # <<>>)
      <3> HIDE DEF Row
      <3>1. left \in Seq(Row) /\ Len(left) = Len(tx[t].members) - 1
        BY <1>1, HeadTailProperties
      <3>2. rows \in Seq(Row)
        BY <1>1, <1>3, AppendProperties
      <3>3. Len(tx[t].members) # 1 => Len(left) # 0
        BY <1>1, <3>1
      <3> HIDE DEF left
      <3>4. Len(left) # 0 => left # <<>>
        OBVIOUS
      <3> QED BY <3>1, <3>2, <3>3, <3>4
    <2>2. AllFrom(left, tx[t].templates)
      BY <1>1, HeadTailProperties, SessionFits DEF AllFrom, ChainResolved
    <2>3. AllFrom(rows, tx[t].templates)
      BY <1>1, <1>3, AppendProperties, SessionFits DEF AllFrom, ChainResolved
    <2> HIDE DEF left, rows, Row
    <2>4. new = [requested_by |-> tx[t].requested_by, lap |-> tx[t].lap, id |-> tx[t].id,
                 policy |-> tx[t].policy, templates |-> tx[t].templates,
                 next |-> tx[t].next, members |-> left, rows |-> rows,
                 overtaken |-> tx[t].overtaken]
      BY <1>1, DelegatedLocals DEF left, rows
    <2>5. Step(t, label, new)
      BY <1>3
    <2> HIDE DEF l, new
    <2>6. new \in Locals /\ label \in PCs
      BY <1>1, <2>1, <2>4 DEF Locals, PCs, ChainRows, Row
    <2>7. ChainResolved(label, new)
      BY <1>1, <2>1, <2>2, <2>3, <2>4, SessionFits DEF ChainResolved
    <2>8. LapLost(label, new) /\ Guarded(label, new)
      BY <1>1, <2>4, SessionFits DEF LapLost, Guarded, Inserted
    <2>9. new.id # NoId => \A u \in Filers \ {t} : ~ HasInserted(u)
      BY <2>4, SessionFits DEF HasInserted
    <2> QED BY <2>5, <2>6, <2>7, <2>8, <2>9, StepKeeps
  <1>4. CASE Step(t, label, l(m))
    BY <1>2, <1>3, <1>4
  <1>5. ASSUME NEW p \in delegations, Step(t, label, l(Delegated(m, p[2])))
        PROVE  TypeOK' /\ FilingDiscipline'
    <2>1. p[2] \in Employees
      BY TemplateAssumption DEF TypeOK
    <2>2. /\ Delegated(m, p[2]) \in Row
          /\ \E j \in DOMAIN tx[t].templates :
                ResolvedFrom(Delegated(m, p[2]), tx[t].templates[j])
      BY <1>2, <2>1, DelegatedTyped
    <2> QED BY <1>3, <1>5, <2>2
  <1> QED BY <1>4, <1>5 DEF Delegate

LEMMA InsertStepsKeeps ==
  ASSUME TypeOK, FilingDiscipline, NEW t \in Filers, InsertSteps(t)
  PROVE  TypeOK' /\ FilingDiscipline'
  <1>1. CASE Accepts(tx[t].templates, tx[t].rows) /\ Step(t, "commit", tx[t])
    <2>1. tx[t] \in Locals /\ "commit" \in PCs /\ pc[t] = "resolve"
      BY SessionFits DEF PCs, InsertSteps
    <2>2. LapLost("commit", tx[t]) /\ ChainResolved("commit", tx[t]) /\ Guarded("commit", tx[t])
      BY <1>1, <2>1, SessionFits DEF LapLost, ChainResolved, Guarded, Inserted
    <2>3. tx[t].id # NoId => \A u \in Filers \ {t} : ~ HasInserted(u)
      BY SessionFits DEF HasInserted
    <2> QED BY <1>1, <2>1, <2>2, <2>3, StepKeeps
  <1>2. CASE Return(t, "invalid_approval_chain")
    BY <1>2, ReturnKeeps DEF Outcomes, Refusals
  <1> QED BY <1>1, <1>2 DEF InsertSteps

\* The row a filing commits is whole.
LEMMA FiledIsWhole ==
  ASSUME TypeOK, FilingDiscipline, NEW t \in Filers, pc[t] = "commit"
  PROVE  /\ Filed(t) \in RequestRow
         /\ Whole(Filed(t))
  <1>1. /\ tx[t] \in Locals /\ ChainResolved("commit", tx[t])
        /\ NoPolicy \notin Policies
    BY SessionFits, IdAssumption
  <1> DEFINE f == Filed(t)
  <1>2. f \in RequestRow
    BY <1>1 DEF Filed, RequestRow, RequestStatus, Verdicts, Locals
  <1>3. /\ f.status = IF tx[t].policy = NoPolicy THEN "approved" ELSE "pending"
        /\ f.policy = tx[t].policy /\ f.rows = tx[t].rows /\ f.from = tx[t].templates
    BY DEF Filed
  <1> SUFFICES f \in RequestRow /\ Whole(f)
    OBVIOUS
  <1> HIDE DEF f
  <1>4. CASE tx[t].policy = NoPolicy
    BY <1>1, <1>2, <1>3, <1>4 DEF Whole, ChainResolved
  <1>5. CASE tx[t].policy # NoPolicy
    <2>1. /\ tx[t].templates \in ChainsOf /\ tx[t].rows \in ChainRows
          /\ AllFrom(tx[t].rows, tx[t].templates) /\ Accepts(tx[t].templates, tx[t].rows)
      BY <1>1, <1>5 DEF ChainResolved, Locals
    <2> QED BY <1>2, <1>3, <1>5, <2>1, AcceptedIsWalkable DEF Whole
  <1> QED BY <1>4, <1>5

LEMMA CommitFilingKeeps ==
  ASSUME TypeOK, FilingDiscipline, NEW t \in Filers, CommitFiling(t)
  PROVE  TypeOK' /\ FilingDiscipline'
  <1> DEFINE id == tx[t].id
  <1>1. /\ pc[t] = "commit" /\ tx[t] \in Locals
        /\ requests' = [requests EXCEPT ![id] = Filed(t)]
        /\ pc' = [pc EXCEPT ![t] = "idle"]
        /\ answer' = [answer EXCEPT ![t] = "filed"]
        /\ UNCHANGED <<deciding, active, templates, delegations>>
    BY SessionFits DEF CommitFiling, Goto, config
  <1>2. /\ id \in Ids /\ \A i \in Ids : ~ Holding(i)
        /\ \A u \in Filers \ {t} : ~ HasInserted(u)
    BY <1>1, SessionFits DEF Guarded, Inserted, HasInserted, Locals
  <1>3. tx'[t] = NoCall /\ pc'[t] = "idle" /\ tx' \in [Filers -> Locals]
    <2>1. \A u \in Filers \ {t} :
            tx[u].overtaken # FileAttempts => [tx[u] EXCEPT !.overtaken = @ + 1] \in Locals
      <3>1. ASSUME NEW u \in Filers, tx[u].overtaken # FileAttempts
            PROVE  [tx[u] EXCEPT !.overtaken = @ + 1] \in Locals
        <4>1. tx[u] \in Locals
          BY DEF TypeOK
        <4>2. tx[u].overtaken + 1 \in 0..FileAttempts
          BY <3>1, <4>1, FilerAssumption DEF Locals
        <4> QED BY <4>1, <4>2 DEF Locals
      <3> QED BY <3>1
    <2> QED BY <1>1, <2>1, NoCallTyped DEF CommitFiling, TypeOK
  <1>4. ASSUME NEW u \in Filers \ {t}
        PROVE  /\ pc'[u] = pc[u]
               /\ tx'[u].id = tx[u].id /\ tx'[u].lap = tx[u].lap
               /\ tx'[u].policy = tx[u].policy /\ tx'[u].templates = tx[u].templates
               /\ tx'[u].members = tx[u].members /\ tx'[u].rows = tx[u].rows
               /\ pc[u] # "idle" => \/ tx'[u].overtaken = FileAttempts
                                    \/ tx'[u].overtaken = tx[u].overtaken + 1
    <2>1. pc'[u] = pc[u]
      BY <1>1 DEF TypeOK
    <2>2. tx'[u] = IF pc[u] = "idle" \/ tx[u].overtaken = FileAttempts THEN tx[u]
                   ELSE [tx[u] EXCEPT !.overtaken = @ + 1]
      BY DEF CommitFiling
    <2> QED BY <2>1, <2>2 DEF TypeOK, Locals
  <1>5. TypeOK'
    BY <1>1, <1>2, <1>3, FiledIsWhole DEF TypeOK, PCs, Outcomes
  <1>6. \A i \in Ids : Holding(i)' => i = id
    BY <1>1, <1>2 DEF Holding, TypeOK
  <1>7. \A u \in Filers : ~ HasInserted(u)'
    BY <1>2, <1>3, <1>4 DEF HasInserted, NoCall
  <1>8. IndexGuards'
    <2>1. \A i \in Ids : deciding[i] = "none"
      BY <1>2 DEF FilingDiscipline, IndexGuards, Holding, HeldByIndex
    <2>2. \A u \in Filers : pc'[u] \notin Inserted
      BY <1>2, <1>3, <1>4 DEF FilingDiscipline, IndexGuards, Inserted
    <2> QED BY <1>1, <1>6, <1>7, <2>1, <2>2 DEF IndexGuards, OneHolder
  <1>9. LapsLost'
    <2>1. \A u \in Filers \ {t} : LapLost(pc[u], tx[u]) /\ tx[u] \in Locals
      BY SessionFits
    <2>2. \A u \in Filers \ {t} : LapLost(pc[u], tx[u])'
      BY <1>4, <2>1, FilerAssumption DEF LapLost, Locals
    <2> QED BY <1>3, <2>2 DEF LapsLost, LapLost
  <1>10. ChainInProgress'
    <2>1. \A u \in Filers \ {t} : ChainResolved(pc'[u], tx'[u])
      BY <1>4, SessionFits DEF ChainResolved, AllFrom
    <2> QED BY <1>3, <2>1, NoCallFits DEF ChainInProgress
  <1>11. FiledWhole'
    BY <1>1, <1>2, <1>6, FiledIsWhole DEF FiledWhole, TypeOK
  <1> QED BY <1>5, <1>8, <1>9, <1>10, <1>11 DEF FilingDiscipline

-----------------------------------------------------------------------------
(* The engine and the configuration.                                       *)

LEMMA EngineWritesKeeps ==
  ASSUME TypeOK, FilingDiscipline, NEW i \in Ids, NEW verdict \in Verdicts,
         EngineWrites(i, verdict)
  PROVE  TypeOK' /\ FilingDiscipline'
  <1> USE DEF EngineWrites, config, session
  <1>1. TypeOK'
    BY DEF TypeOK
  <1>2. IndexGuards'
    BY DEF TypeOK, FilingDiscipline, IndexGuards, HasInserted, Holding, OneHolder
  <1>3. LapsLost' /\ ChainInProgress' /\ FiledWhole'
    BY DEF FilingDiscipline, LapsLost, LapLost, ChainInProgress, FiledWhole, Holding
  <1> QED BY <1>1, <1>2, <1>3 DEF FilingDiscipline

LEMMA EngineEndsKeeps ==
  ASSUME TypeOK, FilingDiscipline, NEW i \in Ids, EngineEnds(i)
  PROVE  TypeOK' /\ FilingDiscipline'
  <1> DEFINE row == IF deciding[i] = "approved" THEN [requests[i] EXCEPT !.status = "approved"]
                    ELSE [Absent EXCEPT !.status = deciding[i]]
  <1>1. /\ deciding[i] # "none" /\ requests[i].status = "pending"
        /\ deciding' = [deciding EXCEPT ![i] = "none"]
        /\ \/ requests' = [requests EXCEPT ![i] = row]
           \/ requests' = requests
        /\ UNCHANGED <<active, templates, delegations, pc, tx, answer>>
    BY DEF EngineEnds, config, session, FilingDiscipline, IndexGuards
  <1>2. /\ row \in RequestRow /\ HeldByIndex("pending")
        /\ HeldByIndex(row.status) => row.rows = requests[i].rows /\ row.from = requests[i].from
                                        /\ row.policy = requests[i].policy
                                        /\ row.status = "approved"
    <2>1. requests[i] \in RequestRow /\ deciding[i] \in Verdicts
      BY <1>1 DEF TypeOK
    <2> QED BY <2>1, NoCallTyped DEF RequestRow, RequestStatus, Verdicts, HeldByIndex, Absent
  <1> HIDE DEF row
  <1>3. TypeOK'
    BY <1>1, <1>2 DEF TypeOK
  <1>4. \A j \in Ids : Holding(j)' => Holding(j)
    BY <1>1, <1>2 DEF Holding, TypeOK
  <1>5. IndexGuards'
    BY <1>1, <1>4 DEF TypeOK, FilingDiscipline, IndexGuards, HasInserted, OneHolder
  <1>6. LapsLost' /\ ChainInProgress'
    BY <1>1, <1>4 DEF FilingDiscipline, LapsLost, LapLost, ChainInProgress
  <1>7. FiledWhole'
    <2>1. ASSUME NEW j \in Ids, Holding(j)'
          PROVE  Whole(requests'[j])
      <3>1. Holding(j) /\ Whole(requests[j])
        BY <1>4, <2>1 DEF FilingDiscipline, FiledWhole
      <3>2. CASE requests'[j] = requests[j]
        BY <3>1, <3>2
      <3>3. CASE j = i /\ requests'[j] = row
        <4>1. Whole(requests[i]) /\ HeldByIndex(row.status)
          BY <2>1, <3>1, <3>3 DEF Holding
        <4>2. Whole(row)
          BY <1>2, <4>1 DEF Whole
        <4> QED BY <3>3, <4>2
      <3> QED BY <1>1, <3>2, <3>3 DEF TypeOK
    <2> QED BY <2>1 DEF FiledWhole
  <1> QED BY <1>3, <1>5, <1>6, <1>7 DEF FilingDiscipline

LEMMA ConfigurationKeeps ==
  ASSUME TypeOK, FilingDiscipline, Configuration
  PROVE  TypeOK' /\ FilingDiscipline'
  <1>1. /\ UNCHANGED <<requests, deciding, pc, tx, answer>>
        /\ active' \in Policies \union {NoPolicy} /\ templates' \in [Policies -> ChainsOf]
        /\ delegations' \subseteq Delegable
    BY DEF Configuration, SwitchPolicy, EditChain, EditDelegation, session, TypeOK
  <1>2. TypeOK'
    BY <1>1 DEF TypeOK
  <1>3. FilingDiscipline'
    BY <1>1 DEF FilingDiscipline, IndexGuards, LapsLost, LapLost, ChainInProgress,
                FiledWhole, HasInserted, Holding, OneHolder
  <1> QED BY <1>2, <1>3

-----------------------------------------------------------------------------
(* The theorems.                                                           *)

LEMMA InitFits == Init => TypeOK /\ FilingDiscipline
  <1> SUFFICES ASSUME Init PROVE TypeOK /\ FilingDiscipline
    OBVIOUS
  <1> USE DEF Init
  <1>1. TypeOK
    BY NoCallTyped DEF TypeOK, PCs, Outcomes
  <1>2. \A i \in Ids : ~ Holding(i)
    BY DEF Holding, HeldByIndex, Absent
  <1>3. IndexGuards
    BY <1>2, NoCallFits DEF IndexGuards, HasInserted, OneHolder, Guarded, Inserted
  <1>4. LapsLost /\ ChainInProgress
    BY NoCallFits DEF LapsLost, ChainInProgress
  <1>5. FiledWhole
    BY <1>2 DEF FiledWhole
  <1> QED BY <1>1, <1>3, <1>4, <1>5 DEF FilingDiscipline

\* One step per action.
LEMMA NextKeeps == TypeOK /\ FilingDiscipline /\ [Next]_vars => TypeOK' /\ FilingDiscipline'
  <1> SUFFICES ASSUME TypeOK, FilingDiscipline, [Next]_vars
               PROVE  TypeOK' /\ FilingDiscipline'
    OBVIOUS
  <1>1. ASSUME NEW t \in Filers, Call(t) PROVE TypeOK' /\ FilingDiscipline'
    BY <1>1, FileKeeps
  <1>2. ASSUME NEW t \in Filers, Proceed(t) PROVE TypeOK' /\ FilingDiscipline'
    <2>1. CASE FindLive(t)
      BY <2>1, FindLiveKeeps
    <2>2. CASE FindPolicy(t)
      BY <2>2, FindPolicyKeeps
    <2>3. CASE InsertRequest(t)
      BY <2>3, InsertRequestKeeps
    <2>4. CASE LoseRace(t)
      BY <2>4, LoseRaceKeeps
    <2>5. CASE ReadTemplates(t)
      BY <2>5, ReadTemplatesKeeps
    <2>6. CASE Resolve(t)
      BY <2>6, ResolveKeeps
    <2>7. CASE Delegate(t)
      BY <2>7, DelegateKeeps
    <2>8. CASE InsertSteps(t)
      BY <2>8, InsertStepsKeeps
    <2>9. CASE CommitFiling(t)
      BY <2>9, CommitFilingKeeps
    <2> QED BY <1>2, <2>1, <2>2, <2>3, <2>4, <2>5, <2>6, <2>7, <2>8, <2>9 DEF Proceed
  <1>3. ASSUME NEW t \in Filers, Abort(t) PROVE TypeOK' /\ FilingDiscipline'
    BY <1>3, ReturnKeeps DEF Abort, Outcomes, Refusals
  <1>4. ASSUME NEW i \in Ids, Engine(i) PROVE TypeOK' /\ FilingDiscipline'
    BY <1>4, EngineWritesKeeps, EngineEndsKeeps DEF Engine
  <1>5. CASE Configuration
    BY <1>5, ConfigurationKeeps
  <1>6. CASE UNCHANGED vars
    BY <1>6 DEF vars, config, session, TypeOK, FilingDiscipline, IndexGuards, LapsLost, LapLost,
                ChainInProgress, FiledWhole, HasInserted, Holding, OneHolder
  <1> QED BY <1>1, <1>2, <1>3, <1>4, <1>5, <1>6 DEF Next

\* Columns, locals and answers hold what their types allow.
THEOREM FilingTypeCorrect == Spec => []TypeOK
  BY InitFits, NextKeeps, PTL DEF Spec

\* The inductive invariant.
THEOREM FilingDisciplineHolds == Spec => []FilingDiscipline
  BY InitFits, NextKeeps, PTL DEF Spec

\* file is idempotent per resource: one pending or approved request at most holds it,
\* however many sessions file it and whatever the engine decides meanwhile.
THEOREM OneHolderAlways == Spec => []OneHolder
  <1>1. FilingDiscipline => OneHolder
    BY DEF FilingDiscipline, IndexGuards
  <1> QED BY <1>1, FilingDisciplineHolds, PTL

\* No request that would park on a step nobody can decide is ever committed: what the
\* decision engine assumes of a chain is what filing leaves.
THEOREM FiledWholeAlways == Spec => []FiledWhole
  <1>1. FilingDiscipline => FiledWhole
    BY DEF FilingDiscipline
  <1> QED BY <1>1, FilingDisciplineHolds, PTL

\* Who answers: only a session that returns, and what it returns.
LEMMA StepAnswers ==
  ASSUME TypeOK, NEW t \in Filers, NEW u \in Filers, NEW label \in PCs \ {"idle"}, NEW l,
         Step(u, label, l), NEW outcome
  PROVE  ~ Returns(t, outcome)
  BY DEF Step, Goto, TypeOK, Returns

LEMMA ReturnAnswers ==
  ASSUME TypeOK, NEW t \in Filers, NEW u \in Filers, NEW outcome, NEW returned,
         Return(u, returned), Returns(t, outcome)
  PROVE  t = u /\ returned = outcome
  BY DEF Return, Goto, TypeOK, Returns

\* filing_race_exhausted is answered only by a call that FILE_ATTEMPTS other filings
\* have overtaken.
THEOREM ExhaustionIsHonest == Spec => ExhaustedWasOvertaken
  <1> DEFINE Honest == \A t \in Filers :
        Returns(t, "filing_race_exhausted") => tx[t].overtaken = FileAttempts
  <1>1. TypeOK /\ FilingDiscipline /\ [Next]_vars => [Honest]_vars
    <2> SUFFICES ASSUME TypeOK, FilingDiscipline, Next, NEW t \in Filers,
                        Returns(t, "filing_race_exhausted")
                 PROVE  tx[t].overtaken = FileAttempts
      OBVIOUS
    <2>1. PICK u \in Filers : Call(u) \/ Proceed(u) \/ Abort(u)
      <3>1. pc' # pc
        BY DEF Returns
      <3> QED BY <3>1 DEF Next, Engine, EngineWrites, EngineEnds, Configuration, SwitchPolicy,
                          EditChain, EditDelegation, session
    <2>2. ~ Call(u) /\ ~ Abort(u)
      BY ReturnAnswers DEF Call, File, Goto, TypeOK, Returns, Abort
    <2>3. CASE LoseRace(u)
      <3>1. /\ pc[u] = "insert" /\ \E i \in Ids : Holding(i)
            /\ \/ Step(u, "find", [tx[u] EXCEPT !.lap = tx[u].lap + 1, !.policy = NoPolicy])
               \/ ~ (tx[u].lap < FileAttempts) /\ Return(u, "filing_race_exhausted")
        BY <2>3, Zenon DEF LoseRace
      <3>2. t = u /\ ~ (tx[u].lap < FileAttempts)
        BY <3>1, StepAnswers, ReturnAnswers DEF PCs
      <3> QED BY <3>1, <3>2, SessionFits, FilerAssumption DEF LapLost, Locals
    <2>4. CASE CommitFiling(u)
      BY <2>4 DEF CommitFiling, Goto, TypeOK, Returns
    <2>5. ASSUME ~ LoseRace(u), ~ CommitFiling(u)
          PROVE  \/ \E label \in PCs \ {"idle"} : \E l : Step(u, label, l)
                 \/ \E outcome \in Outcomes \ {"filing_race_exhausted"} : Return(u, outcome)
      BY <2>1, <2>2, <2>5
      DEF Proceed, FindLive, FindPolicy, InsertRequest, ReadTemplates, Resolve, Delegate,
          InsertSteps, PCs, Outcomes, Refusals, TemplateRefusal
    <2> QED BY <2>3, <2>4, <2>5, StepAnswers, ReturnAnswers
  <1> QED BY <1>1, FilingTypeCorrect, FilingDisciplineHolds, PTL
          DEF Spec, ExhaustedWasOvertaken

\* The holder is the request that holds the resource.
LEMMA HolderIs ==
  ASSUME OneHolder
  PROVE  /\ \A i \in Ids : Holding(i) => Holder = i
         /\ (\A i \in Ids : ~ Holding(i)) => Holder = NoId
  BY DEF OneHolder, Holder

\* The filings together implement ResourceClaim: a commit claims a free resource, the end
\* of an engine transaction may release it, and nothing else touches it.
THEOREM FilingsClaim == Spec => ImplementsClaim
  <1>1. Init => Claim!Init
    <2> SUFFICES ASSUME Init PROVE Holder = NoId
      BY DEF Claim!Init
    <2> QED BY DEF Init, Holder, Holding, HeldByIndex, Absent
  <1>2. TypeOK /\ FilingDiscipline /\ FilingDiscipline' /\ [Next]_vars => [Claim!Next]_Holder
    <2> SUFFICES ASSUME TypeOK, FilingDiscipline, FilingDiscipline', [Next]_vars, Holder' # Holder
                 PROVE  Claim!Next
      OBVIOUS
    <2>1. OneHolder /\ OneHolder' /\ NoId \notin Ids
      BY IdAssumption DEF FilingDiscipline, IndexGuards
    <2>2. requests' # requests
      BY DEF Holder, Holding
    <2>3. (\E t \in Filers : CommitFiling(t)) \/ (\E i \in Ids : EngineEnds(i))
      BY <2>2 DEF Next, Call, File, Proceed, FindLive, FindPolicy, InsertRequest, LoseRace,
                  ReadTemplates, Resolve, Delegate, InsertSteps, Abort, Engine, EngineWrites,
                  Configuration, SwitchPolicy, EditChain, EditDelegation, Step, Return, vars
    <2>4. ASSUME NEW t \in Filers, CommitFiling(t)
          PROVE  Claim!Claim
      <3>1. \A i \in Ids : ~ Holding(i)
        BY <2>4, SessionFits DEF CommitFiling, Guarded, Inserted
      <3>2. Holder = NoId
        BY <2>1, <3>1, HolderIs
      <3>3. Holder' \in Ids
        BY <3>2 DEF Holder
      <3> QED BY <3>2, <3>3 DEF Claim!Claim
    <2>5. ASSUME NEW i \in Ids, EngineEnds(i)
          PROVE  Claim!Release
      <3>1. /\ requests[i].status = "pending" /\ Holding(i)
            /\ \A j \in Ids \ {i} : requests'[j] = requests[j]
        BY <2>5 DEF EngineEnds, FilingDiscipline, IndexGuards, TypeOK, Holding, HeldByIndex
      <3>2. Holder = i
        BY <2>1, <3>1, HolderIs
      <3>3. ~ Holding(i)'
        BY <2>1, <3>2 DEF OneHolder, Holder
      <3>4. \A j \in Ids : ~ Holding(j)'
        BY <2>1, <3>1, <3>3 DEF OneHolder, Holding
      <3>5. Holder' = NoId
        BY <3>4 DEF Holder
      <3> QED BY <2>1, <3>2, <3>5 DEF Claim!Release
    <2> QED BY <2>3, <2>4, <2>5 DEF Claim!Next
  <1> QED BY <1>1, <1>2, FilingTypeCorrect, FilingDisciplineHolds, PTL
          DEF Spec, ImplementsClaim, Claim!Spec
=============================================================================
