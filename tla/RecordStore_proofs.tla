------------------------- MODULE RecordStore_proofs -------------------------
(***************************************************************************)
(* What TLAPS proves of the rows the services keep, for any number of      *)
(* sessions and any number of columns in focus.  The lists of columns meet *)
(* in Agreed, one lemma per conversion follows from it, and StoreInv links *)
(* what a session holds to the row and to what came in past the guard.     *)
(***************************************************************************)
EXTENDS RecordStore, TLAPS

\* What the lists of an entity must agree on for no conversion to lose a column.
Agreed(e) ==
    /\ e.columns.always # {}
    /\ e.required \subseteq Every(e.columns)
    /\ e.body.asked = e.columns.always /\ e.body.free = e.columns.optional
    /\ e.created = Every(e.columns)
    /\ e.updated = Every(e.columns)
    /\ e.shown = Every(e.columns)
    /\ e.checks \subseteq e.rules

\* What is filled in for some columns of a row.
IsFilled(e, given) == DOMAIN given \subseteq Every(e.columns)
                      /\ \A c \in DOMAIN given : given[c] \in Domain(e, c)

\* A row none of whose breaches the guard let in.
Foreign(r) == \A rule \in entity.rules : Breaks(r, rule) => rule \in outside

\* A row that keeps every CHECK there is.
Keeps(r) == \A rule \in checks : ~ Breaks(r, rule)

RowInv == row # Absent => Foreign(row) /\ Keeps(row)

\* A session between the load and the statement of a PUT.
Storing(s) ==
    /\ row # Absent /\ seen[s] # Absent
    /\ IsRow(entity, before[s]) /\ Foreign(before[s])
    /\ edit[s] \in Edits
    /\ answer[s] = "none"
    /\ fresh[s] => before[s] = row

SessionInv(s) ==
    /\ row = Absent => seen[s] = Absent
    /\ fresh[s] => seen[s] # Absent /\ seen[s] = Shown(entity, row)
    /\ pc[s] = "store" => Storing(s)

StoreInv == TypeOK /\ RowInv /\ \A s \in Sessions : SessionInv(s)

-----------------------------------------------------------------------------
(* The lists of columns.                                                   *)

\* The generated code of the five entities agrees on its columns.
LEMMA EntitiesAgree == \A e \in Entities : Agreed(e)
<1>1. Every(PolicyColumns) = {"resource_type", "name", "status", "description"}
  BY DEF Every, PolicyColumns
<1>2. Every(RequestColumns) =
        {"resource_type", "resource_id", "policy_id", "requested_by", "status",
         "current_step", "priority", "submitted_at", "decided_at", "decided_by", "summary"}
  BY DEF Every, RequestColumns
<1>3. Every(StepColumns) =
        {"request_id", "step_no", "approver_kind", "approver_ref", "assigned_to",
         "delegated_from", "status", "acted_at", "comment", "sla_due_at"}
  BY DEF Every, StepColumns
<1>4. Every(TemplateColumns) =
        {"policy_id", "step_no", "approver_kind", "approver_ref", "sla_hours", "all_of"}
  BY DEF Every, TemplateColumns
<1>5. Every(DelegationColumns) =
        {"approver_id", "delegate_to_id", "valid_from", "valid_to", "reason", "status"}
  BY DEF Every, DelegationColumns
<1> SUFFICES ASSUME NEW e \in Entities PROVE Agreed(e)
  OBVIOUS
<1>6. CASE e.columns = PolicyColumns
  <2>1. /\ e.required = PolicyRequired /\ e.body = PolicyBody
        /\ e.created = PolicyCreated /\ e.updated = PolicyUpdated
        /\ e.shown = PolicyShown /\ e.rules = PolicyRules /\ e.checks = PolicyChecks
    BY <1>6 DEF Entities, PolicyColumns, RequestColumns, StepColumns, TemplateColumns,
                DelegationColumns
  <2> QED BY <1>1, <1>6, <2>1
        DEF Agreed, PolicyColumns, PolicyRequired, PolicyBody, PolicyCreated,
            PolicyUpdated, PolicyShown, PolicyRules, PolicyChecks
<1>7. CASE e.columns = RequestColumns
  <2>1. /\ e.required = RequestRequired /\ e.body = RequestBody
        /\ e.created = RequestCreated /\ e.updated = RequestUpdated
        /\ e.shown = RequestShown /\ e.checks = {}
    BY <1>7 DEF Entities, PolicyColumns, RequestColumns, StepColumns, TemplateColumns,
                DelegationColumns
  <2> QED BY <1>2, <1>7, <2>1
        DEF Agreed, RequestColumns, RequestRequired, RequestBody, RequestCreated,
            RequestUpdated, RequestShown
<1>8. CASE e.columns = StepColumns
  <2>1. /\ e.required = StepRequired /\ e.body = StepBody
        /\ e.created = StepCreated /\ e.updated = StepUpdated
        /\ e.shown = StepShown /\ e.rules = StepRules /\ e.checks = StepChecks
    BY <1>8 DEF Entities, PolicyColumns, RequestColumns, StepColumns, TemplateColumns,
                DelegationColumns
  <2> QED BY <1>3, <1>8, <2>1
        DEF Agreed, StepColumns, StepRequired, StepBody, StepCreated, StepUpdated,
            StepShown, StepRules, StepChecks
<1>9. CASE e.columns = TemplateColumns
  <2>1. /\ e.required = TemplateRequired /\ e.body = TemplateBody
        /\ e.created = TemplateCreated /\ e.updated = TemplateUpdated
        /\ e.shown = TemplateShown /\ e.checks = {}
    BY <1>9 DEF Entities, PolicyColumns, RequestColumns, StepColumns, TemplateColumns,
                DelegationColumns
  <2> QED BY <1>4, <1>9, <2>1
        DEF Agreed, TemplateColumns, TemplateRequired, TemplateBody, TemplateCreated,
            TemplateUpdated, TemplateShown
<1>10. CASE e.columns = DelegationColumns
  <2>1. /\ e.required = DelegationRequired /\ e.body = DelegationBody
        /\ e.created = DelegationCreated /\ e.updated = DelegationUpdated
        /\ e.shown = DelegationShown /\ e.rules = DelegationRules
        /\ e.checks = DelegationChecks
    BY <1>10 DEF Entities, PolicyColumns, RequestColumns, StepColumns, TemplateColumns,
                 DelegationColumns
  <2> QED BY <1>5, <1>10, <2>1
        DEF Agreed, DelegationColumns, DelegationRequired, DelegationBody,
            DelegationCreated, DelegationUpdated, DelegationShown, DelegationRules,
            DelegationChecks
<1> QED BY <1>6, <1>7, <1>8, <1>9, <1>10 DEF Entities

\* A row has columns: it is not an absent one.
LEMMA RowsArePresent ==
  ASSUME NEW e, Agreed(e), NEW r, IsRow(e, r)
  PROVE  r # Absent
<1>1. PICK c \in e.columns.always : TRUE  BY DEF Agreed
<1>2. c \in DOMAIN r  BY <1>1 DEF IsRow, Typed, Every
<1> QED BY <1>2 DEF Absent

\* A response shows every column of its row as it is.
LEMMA ResponsesShowTheRow ==
  ASSUME NEW e, Agreed(e), NEW r, IsRow(e, r)
  PROVE  Shown(e, r) = r /\ IsShown(e, r)
BY DEF Agreed, IsRow, IsShown, Typed, Shown

\* What a response has shown, one column of it changed, is a readable body and a row.
LEMMA EditedRowsAreRows ==
  ASSUME NEW e, Agreed(e), NEW r, IsShown(e, r), NEW change,
         change[1] \in Every(e.columns), change[2] \in Domain(e, change[1])
  PROVE  Readable(e, Sent(r, change)) /\ IsRow(e, Sent(r, change))
<1>1. DOMAIN r = Every(e.columns)  BY DEF Agreed, IsShown, Typed
<1>2. Sent(r, change) = [c \in Every(e.columns) |->
                            IF c = change[1] THEN change[2] ELSE r[c]]
  BY <1>1 DEF Sent
<1>3. \A c \in Every(e.columns) : r[c] \in Domain(e, c)
  BY <1>1 DEF IsShown, Typed
<1> QED BY <1>2, <1>3 DEF Readable, Agreed, IsRow, Typed, Every

\* apply_update stores what the body says, in every column.
LEMMA UpdatesStoreTheBody ==
  ASSUME NEW e, Agreed(e), NEW old, NEW sent, IsRow(e, sent)
  PROVE  ApplyUpdate(e, old, sent) = sent
<1>1. Read(e, sent) = [c \in Every(e.columns) |-> sent[c]]
  BY DEF Read, Agreed, IsRow, Typed, Every
<1> QED BY <1>1 DEF ApplyUpdate, Agreed, IsRow, Typed

\* A readable body makes a row.
LEMMA CreatesMakeRows ==
  ASSUME NEW e, Agreed(e), NEW sent, IsFilled(e, sent), Readable(e, sent)
  PROVE  IsRow(e, FromCreate(e, sent))
<1>1. \A c \in Every(e.columns) : Read(e, sent)[c] \in Domain(e, c)
  <2> SUFFICES ASSUME NEW c \in Every(e.columns)
               PROVE  Read(e, sent)[c] \in Domain(e, c)
    OBVIOUS
  <2>1. Read(e, sent)[c] = IF c \in DOMAIN sent THEN sent[c] ELSE "null"
    BY DEF Read, Agreed, Every
  <2>2. c \notin DOMAIN sent => c \in e.columns.optional
    BY DEF Readable, Agreed, Every
  <2> QED BY <2>1, <2>2 DEF IsFilled, Domain
<1> QED BY <1>1 DEF FromCreate, Agreed, IsRow, Typed

\* A builder given its required columns makes a row.
LEMMA BuildersMakeRows ==
  ASSUME NEW e, NEW given, IsFilled(e, given)
  PROVE  IsRow(e, Build(e, given))
<1>1. \A c \in Every(e.columns) : Unset(e, c) \in Domain(e, c)
  BY DEF Unset, Domain
<1> QED BY <1>1 DEF Build, IsRow, Typed, IsFilled

-----------------------------------------------------------------------------
(* StoreInv, action by action.                                             *)

\* What the guard lets through brings in no breach that was not there before.
LEMMA GuardedRowsStayForeign ==
  ASSUME NEW old, NEW after, old = Absent \/ Foreign(old), Refused(entity, old, after) = {}
  PROVE  Foreign(after)
<1> SUFFICES ASSUME NEW rule \in entity.rules, Breaks(after, rule)
             PROVE  rule \in outside
  BY DEF Foreign
<1>1. old # Absent /\ old[rule[1]] = after[rule[1]]
  BY DEF Refused, Absent
<1>2. Breaks(old, rule)  BY <1>1 DEF Breaks
<1> QED BY <1>1, <1>2 DEF Foreign

\* The call of a session ends.
Ends(s) ==
    /\ pc' = [pc EXCEPT ![s] = "idle"]
    /\ edit' = edit \/ edit' = [edit EXCEPT ![s] = <<>>]
    /\ before' = before \/ before' = [before EXCEPT ![s] = Absent]
    /\ UNCHANGED <<entity, focus, checks, outside>>

LEMMA EndsTyped ==
  ASSUME TypeOK, NEW s \in Sessions, Ends(s)
  PROVE  /\ pc' \in [Sessions -> {"idle", "store"}]
         /\ DOMAIN before' = Sessions /\ DOMAIN edit' = Sessions
         /\ pc'[s] = "idle"
         /\ \A u \in Sessions : u # s =>
                /\ pc'[u] = pc[u] /\ before'[u] = before[u] /\ edit'[u] = edit[u]
         /\ \A u \in Sessions : before'[u] = Absent \/ IsRow(entity, before'[u])
         /\ \A u \in Sessions : edit'[u] = <<>> \/ edit'[u] \in Edits
BY DEF TypeOK, Ends

\* A service's write, refused or not, of a row that holds its types.
LEMMA WriteKeeps ==
  ASSUME StoreInv, NEW s \in Sessions, NEW old, NEW after, NEW done \in Answers,
         IsRow(entity, after), old = Absent \/ Foreign(old),
         Write(s, old, after, done), Ends(s)
  PROVE  StoreInv'
<1> USE DEF StoreInv
<1>1. Agreed(entity)  BY EntitiesAgree DEF TypeOK
<1>2. entity' = entity /\ focus' = focus /\ checks' = checks /\ outside' = outside
  BY DEF Ends
<1>3. Edits' = Edits  BY <1>2 DEF Edits
<1>4. answer' \in [Sessions -> Answers] /\ \A u \in Sessions : u # s => answer'[u] = answer[u]
  BY DEF Write, Answer, TypeOK, Answers
<1>5. /\ pc' \in [Sessions -> {"idle", "store"}]
      /\ DOMAIN before' = Sessions /\ DOMAIN edit' = Sessions
      /\ pc'[s] = "idle"
  BY EndsTyped
<1>6. \A u \in Sessions : u # s =>
         pc'[u] = pc[u] /\ before'[u] = before[u] /\ edit'[u] = edit[u]
  BY EndsTyped
<1>7. \A u \in Sessions : /\ before'[u] = Absent \/ IsRow(entity', before'[u])
                          /\ edit'[u] = <<>> \/ edit'[u] \in Edits'
  <2>1. \A u \in Sessions : before'[u] = Absent \/ IsRow(entity, before'[u])
    BY EndsTyped
  <2>2. \A u \in Sessions : edit'[u] = <<>> \/ edit'[u] \in Edits
    BY EndsTyped
  <2> QED BY <1>2, <1>3, <2>1, <2>2
<1>8. CASE UNCHANGED <<row, seen, fresh>>
  <2>1. TypeOK'
    BY <1>2, <1>3, <1>4, <1>5, <1>7, <1>8 DEF TypeOK
  <2>2. RowInv'  BY <1>2, <1>8 DEF RowInv, Foreign, Keeps
  <2>3. ASSUME NEW u \in Sessions PROVE SessionInv(u)'
    <3>1. CASE u = s
      BY <1>2, <1>5, <1>8, <3>1 DEF SessionInv
    <3>2. CASE u # s
      BY <1>2, <1>3, <1>4, <1>6, <1>8, <3>2 DEF SessionInv, Storing, Foreign
    <3> QED BY <3>1, <3>2
  <2> QED BY <2>1, <2>2, <2>3
<1>9. CASE /\ Refused(entity, old, after) = {}
           /\ ~ Fails(after)
           /\ row' = after
           /\ seen' = [seen EXCEPT ![s] = Shown(entity, after)]
           /\ fresh' = [u \in Sessions |-> u = s]
  <2>1. after # Absent  BY <1>1, RowsArePresent
  <2>2. Shown(entity, after) = after /\ IsShown(entity, after)
    BY <1>1, ResponsesShowTheRow
  <2>3. after = seen'[s] /\ DOMAIN seen' = Sessions
        /\ \A u \in Sessions : u # s => seen'[u] = seen[u]
    BY <1>9, <2>2 DEF TypeOK
  <2>4. TypeOK'
    <3>1. row' = Absent \/ IsRow(entity', row')  BY <1>2, <1>9
    <3>2. fresh' \in [Sessions -> BOOLEAN]  BY <1>9
    <3>3. \A u \in Sessions : seen'[u] = Absent \/ IsShown(entity', seen'[u])
      BY <1>2, <2>2, <2>3 DEF TypeOK
    <3> QED BY <1>2, <1>4, <1>5, <1>7, <2>3, <3>1, <3>2, <3>3 DEF TypeOK
  <2>5. Foreign(after)  BY <1>9, GuardedRowsStayForeign
  <2>6. RowInv'
    BY <1>2, <1>9, <2>5 DEF RowInv, Foreign, Keeps, Fails
  <2>7. ASSUME NEW u \in Sessions PROVE SessionInv(u)'
    <3>1. CASE u = s
      BY <1>2, <1>5, <1>9, <2>1, <2>2, <2>3, <3>1 DEF SessionInv
    <3>2. CASE u # s
      <4>1. fresh'[u] = FALSE  BY <1>9, <3>2
      <4>2. pc[u] = "store" => Storing(u)  BY DEF SessionInv
      <4>3. row' # Absent  BY <1>9, <2>1
      <4>4. pc'[u] = "store" => Storing(u)'
        BY <1>2, <1>3, <1>4, <1>6, <2>3, <3>2, <4>1, <4>2, <4>3 DEF Storing, Foreign
      <4> QED BY <4>1, <4>3, <4>4 DEF SessionInv
    <3> QED BY <3>1, <3>2
  <2> QED BY <2>4, <2>6, <2>7
<1> QED BY <1>8, <1>9 DEF Write

LEMMA CreateKeeps ==
  ASSUME StoreInv, NEW s \in Sessions, NEW sent, IsFilled(entity, sent), Create(s, sent)
  PROVE  StoreInv'
<1>1. Agreed(entity)  BY EntitiesAgree DEF StoreInv, TypeOK
<1>2. Ends(s)  BY DEF StoreInv, TypeOK, Create, Ends
<1>3. CASE Readable(entity, sent)
  <2>1. IsRow(entity, FromCreate(entity, sent))
    BY <1>1, <1>3, CreatesMakeRows
  <2> QED BY <1>2, <1>3, <2>1, WriteKeeps DEF Create, Answers
<1>4. CASE ~ Readable(entity, sent)
  <2>1. UNCHANGED <<row, seen, fresh, entity, focus, checks, outside, pc, edit, before>>
        /\ answer' = [answer EXCEPT ![s] = "unreadable"] /\ pc[s] = "idle"
    BY <1>4 DEF Create, Answer
  <2>2. answer' \in [Sessions -> Answers]
        /\ \A u \in Sessions : pc[u] = "store" => answer'[u] = answer[u]
    BY <2>1 DEF StoreInv, TypeOK, Answers
  <2> QED BY <2>1, <2>2 DEF StoreInv, TypeOK, RowInv, SessionInv, Storing, Foreign, Keeps,
                            Edits
<1> QED BY <1>3, <1>4

LEMMA GetKeeps ==
  ASSUME StoreInv, NEW s \in Sessions, Get(s)
  PROVE  StoreInv'
<1> USE DEF StoreInv
<1>1. Agreed(entity)  BY EntitiesAgree DEF TypeOK
<1>2. /\ UNCHANGED <<entity, focus, row, checks, outside, pc, edit, before>>
      /\ pc[s] = "idle" /\ row # Absent
      /\ seen' = [seen EXCEPT ![s] = Shown(entity, row)]
      /\ fresh' = [fresh EXCEPT ![s] = TRUE]
      /\ answer' = [answer EXCEPT ![s] = "shown"]
  BY DEF Get, Answer
<1>3. Shown(entity, row) = row /\ IsShown(entity, row)
  BY <1>1, <1>2, ResponsesShowTheRow DEF TypeOK
<1>4. TypeOK'
  BY <1>2, <1>3 DEF TypeOK, Answers, Edits
<1>5. RowInv'  BY <1>2 DEF RowInv, Foreign, Keeps
<1>6. ASSUME NEW u \in Sessions PROVE SessionInv(u)'
  <2>1. CASE u = s  BY <1>2, <1>3, <2>1 DEF SessionInv, TypeOK
  <2>2. CASE u # s
    BY <1>2, <2>2 DEF SessionInv, Storing, Foreign, TypeOK, Edits
  <2> QED BY <2>1, <2>2
<1> QED BY <1>4, <1>5, <1>6

LEMMA PutKeeps ==
  ASSUME StoreInv, NEW s \in Sessions, NEW change \in Edits, Put(s, change)
  PROVE  StoreInv'
<1> USE DEF StoreInv
<1>1. Agreed(entity)  BY EntitiesAgree DEF TypeOK
<1>2. IsShown(entity, seen[s]) /\ seen[s] # Absent /\ row # Absent /\ pc[s] = "idle"
  BY DEF Put, SessionInv, TypeOK
<1>3. change[1] \in Every(entity.columns) /\ change[2] \in Domain(entity, change[1])
  BY DEF Edits, TypeOK
<1>4. Readable(entity, Sent(seen[s], change))
  BY <1>1, <1>2, <1>3, EditedRowsAreRows
<1>5. /\ edit' = [edit EXCEPT ![s] = change]
      /\ before' = [before EXCEPT ![s] = row]
      /\ pc' = [pc EXCEPT ![s] = "store"]
      /\ answer' = [answer EXCEPT ![s] = "none"]
      /\ UNCHANGED <<entity, focus, row, checks, outside, seen, fresh>>
  BY <1>4 DEF Put, Answer
<1>6. TypeOK'
  BY <1>2, <1>5 DEF TypeOK, Answers, Edits
<1>7. RowInv'  BY <1>5 DEF RowInv, Foreign, Keeps
<1>8. ASSUME NEW u \in Sessions PROVE SessionInv(u)'
  <2>1. CASE u = s
    BY <1>2, <1>5, <2>1 DEF SessionInv, Storing, RowInv, Foreign, TypeOK, Edits
  <2>2. CASE u # s
    BY <1>5, <2>2 DEF SessionInv, Storing, Foreign, TypeOK, Edits
  <2> QED BY <2>1, <2>2
<1> QED BY <1>6, <1>7, <1>8

LEMMA StoreKeeps ==
  ASSUME StoreInv, NEW s \in Sessions, Store(s)
  PROVE  StoreInv'
<1> DEFINE sent == Sent(seen[s], edit[s])
<1>1. Agreed(entity)  BY EntitiesAgree DEF StoreInv, TypeOK
<1>2. Storing(s) /\ IsShown(entity, seen[s])
  BY DEF StoreInv, SessionInv, Store, Storing, TypeOK
<1>3. IsRow(entity, sent)
  <2>1. edit[s][1] \in Every(entity.columns) /\ edit[s][2] \in Domain(entity, edit[s][1])
    BY <1>2 DEF Storing, Edits, StoreInv, TypeOK
  <2> QED BY <1>1, <1>2, <2>1, EditedRowsAreRows
<1>4. ApplyUpdate(entity, before[s], sent) = sent
  BY <1>1, <1>3, UpdatesStoreTheBody
<1>5. Write(s, before[s], sent, "updated") /\ Ends(s)
  BY <1>4 DEF Store, Ends
<1>6. Foreign(before[s]) /\ "updated" \in Answers  BY <1>2 DEF Storing, Answers
<1> HIDE DEF sent
<1> QED BY <1>3, <1>5, <1>6, WriteKeeps

LEMMA AbortKeeps ==
  ASSUME StoreInv, NEW s \in Sessions, Abort(s)
  PROVE  StoreInv'
<1> USE DEF StoreInv
<1>1. Ends(s) /\ UNCHANGED <<row, seen, answer, fresh>>  BY DEF Abort, Ends
<1>2. entity' = entity /\ focus' = focus /\ checks' = checks /\ outside' = outside
  BY <1>1 DEF Ends
<1>3. Edits' = Edits  BY <1>2 DEF Edits
<1>4. /\ pc' \in [Sessions -> {"idle", "store"}]
      /\ DOMAIN before' = Sessions /\ DOMAIN edit' = Sessions
      /\ pc'[s] = "idle"
  BY <1>1, EndsTyped
<1>5. \A u \in Sessions : u # s =>
         pc'[u] = pc[u] /\ before'[u] = before[u] /\ edit'[u] = edit[u]
  BY <1>1, EndsTyped
<1>6. \A u \in Sessions : /\ before'[u] = Absent \/ IsRow(entity', before'[u])
                          /\ edit'[u] = <<>> \/ edit'[u] \in Edits'
  <2>1. \A u \in Sessions : before'[u] = Absent \/ IsRow(entity, before'[u])
    BY <1>1, EndsTyped
  <2>2. \A u \in Sessions : edit'[u] = <<>> \/ edit'[u] \in Edits
    BY <1>1, EndsTyped
  <2> QED BY <1>2, <1>3, <2>1, <2>2
<1>7. TypeOK'  BY <1>1, <1>2, <1>4, <1>6 DEF TypeOK
<1>8. RowInv'  BY <1>1, <1>2 DEF RowInv, Foreign, Keeps
<1>9. ASSUME NEW u \in Sessions PROVE SessionInv(u)'
  <2>1. CASE u = s  BY <1>1, <1>2, <1>4, <2>1 DEF SessionInv
  <2>2. CASE u # s
    BY <1>1, <1>2, <1>3, <1>5, <2>2 DEF SessionInv, Storing, Foreign
  <2> QED BY <2>1, <2>2
<1> QED BY <1>7, <1>8, <1>9

\* A write past the guard leaves its breaches on record.
LEMMA UnguardedKeeps ==
  ASSUME StoreInv, NEW after, NEW columns, IsRow(entity, after), Unguarded(after, columns),
         \A rule \in entity.rules : Breaks(after, rule) /\ rule[1] \notin columns =>
            rule \in outside
  PROVE  StoreInv'
<1> USE DEF StoreInv
<1>1. Agreed(entity)  BY EntitiesAgree DEF TypeOK
<1>2. /\ UNCHANGED <<entity, focus, checks, pc, seen, edit, before, answer>>
      /\ ~ Fails(after) /\ row' = after /\ outside \subseteq outside'
      /\ outside' = outside \union {rule \in entity.rules : /\ rule[1] \in columns
                                                            /\ Breaks(after, rule)}
      /\ fresh' = [u \in Sessions |-> FALSE]
  BY DEF Unguarded
<1>3. after # Absent  BY <1>1, RowsArePresent
<1>4. Edits' = Edits  BY <1>2 DEF Edits
<1>5. TypeOK'  BY <1>2, <1>4 DEF TypeOK
<1>6. Foreign(after)'
  <2> SUFFICES ASSUME NEW rule \in entity.rules, Breaks(after, rule)
               PROVE  rule \in outside'
    BY <1>2 DEF Foreign, Breaks
  <2> QED BY <1>2
<1>7. Keeps(after)'  BY <1>2 DEF Keeps, Fails, Breaks
<1>8. RowInv'  BY <1>2, <1>6, <1>7 DEF RowInv, Foreign, Keeps
<1>9. ASSUME NEW u \in Sessions PROVE SessionInv(u)'
  BY <1>2, <1>3, <1>4 DEF SessionInv, Storing, Foreign
<1> QED BY <1>5, <1>8, <1>9

LEMMA BuildKeeps ==
  ASSUME StoreInv, NEW given, IsFilled(entity, given), BuildAndInsert(given)
  PROVE  StoreInv'
<1>1. IsRow(entity, Build(entity, given))  BY BuildersMakeRows
<1>2. \A rule \in entity.rules : rule[1] \in Every(entity.columns)
  BY DEF StoreInv, TypeOK, Entities, PolicyRules, StepRules, DelegationRules, Every,
         PolicyColumns, StepColumns, DelegationColumns
<1>3. Unguarded(Build(entity, given), Every(entity.columns))  BY DEF BuildAndInsert
<1> QED BY <1>1, <1>2, <1>3, UnguardedKeeps

LEMMA EngineKeeps ==
  ASSUME StoreInv, NEW columns, NEW written,
         \A c \in columns \intersect focus : written[c] \in Domain(entity, c),
         EngineUpdates(columns, written)
  PROVE  StoreInv'
<1> DEFINE after == [c \in Every(entity.columns) |->
                       IF c \in columns \intersect focus THEN written[c] ELSE row[c]]
<1>1. row # Absent /\ IsRow(entity, row) /\ Unguarded(after, columns) /\ Foreign(row)
  BY DEF StoreInv, TypeOK, RowInv, EngineUpdates
<1>2. IsRow(entity, after)  BY <1>1 DEF IsRow, Typed
<1>3. ASSUME NEW rule \in entity.rules, Breaks(after, rule), rule[1] \notin columns
      PROVE  rule \in outside
  <2>1. rule[1] \in Every(entity.columns)
    BY DEF StoreInv, TypeOK, Entities, PolicyRules, StepRules, DelegationRules, Every,
           PolicyColumns, StepColumns, DelegationColumns
  <2>2. Breaks(row, rule)  BY <1>3, <2>1 DEF Breaks
  <2> QED BY <1>1, <2>2 DEF Foreign
<1> HIDE DEF after
<1> QED BY <1>1, <1>2, <1>3, UnguardedKeeps

LEMMA MigrateKeeps ==
  ASSUME StoreInv, NEW rule \in entity.checks, Migrate(rule)
  PROVE  StoreInv'
<1> USE DEF StoreInv
<1>1. /\ UNCHANGED <<entity, focus, row, outside, pc, seen, edit, before, answer, fresh>>
      /\ checks' = checks \union {rule} /\ (row # Absent => ~ Breaks(row, rule))
  BY DEF Migrate
<1>2. TypeOK'  BY <1>1 DEF TypeOK, Edits
<1>3. RowInv'  BY <1>1 DEF RowInv, Foreign, Keeps
<1>4. \A u \in Sessions : SessionInv(u)'
  BY <1>1 DEF SessionInv, Storing, Foreign, Edits
<1> QED BY <1>2, <1>3, <1>4

\* Everything somebody fills in holds its types.
LEMMA FilledHoldsTypes ==
  ASSUME NEW columns, NEW given \in Filled(columns)
  PROVE  DOMAIN given = columns /\ \A c \in columns : given[c] \in Domain(entity, c)
BY DEF Filled, Domain

LEMMA InitStoreInv == Init => StoreInv
<1> SUFFICES ASSUME Init PROVE StoreInv
  OBVIOUS
<1>1. TypeOK  BY DEF Init, TypeOK, Answers
<1>2. RowInv /\ \A s \in Sessions : SessionInv(s)
  BY DEF Init, RowInv, SessionInv
<1> QED BY <1>1, <1>2 DEF StoreInv

LEMMA NextStoreInv == StoreInv /\ [Next]_vars => StoreInv'
<1> SUFFICES ASSUME StoreInv, [Next]_vars PROVE StoreInv'
  OBVIOUS
<1>1. CASE UNCHANGED vars
  BY <1>1 DEF vars, StoreInv, TypeOK, Edits, RowInv, SessionInv, Storing, Foreign, Keeps
<1>2. ASSUME NEW s \in Sessions, Call(s) PROVE StoreInv'
  <2>1. ASSUME NEW missing \in SUBSET focus,
               NEW sent \in Filled(Every(entity.columns) \ missing), Create(s, sent)
        PROVE  StoreInv'
    <3>1. IsFilled(entity, sent)  BY FilledHoldsTypes DEF IsFilled
    <3> QED BY <2>1, <3>1, CreateKeeps
  <2>2. CASE Get(s)  BY <2>2, GetKeeps
  <2>3. ASSUME NEW change \in Edits, Put(s, change) PROVE StoreInv'
    BY <2>3, PutKeeps
  <2>4. CASE Store(s)  BY <2>4, StoreKeeps
  <2>5. CASE Abort(s)  BY <2>5, AbortKeeps
  <2> QED BY <1>2, <2>1, <2>2, <2>3, <2>4, <2>5 DEF Call
<1>3. CASE Host
  <2>1. PICK missing \in SUBSET focus :
            \E given \in Filled(Every(entity.columns) \ missing) : BuildAndInsert(given)
    BY <1>3 DEF Host
  <2> PICK given \in Filled(Every(entity.columns) \ missing) : BuildAndInsert(given)
    BY <2>1
  <2>2. IsFilled(entity, given)  BY FilledHoldsTypes DEF IsFilled
  <2> QED BY <2>2, BuildKeeps
<1>4. CASE Engine
  <2>1. PICK columns \in entity.updates :
            \E written \in Filled(columns) : EngineUpdates(columns, written)
    BY <1>4 DEF Engine
  <2> PICK written \in Filled(columns) : EngineUpdates(columns, written)
    BY <2>1
  <2>2. \A c \in columns \intersect focus : written[c] \in Domain(entity, c)
    BY FilledHoldsTypes
  <2> QED BY <2>2, EngineKeeps
<1>5. CASE Migration  BY <1>5, MigrateKeeps DEF Migration
<1> QED BY <1>1, <1>2, <1>3, <1>4, <1>5 DEF Next

LEMMA StoreInvHolds == Spec => []StoreInv
BY InitStoreInv, NextStoreInv, PTL DEF Spec

-----------------------------------------------------------------------------
(* The properties.                                                         *)

\* Rows, what clients hold of them and answers keep their types, whichever columns change.
THEOREM StoreTypeCorrect == Spec => []TypeOK
<1>1. StoreInv => TypeOK  BY DEF StoreInv
<1> QED BY <1>1, StoreInvHolds, PTL

\* No order of creates and PUTs, against whatever row they were judged, brings in a breach
\* of a declared rule that did not come in past the services.
THEOREM BreachesAreForeign == Spec => []BreachIsForeign
<1>1. StoreInv => BreachIsForeign  BY DEF StoreInv, RowInv, Foreign, BreachIsForeign
<1> QED BY <1>1, StoreInvHolds, PTL

\* A PUT of what a response has shown, one column changed, changes that column only.
THEOREM EditsStayLocal == Spec => EditsAreLocal
<1> DEFINE Local(s) ==
      /\ pc[s] = "store" /\ pc'[s] = "idle" /\ answer'[s] = "updated" /\ fresh[s] =>
            row' = [c \in Every(entity.columns) |->
                      IF c = edit[s][1] THEN edit[s][2] ELSE row[c]]
      /\ answer'[s] = "unreadable" /\ answer[s] # "unreadable" => row = Absent
<1>1. StoreInv /\ [Next]_vars => [\A s \in Sessions : Local(s)]_vars
  <2> SUFFICES ASSUME StoreInv, Next, NEW s \in Sessions PROVE Local(s)
    OBVIOUS
  <2>1. Agreed(entity)  BY EntitiesAgree DEF StoreInv, TypeOK
  <2>2. answer \in [Sessions -> Answers] /\ pc \in [Sessions -> {"idle", "store"}]
    BY DEF StoreInv, TypeOK
  <2>3. ASSUME UNCHANGED <<pc, answer>> PROVE Local(s)
    BY <2>3
  <2>4. ASSUME NEW u \in Sessions, NEW sent, Create(u, sent) PROVE Local(s)
    <3>1. pc' = pc /\ row = Absent  BY <2>4 DEF Create
    <3> QED BY <3>1
  <2>5. ASSUME NEW u \in Sessions, Get(u) PROVE Local(s)
    BY <2>2, <2>5 DEF Get, Answer
  <2>6. ASSUME NEW u \in Sessions, NEW change \in Edits, Put(u, change) PROVE Local(s)
    <3>1. IsShown(entity, seen[u]) /\ change[1] \in Every(entity.columns)
          /\ change[2] \in Domain(entity, change[1])
      BY <2>6 DEF StoreInv, TypeOK, Put, Edits
    <3>2. Readable(entity, Sent(seen[u], change))
      BY <2>1, <3>1, EditedRowsAreRows
    <3>3. answer' = [answer EXCEPT ![u] = "none"] /\ pc' = [pc EXCEPT ![u] = "store"]
      BY <2>6, <3>2 DEF Put, Answer
    <3> QED BY <2>2, <3>3
  <2>7. ASSUME NEW u \in Sessions, Store(u) PROVE Local(s)
    <3>1. Storing(u) /\ SessionInv(u) /\ IsShown(entity, seen[u]) /\ IsRow(entity, row)
      BY <2>7 DEF StoreInv, SessionInv, Store, Storing, TypeOK
    <3>2. IsRow(entity, Sent(seen[u], edit[u]))
      <4>1. edit[u][1] \in Every(entity.columns)
            /\ edit[u][2] \in Domain(entity, edit[u][1])
        BY <3>1 DEF Storing, Edits, StoreInv, TypeOK
      <4> QED BY <2>1, <3>1, <4>1, EditedRowsAreRows
    <3>3. Write(u, before[u], Sent(seen[u], edit[u]), "updated")
          /\ pc' = [pc EXCEPT ![u] = "idle"]
      BY <2>1, <2>7, <3>2, UpdatesStoreTheBody DEF Store
    <3>4. CASE s # u
      <4>1. answer'[s] = answer[s] /\ pc'[s] = pc[s]
        BY <2>2, <3>3, <3>4 DEF Write, Answer
      <4> QED BY <2>2, <4>1
    <3>5. CASE s = u
      <4>1. answer'[s] # "unreadable"  BY <2>2, <3>3, <3>5 DEF Write, Answer
      <4>2. ASSUME answer'[s] = "updated", fresh[s]
            PROVE  row' = [c \in Every(entity.columns) |->
                             IF c = edit[s][1] THEN edit[s][2] ELSE row[c]]
        <5>1. row' = Sent(seen[s], edit[s])
          BY <2>2, <3>3, <3>5, <4>2 DEF Write, Answer
        <5>2. seen[s] = row
          BY <2>1, <3>1, <3>5, <4>2, ResponsesShowTheRow DEF SessionInv
        <5> QED BY <3>1, <5>1, <5>2 DEF Sent, IsRow, Typed
      <4> QED BY <4>1, <4>2
    <3> QED BY <3>4, <3>5
  <2>8. ASSUME NEW u \in Sessions, Abort(u) PROVE Local(s)
    <3>1. answer' = answer /\ pc' = [pc EXCEPT ![u] = "idle"]  BY <2>8 DEF Abort
    <3>2. pc[s] = "store" => answer[s] = "none"
      BY DEF StoreInv, SessionInv, Storing
    <3> QED BY <3>1, <3>2
  <2>9. Host \/ Engine \/ Migration => UNCHANGED <<pc, answer>>
    BY DEF Host, BuildAndInsert, Engine, EngineUpdates, Unguarded, Migration, Migrate
  <2> QED BY <2>3, <2>4, <2>5, <2>6, <2>7, <2>8, <2>9 DEF Next, Call
<1> QED BY <1>1, StoreInvHolds, PTL DEF Spec, EditsAreLocal

\* A CHECK refuses a write the guard let through only for a row that was in breach when the
\* write was judged, and has been written and migrated since.
THEOREM BackstopsAreForStaleRows == Spec => BackstopIsForStaleRows
<1> DEFINE Stale(s) ==
      answer'[s] = "database_error" /\ answer[s] # "database_error" =>
        /\ pc[s] = "store" /\ before[s] # row
        /\ \E rule \in checks : Breaks(before[s], rule)
<1>1. StoreInv /\ [Next]_vars => [\A s \in Sessions : Stale(s)]_vars
  <2> SUFFICES ASSUME StoreInv, Next, NEW s \in Sessions PROVE Stale(s)
    OBVIOUS
  <2>1. Agreed(entity) /\ checks \subseteq entity.rules
    BY EntitiesAgree DEF StoreInv, TypeOK, Agreed
  <2>2. answer \in [Sessions -> Answers]  BY DEF StoreInv, TypeOK
  <2>3. ASSUME NEW u \in Sessions, NEW old, NEW after, NEW done \in {"created", "updated"},
               Write(u, old, after, done), answer'[s] = "database_error",
               answer[s] # "database_error"
        PROVE  u = s /\ \E rule \in checks : Breaks(old, rule) /\ old # Absent
    <3>1. u = s  BY <2>2, <2>3 DEF Write, Answer
    <3>2. Refused(entity, old, after) = {} /\ Fails(after)
      BY <2>2, <2>3 DEF Write, Answer
    <3>3. PICK rule \in checks : Breaks(after, rule)  BY <3>2 DEF Fails
    <3>4. old # Absent /\ old[rule[1]] = after[rule[1]]
      BY <2>1, <3>2, <3>3 DEF Refused, Absent
    <3> QED BY <3>1, <3>3, <3>4 DEF Breaks
  <2>4. ASSUME NEW u \in Sessions, NEW sent, Create(u, sent) PROVE Stale(s)
    <3>1. CASE answer' = [answer EXCEPT ![u] = "unreadable"]  BY <2>2, <3>1
    <3>2. CASE Write(u, Absent, FromCreate(entity, sent), "created")
      BY <2>3, <3>2
    <3> QED BY <2>4, <3>1, <3>2 DEF Create, Answer
  <2>5. ASSUME NEW u \in Sessions, Store(u) PROVE Stale(s)
    <3>1. Write(u, before[u],
                ApplyUpdate(entity, before[u], Sent(seen[u], edit[u])), "updated")
      BY <2>5 DEF Store
    <3>2. row # Absent /\ Keeps(row)
      BY <2>5 DEF StoreInv, SessionInv, Storing, Store, RowInv
    <3> QED BY <2>3, <2>5, <3>1, <3>2 DEF Store, Keeps
  <2>6. ASSUME NEW u \in Sessions, Get(u) PROVE Stale(s)
    BY <2>2, <2>6 DEF Get, Answer
  <2>7. ASSUME NEW u \in Sessions, NEW change \in Edits, Put(u, change) PROVE Stale(s)
    BY <2>2, <2>7 DEF Put, Answer
  <2>8. ASSUME NEW u \in Sessions, Abort(u) PROVE Stale(s)
    BY <2>8 DEF Abort
  <2>9. Host \/ Engine \/ Migration => answer' = answer
    BY DEF Host, BuildAndInsert, Engine, EngineUpdates, Unguarded, Migration, Migrate
  <2> QED BY <2>4, <2>5, <2>6, <2>7, <2>8, <2>9 DEF Next, Call
<1> QED BY <1>1, StoreInvHolds, PTL DEF Spec, BackstopIsForStaleRows
=============================================================================
