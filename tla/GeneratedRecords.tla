-------------------------- MODULE GeneratedRecords --------------------------
(***************************************************************************)
(* The five tables and the generated code around them, each list of        *)
(* columns as its own code spells it: the entity, its builder, the body of *)
(* a create or a PUT, the conversions, the rules of the write guard, the   *)
(* CHECKs of the migration, and the UPDATEs the engine sends past all of   *)
(* them.  id and metadata are nobody's to send; a value is only told apart *)
(* by what this code asks of it.  The rules that ask a Uuid to be there    *)
(* and not blank are left out: no row of these types can break them.       *)
(***************************************************************************)

\* always: the columns of every row; optional: an Option of the entity.
Every(columns) == columns.always \union columns.optional

-----------------------------------------------------------------------------
(* ApprovalPolicy                                                          *)

PolicyColumns  == [always   |-> {"resource_type", "name", "status"},
                   optional |-> {"description"}]
PolicyRequired == {"resource_type", "name"}          \* build() refuses without them
PolicyBody     == [asked |-> {"resource_type", "name", "status"},
                   free  |-> {"description"}]        \* free: an Option, may be left out
PolicyCreated  == {"resource_type", "name", "status", "description"}
PolicyUpdated  == {"resource_type", "name", "status", "description"}
PolicyShown    == {"resource_type", "name", "status", "description"}
PolicyRules    == {<<"name", "blank">>, <<"name", "long">>, <<"description", "long">>}
PolicyChecks   == {<<"name", "blank">>, <<"name", "long">>, <<"description", "long">>}

-----------------------------------------------------------------------------
(* ApprovalRequest: its rules ask for Uuids only.                          *)

RequestColumns  == [always   |-> {"resource_type", "resource_id", "requested_by",
                                  "status", "priority"},
                    optional |-> {"policy_id", "current_step", "submitted_at",
                                  "decided_at", "decided_by", "summary"}]
RequestRequired == {"resource_type", "resource_id", "requested_by"}
RequestBody     == [asked |-> {"resource_type", "resource_id", "requested_by", "status",
                               "priority"},
                    free  |-> {"policy_id", "current_step", "submitted_at", "decided_at",
                               "decided_by", "summary"}]
RequestCreated  == {"resource_type", "resource_id", "policy_id", "requested_by", "status",
                    "current_step", "priority", "submitted_at", "decided_at",
                    "decided_by", "summary"}
RequestUpdated  == {"resource_type", "resource_id", "policy_id", "requested_by", "status",
                    "current_step", "priority", "submitted_at", "decided_at",
                    "decided_by", "summary"}
RequestShown    == {"resource_type", "resource_id", "policy_id", "requested_by", "status",
                    "current_step", "priority", "submitted_at", "decided_at",
                    "decided_by", "summary"}
\* set_current_step, finish_request, withdraw_request.
RequestUpdates  == {{"current_step"}, {"status", "decided_at", "decided_by"},
                    {"status", "decided_at"}}

-----------------------------------------------------------------------------
(* ApprovalStep                                                            *)

StepColumns  == [always   |-> {"request_id", "step_no", "approver_kind", "assigned_to",
                               "status"},
                 optional |-> {"approver_ref", "delegated_from", "acted_at", "comment",
                               "sla_due_at"}]
StepRequired == {"request_id", "step_no", "approver_kind", "assigned_to"}
StepBody     == [asked |-> {"request_id", "step_no", "approver_kind", "assigned_to",
                            "status"},
                 free  |-> {"approver_ref", "delegated_from", "acted_at", "comment",
                            "sla_due_at"}]
StepCreated  == {"request_id", "step_no", "approver_kind", "approver_ref", "assigned_to",
                 "delegated_from", "status", "acted_at", "comment", "sla_due_at"}
StepUpdated  == {"request_id", "step_no", "approver_kind", "approver_ref", "assigned_to",
                 "delegated_from", "status", "acted_at", "comment", "sla_due_at"}
StepShown    == {"request_id", "step_no", "approver_kind", "approver_ref", "assigned_to",
                 "delegated_from", "status", "acted_at", "comment", "sla_due_at"}
RulesButComment == {}                                 \* a rule the service forgot
StepRules    == {<<"comment", "long">>}
StepChecks   == {<<"comment", "long">>}
\* mark_step_decided, escalate_step, the two skips.
StepUpdates  == {{"status", "acted_at", "comment", "delegated_from"},
                 {"assigned_to", "delegated_from"}, {"status", "acted_at"}}

-----------------------------------------------------------------------------
(* ApprovalStepTemplate: its rule asks for a Uuid only.                    *)

TemplateColumns  == [always   |-> {"policy_id", "step_no", "approver_kind"},
                     optional |-> {"approver_ref", "sla_hours", "all_of"}]
TemplateRequired == {"policy_id", "step_no", "approver_kind"}
TemplateBody     == [asked |-> {"policy_id", "step_no", "approver_kind"},
                     free  |-> {"approver_ref", "sla_hours", "all_of"}]
TemplateCreated  == {"policy_id", "step_no", "approver_kind", "approver_ref", "sla_hours",
                     "all_of"}
UpdatedButQuorum == {"policy_id", "step_no", "approver_kind", "approver_ref", "sla_hours"}
TemplateUpdated  == {"policy_id", "step_no", "approver_kind", "approver_ref", "sla_hours",
                     "all_of"}
TemplateShown    == {"policy_id", "step_no", "approver_kind", "approver_ref", "sla_hours",
                     "all_of"}

-----------------------------------------------------------------------------
(* Delegation                                                              *)

DelegationColumns  == [always   |-> {"approver_id", "delegate_to_id", "valid_from",
                                     "valid_to", "status"},
                       optional |-> {"reason"}]
DelegationRequired == {"approver_id", "delegate_to_id", "valid_from", "valid_to"}
DelegationBody     == [asked |-> {"approver_id", "delegate_to_id", "valid_from",
                                  "valid_to", "status"},
                       free  |-> {"reason"}]
DelegationCreated  == {"approver_id", "delegate_to_id", "valid_from", "valid_to",
                       "reason", "status"}
DelegationUpdated  == {"approver_id", "delegate_to_id", "valid_from", "valid_to",
                       "reason", "status"}
DelegationShown    == {"approver_id", "delegate_to_id", "valid_from", "valid_to",
                       "reason", "status"}
DelegationRules    == {<<"reason", "long">>}
DelegationChecks   == {<<"reason", "long">>}
DelegationUpdates  == {{"status"}}                    \* revoke_delegation

-----------------------------------------------------------------------------

Entities ==
    {[columns |-> PolicyColumns, required |-> PolicyRequired, body |-> PolicyBody,
      created |-> PolicyCreated, updated |-> PolicyUpdated, shown |-> PolicyShown,
      rules |-> PolicyRules, checks |-> PolicyChecks, updates |-> {}],
     [columns |-> RequestColumns, required |-> RequestRequired, body |-> RequestBody,
      created |-> RequestCreated, updated |-> RequestUpdated, shown |-> RequestShown,
      rules |-> {}, checks |-> {}, updates |-> RequestUpdates],
     [columns |-> StepColumns, required |-> StepRequired, body |-> StepBody,
      created |-> StepCreated, updated |-> StepUpdated, shown |-> StepShown,
      rules |-> StepRules, checks |-> StepChecks, updates |-> StepUpdates],
     [columns |-> TemplateColumns, required |-> TemplateRequired, body |-> TemplateBody,
      created |-> TemplateCreated, updated |-> TemplateUpdated, shown |-> TemplateShown,
      rules |-> {}, checks |-> {}, updates |-> {}],
     [columns |-> DelegationColumns, required |-> DelegationRequired,
      body |-> DelegationBody, created |-> DelegationCreated,
      updated |-> DelegationUpdated, shown |-> DelegationShown,
      rules |-> DelegationRules, checks |-> DelegationChecks,
      updates |-> DelegationUpdates]}

\* What a column may hold: two values of its type, texts a rule may refuse, and NULL.
Texts == {"name", "description", "comment", "reason"}
Values == {"value", "other", "blank", "long", "null"}

Domain(e, c) == {"value", "other"}
    \union (IF c \in Texts THEN {"blank", "long"} ELSE {})
    \union (IF c \in e.columns.optional THEN {"null"} ELSE {})

Typed(e, columns, r) ==
    /\ DOMAIN r = columns /\ r = [c \in columns |-> r[c]]
    /\ \A c \in columns : r[c] \in Domain(e, c)

IsRow(e, r) == Typed(e, Every(e.columns), r)
IsShown(e, r) == Typed(e, e.shown, r)

\* A column nobody has given a value: None, or the default of its type.
Unset(e, c) == IF c \in e.columns.optional THEN "null" ELSE "value"

\* build, given the columns its caller has set; it refuses without the required ones.
Build(e, given) ==
    [c \in Every(e.columns) |-> IF c \in DOMAIN given THEN given[c] ELSE Unset(e, c)]

\* A body all of whose columns have a default.
ReadsAnything(e, sent) == TRUE

\* serde: an Option may be left out of a body, any other column of it may not.
Readable(e, sent) == e.body.asked \subseteq DOMAIN sent

Read(e, sent) ==
    [c \in e.body.asked \union e.body.free |->
        IF c \in DOMAIN sent THEN sent[c] ELSE "null"]

\* From<Create..Dto>.
FromCreate(e, sent) ==
    [c \in Every(e.columns) |-> IF c \in e.created THEN Read(e, sent)[c] ELSE Unset(e, c)]

\* apply_update: a column the client has left out of the body is cleared.
ApplyUpdate(e, row, sent) ==
    [c \in Every(e.columns) |-> IF c \in e.updated THEN Read(e, sent)[c] ELSE row[c]]

\* From<..> for ..ResponseDto.
Shown(e, row) == [c \in e.shown |-> row[c]]

Breaks(row, rule) == row[rule[1]] = rule[2]

\* A guard that looks at creates only.
RefusedOnCreate(e, before, after) ==
    IF before = <<>> THEN {rule \in e.rules : Breaks(after, rule)} ELSE {}

\* The write guard of the service (..RowRules): the rules a write would break in a column
\* that is new or has changed.  `before` is empty for a create.
Refused(e, before, after) ==
    {rule \in e.rules :
        /\ Breaks(after, rule)
        /\ before = <<>> \/ before[rule[1]] # after[rule[1]]}
=============================================================================
