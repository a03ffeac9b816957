----------------------------- MODULE ChainAdmin -----------------------------
(***************************************************************************)
(* The step templates of the policies, as operators edit them: several     *)
(* sessions run `replace_chain` at once, while single rows are created,    *)
(* rewritten, deleted and restored through the generated CRUD, and         *)
(* policies are deleted and restored.  One action per SQL statement, with  *)
(* one more for each row the UPDATE has to lock, at READ COMMITTED; the    *)
(* partial unique index on (policy_id, step_no) makes an INSERT wait for,  *)
(* or fail on, a row of the same number.                                   *)
(***************************************************************************)
EXTENDS ChainResolution, FiniteSets

CONSTANTS
    Admins,         \* database sessions: each runs one replacement at a time
    Rows,           \* template row ids, as drawn by Uuid::new_v4
    Policies,
    Employees,      \* who may be named in a quorum
    Proposals,      \* the chains an operator proposes, broken ones included
    EditedSteps,    \* what a single row may be rewritten to
    EditedNumbers,  \* the step numbers a single row may be given
    MaxChainSteps,  \* MAX_CHAIN_STEPS (20 in the code)
    NoPolicy, NoChain

\* One step of a proposed chain, its hours to decide up to the sign.
ChainStep ==
    [approver_kind : ApproverKind, approver_ref : Nat,
     quorum : {"absent", "members"}, all_of : Seq(Employees),
     sla_hours : {"absent", "positive", "not_positive"}]

ASSUME AdminAssumption ==
    /\ MaxChainSteps \in Nat \ {0}
    /\ NoPolicy \notin Policies
    /\ Proposals \subseteq Seq(ChainStep) /\ NoChain \notin Proposals
    /\ EditedSteps \subseteq ChainStep
    /\ EditedNumbers \subseteq Nat

VARIABLES
    templates,   \* the committed live rows of approval_step_templates
    policies,    \* the policies that are not deleted
    pc,          \* the next statement of each session's replacement
    tx,          \* its local variables, and the rows it has locked or written
    answer,      \* what the session's last replacement returned
    latest       \* history: the chain a policy was last given, if no single
                 \* row of it has been edited since that replacement's snapshot

vars == <<templates, policies, pc, tx, answer, latest>>

Vacant == [policy |-> NoPolicy, step_no |-> 0, step |-> <<>>]    \* an id not in use

TemplateRow == [policy : Policies, step_no : Nat, step : ChainStep]

\* Whatever the generated CRUD refuses or PostgreSQL answers is a database_error to
\* the caller; the model keeps the three causes apart.
Outcomes == {"none", "replaced", "invalid_approval_chain", "invalid_quorum",
             "unique_violation", "deadlock_detected", "connection_lost"}

Locals == [policy : Policies \union {NoPolicy},
           steps : Proposals \union {NoChain},
           seen : SUBSET Rows,        \* in the snapshot of retire_templates, not yet reached
           retired : SUBSET Rows,     \* updated by it, and locked until the end
           written : {w \in Seq(Rows) : Len(w) <= MaxChainSteps},    \* inserted
           edited : BOOLEAN,          \* history: a row edit in this policy since the
                                      \* snapshot of retire_templates
           overtaken : BOOLEAN,       \* history: another replacement of it since then
           late : SUBSET Rows]        \* history: its rows that either has written

NoCall == [policy |-> NoPolicy, steps |-> NoChain, seen |-> {}, retired |-> {},
           written |-> <<>>, edited |-> FALSE, overtaken |-> FALSE,
           late |-> {}]

PCs == {"idle", "exists", "retire", "lock", "insert", "commit"}

Init ==
    /\ templates = [r \in Rows |-> Vacant]
    /\ policies \in SUBSET Policies
    /\ pc = [a \in Admins |-> "idle"]
    /\ tx = [a \in Admins |-> NoCall]
    /\ answer = [a \in Admins |-> "none"]
    /\ latest = [p \in Policies |-> NoChain]

-----------------------------------------------------------------------------
(* check_chain.                                                            *)

\* A check that lets a quorum name somebody twice.
LenientFault(s) ==
    IF s.sla_hours = "not_positive" THEN "invalid_approval_chain"
    ELSE IF s.quorum = "members" /\ s.all_of = <<>> THEN "invalid_quorum"
    ELSE IF s.quorum = "absent" /\ s.approver_kind \in NeedsRef /\ s.approver_ref = NoRef
        THEN "invalid_approval_chain"
    ELSE "none"

\* What is wrong with one step, in the order check_chain asks.
StepFault(s) ==
    IF s.sla_hours = "not_positive" THEN "invalid_approval_chain"
    ELSE IF s.quorum = "members" /\ s.all_of = <<>> THEN "invalid_quorum"
    ELSE IF s.quorum = "members" /\ \E i, j \in DOMAIN s.all_of :
                                        i # j /\ s.all_of[i] = s.all_of[j]
        THEN "invalid_approval_chain"
    ELSE IF s.quorum = "absent" /\ s.approver_kind \in NeedsRef /\ s.approver_ref = NoRef
        THEN "invalid_approval_chain"
    ELSE "none"

\* A check that lets a chain hold one step more.
CheckOneLonger(steps) ==
    IF Len(steps) \notin 1..(MaxChainSteps + 1) THEN "invalid_approval_chain"
    ELSE IF \A i \in DOMAIN steps : StepFault(steps[i]) = "none" THEN "none"
    ELSE "invalid_approval_chain"

\* check_chain: the length, then the first step that has a fault.
check_chain(steps) ==
    IF Len(steps) \notin 1..MaxChainSteps THEN "invalid_approval_chain"
    ELSE IF \A i \in DOMAIN steps : StepFault(steps[i]) = "none" THEN "none"
    ELSE LET first == CHOOSE i \in DOMAIN steps :
                        /\ StepFault(steps[i]) # "none"
                        /\ \A j \in 1..(i - 1) : StepFault(steps[j]) = "none"
         IN  StepFault(steps[first])

\* as_template, as file reads it back.
as_template(n, s) ==
    [step_no |-> n, approver_kind |-> s.approver_kind, approver_ref |-> s.approver_ref,
     quorum |-> s.quorum, all_of |-> s.all_of, sla |-> s.sla_hours # "absent"]

-----------------------------------------------------------------------------
(* The table, its locks and its index.                                     *)

LiveOf(p) == {r \in Rows : templates[r].policy = p}

Live == {r \in Rows : templates[r].policy # NoPolicy}

Open(a) == pc[a] # "idle"

\* The number the next insert_template of a session takes.
NextNumber(a) == Len(tx[a].written) + 1

\* The session has inserted, and not committed, the row of policy p numbered n.
HasWritten(a, p, n) == tx[a].policy = p /\ n \in DOMAIN tx[a].written

\* Committed rows under one key of the index, ...
Keyed(p, n) == {r \in LiveOf(p) : templates[r].step_no = n}

\* ... and the sessions whose end decides whether the key is taken.
HoldingKey(p, n) ==
    {b \in Admins : HasWritten(b, p, n) \/ tx[b].retired \intersect Keyed(p, n) # {}}

LockedBy(r) == {b \in Admins : r \in tx[b].retired}

Written == UNION {{tx[b].written[i] : i \in DOMAIN tx[b].written} : b \in Admins}

\* Ids no statement has met.  A retired row that no open statement has seen is never
\* read again, so the model takes its id for a fresh one.
Fresh == Rows \ (Live \union Written \union UNION {tx[b].seen : b \in Admins})

Goto(a, label) == pc' = [pc EXCEPT ![a] = label]

\* The replacement moves on to its next statement.
Step(a, label, locals) ==
    /\ Goto(a, label)
    /\ tx' = [tx EXCEPT ![a] = locals]
    /\ UNCHANGED <<templates, policies, answer, latest>>

\* It returns; what it has written and not committed is undone.
Return(a, outcome) ==
    /\ Goto(a, "idle")
    /\ tx' = [tx EXCEPT ![a] = NoCall]
    /\ answer' = [answer EXCEPT ![a] = outcome]
    /\ UNCHANGED <<templates, policies, latest>>

-----------------------------------------------------------------------------
(* replace_chain                                                           *)

\* The call, and check_chain before anything is written.
Replace(a, p, steps) ==
    /\ pc[a] = "idle"
    /\ IF check_chain(steps) # "none"
       THEN Return(a, check_chain(steps))
       ELSE /\ Goto(a, "exists")
            /\ tx' = [tx EXCEPT ![a] = [NoCall EXCEPT !.policy = p, !.steps = steps]]
            /\ answer' = [answer EXCEPT ![a] = "none"]
            /\ UNCHANGED <<templates, policies, latest>>

\* policy_exists: of any status, as long as it is not deleted.
PolicyExists(a) ==
    /\ pc[a] = "exists"
    /\ IF tx[a].policy \in policies
       THEN Step(a, "retire", tx[a])
       ELSE Return(a, "invalid_approval_chain")

\* A retirement that finds the steps the new chain takes over, ...
RetireOverlap(a) ==
    /\ pc[a] = "retire"
    /\ Step(a, "lock", [tx[a] EXCEPT !.seen =
            {r \in LiveOf(tx[a].policy) : templates[r].step_no <= Len(tx[a].steps)}])

\* ... and one that leaves the last step as it is.
RetireButLast(a) ==
    /\ pc[a] = "retire"
    /\ Step(a, "lock", [tx[a] EXCEPT !.seen =
            {r \in LiveOf(tx[a].policy) : templates[r].step_no < Len(tx[a].steps)}])

\* retire_templates: the snapshot in which the UPDATE finds its rows, ...
RetireTemplates(a) ==
    /\ pc[a] = "retire"
    /\ Step(a, "lock", [tx[a] EXCEPT !.seen = LiveOf(tx[a].policy)])

\* ... each of them locked, in the order of the scan, and looked at again: a row that
\* has been retired, or given to another policy, meanwhile is left alone.
RetireRow(a) ==
    /\ pc[a] = "lock"
    /\ \E r \in tx[a].seen :
        /\ LockedBy(r) = {}
        /\ Step(a, "lock",
                IF r \in LiveOf(tx[a].policy)
                THEN [tx[a] EXCEPT !.seen = @ \ {r}, !.retired = @ \union {r}]
                ELSE [tx[a] EXCEPT !.seen = @ \ {r}])

RetireEnds(a) ==
    /\ pc[a] = "lock"
    /\ tx[a].seen = {}
    /\ Step(a, "insert", tx[a])

\* An INSERT that no index checks.
UncheckedInsert(a) ==
    /\ pc[a] = "insert"
    /\ \E r \in Fresh :
        LET written == Append(tx[a].written, r) IN
        Step(a, IF Len(written) = Len(tx[a].steps) THEN "commit" ELSE "insert",
             [tx[a] EXCEPT !.written = written])

\* insert_template of the next step, under a number nobody holds or is about to.
InsertTemplate(a) ==
    /\ pc[a] = "insert"
    /\ HoldingKey(tx[a].policy, NextNumber(a)) \ {a} = {}
    /\ Keyed(tx[a].policy, NextNumber(a)) \subseteq tx[a].retired
    /\ \E r \in Fresh :
        LET written == Append(tx[a].written, r) IN
        Step(a, IF Len(written) = Len(tx[a].steps) THEN "commit" ELSE "insert",
             [tx[a] EXCEPT !.written = written])

\* insert_template meets a committed live row of its number: the transaction is rolled back.
InsertConflict(a) ==
    /\ pc[a] = "insert"
    /\ HoldingKey(tx[a].policy, NextNumber(a)) \ {a} = {}
    /\ ~ Keyed(tx[a].policy, NextNumber(a)) \subseteq tx[a].retired
    /\ Return(a, "unique_violation")

\* The row a session has written as its n-th.
NewRow(a, n) == [policy |-> tx[a].policy, step_no |-> n, step |-> tx[a].steps[n]]

\* The rows after the commit: the retired ones gone, the written ones live.
AfterCommit(a) ==
    [r \in Rows |->
        IF \E n \in DOMAIN tx[a].written : tx[a].written[n] = r
        THEN NewRow(a, CHOOSE n \in DOMAIN tx[a].written : tx[a].written[n] = r)
        ELSE IF r \in tx[a].retired THEN Vacant
        ELSE templates[r]]

\* The open replacements of a policy whose snapshot is behind them.
PastSnapshot(p) == {b \in Admins : tx[b].policy = p /\ pc[b] \in {"lock", "insert", "commit"}}

\* The commit, and the answer; its acknowledgement may be lost on the way.
CommitChain(a) ==
    /\ pc[a] = "commit"
    /\ templates' = AfterCommit(a)
    /\ Goto(a, "idle")
    /\ tx' = [b \in Admins |->
                IF b = a THEN NoCall
                ELSE IF b \in PastSnapshot(tx[a].policy)
                THEN [tx[b] EXCEPT !.overtaken = TRUE, !.late = (@ \ tx[a].retired) \union
                            {tx[a].written[n] : n \in DOMAIN tx[a].written}]
                ELSE tx[b]]
    /\ \E outcome \in {"replaced", "connection_lost"} :
            answer' = [answer EXCEPT ![a] = outcome]
    /\ latest' = [latest EXCEPT ![tx[a].policy] =
                    IF tx[a].edited THEN NoChain ELSE tx[a].steps]
    /\ UNCHANGED policies

\* The connection is lost or the caller's future is dropped: at any await.
Abort(a) == Open(a) /\ Return(a, "connection_lost")

-----------------------------------------------------------------------------
(* Who waits for whom.                                                     *)

\* A statement waits for the session whose end it needs.
WaitsFor(a) ==
    IF pc[a] = "lock" /\ tx[a].seen # {} /\ \A r \in tx[a].seen : LockedBy(r) # {}
        THEN UNION {LockedBy(r) : r \in tx[a].seen}
    ELSE IF pc[a] = "insert" THEN HoldingKey(tx[a].policy, NextNumber(a)) \ {a}
    ELSE {}

\* PostgreSQL cancels one of two sessions that wait for each other.
CancelDeadlocked(a) ==
    /\ \E b \in WaitsFor(a) : a \in WaitsFor(b)
    /\ Return(a, "deadlock_detected")

-----------------------------------------------------------------------------
(* The generated CRUD: single statements on single rows.                   *)

\* The policies an edit of row r touches have no whole chain any more, and the
\* replacements of them that are past their snapshot may miss it.
Edit(r, touched) ==
    /\ latest' = [p \in Policies |-> IF p \in touched THEN NoChain ELSE latest[p]]
    /\ tx' = [b \in Admins |->
                IF \E p \in touched : b \in PastSnapshot(p)
                THEN [tx[b] EXCEPT !.edited = TRUE,
                        !.late = IF templates'[r].policy = tx[b].policy THEN @ \union {r}
                                 ELSE @ \ {r}]
                ELSE tx[b]]
    /\ UNCHANGED <<policies, pc, answer>>

KeyFree(p, n) == Keyed(p, n) = {} /\ HoldingKey(p, n) = {}

\* A row is created, or a retired one restored (an id some statement has seen).
CreateTemplate(r, p, n, s) ==
    /\ r \notin Live \union Written
    /\ KeyFree(p, n)
    /\ templates' = [templates EXCEPT ![r] = [policy |-> p, step_no |-> n, step |-> s]]
    /\ Edit(r, {p})

\* A PUT sets every column, policy_id and step_no among them.
UpdateTemplate(r, p, n, s) ==
    /\ r \in Live
    /\ LockedBy(r) = {}
    /\ Keyed(p, n) \subseteq {r}
    /\ HoldingKey(p, n) = {}
    /\ templates' = [templates EXCEPT ![r] = [policy |-> p, step_no |-> n, step |-> s]]
    /\ Edit(r, {p, templates[r].policy})

DeleteTemplate(r) ==
    /\ r \in Live
    /\ LockedBy(r) = {}
    /\ templates' = [templates EXCEPT ![r] = Vacant]
    /\ Edit(r, {templates[r].policy})

\* A policy is deleted (its templates stay) or restored.
TogglePolicy(p) ==
    /\ policies' = IF p \in policies THEN policies \ {p} ELSE policies \union {p}
    /\ UNCHANGED <<templates, pc, tx, answer, latest>>

-----------------------------------------------------------------------------

Proceed(a) == \/ PolicyExists(a) \/ RetireTemplates(a) \/ RetireRow(a) \/ RetireEnds(a)
              \/ InsertTemplate(a) \/ InsertConflict(a) \/ CommitChain(a)

Call(a) == \E p \in Policies, steps \in Proposals : Replace(a, p, steps)

EditRow(r) ==
    \/ \E p \in Policies, n \in EditedNumbers, s \in EditedSteps :
            CreateTemplate(r, p, n, s) \/ UpdateTemplate(r, p, n, s)
    \/ DeleteTemplate(r)

Next == \/ \E a \in Admins : Call(a) \/ Proceed(a) \/ Abort(a) \/ CancelDeadlocked(a)
        \/ \E r \in Rows : EditRow(r)
        \/ \E p \in Policies : TogglePolicy(p)

Spec == Init /\ [][Next]_vars

-----------------------------------------------------------------------------
(* Properties.                                                             *)

\* The type invariant.
TypeOK ==
    /\ templates \in [Rows -> TemplateRow \union {Vacant}]
    /\ policies \subseteq Policies
    /\ pc \in [Admins -> PCs]
    /\ tx \in [Admins -> Locals]
    /\ answer \in [Admins -> Outcomes]
    /\ latest \in [Policies -> Proposals \union {NoChain}]

\* However replacements and row edits interleave, a policy has one live row per
\* step number: what validate_chain and the engine's walk rely on.
OneRowPerStep ==
    \A r, q \in Live :
        templates[r].policy = templates[q].policy
            /\ templates[r].step_no = templates[q].step_no => r = q

\* The live rows of a policy, by number.
ChainOf(p) == {<<templates[r].step_no, templates[r].step>> : r \in LiveOf(p)}

\* The rows of a whole chain, numbered 1..n.
Numbered(steps) == {<<n, steps[n]>> : n \in DOMAIN steps}

\* approval_chain_service.rs:130-132: two operators who replace one chain at once never
\* mix their steps, and no step of an older chain outlives the newer one.  Only a row
\* edited by hand since the replacement's snapshot makes the chain another one.
ChainIsWhole ==
    \A p \in Policies : latest[p] # NoChain => ChainOf(p) = Numbered(latest[p])

\* What resolve_members and validate_chain ask of a chain numbered 1..n: every step
\* can be asked, has a member, and names nobody twice.
Resolvable(steps, e) ==
    \A n \in DOMAIN steps :
        LET t == as_template(n, steps[n])
            m == Members(t, <<e>>)
        IN  /\ TemplateRefusal(t) = "none"
            /\ m # <<>>
            /\ \A i, j \in DOMAIN m : i # j => m[i].assigned_to # m[j].assigned_to

\* A filing through the chain a replacement has left is not refused for the chain's
\* sake, whomever (one employee `e`) the resolver names: check_chain has refused
\* whatever file would refuse.
ReplacedIsResolvable ==
    \A p \in Policies : latest[p] # NoChain =>
        \A e \in Employees : Resolvable(latest[p], e)

\* A replacement loses to a unique violation only when somebody has changed the chain
\* since its snapshot; the operator who retries is not alone.
ConflictWasOvertaken ==
    [][\A a \in Admins :
        Open(a) /\ pc'[a] = "idle" /\ answer'[a] = "unique_violation" =>
            tx[a].edited \/ tx[a].overtaken]_vars

Valid == {steps \in Proposals : check_chain(steps) = "none"}

\* A live row as its readers have it.
Triple(r) == <<templates[r].policy, templates[r].step_no, templates[r].step>>

TableRows == {Triple(r) : r \in Live}

\* What ChainTable records of the replacements: of each, nothing before its snapshot.
TableCalls ==
    [a \in Admins |->
        [policy |-> IF pc[a] \in {"lock", "insert", "commit"} THEN tx[a].policy ELSE NoPolicy,
         edited |-> tx[a].edited, overtaken |-> tx[a].overtaken,
         late |-> {Triple(r) : r \in tx[a].late}]]

Table == INSTANCE ChainTable WITH
    Chains <- Valid, Calls <- Admins, rows <- TableRows, call <- TableCalls

\* The committed rows change as ChainTable says, what a filing that reads them in one
\* statement relies on (approval_chain_service.rs:10-12): a replacement leaves nothing of
\* the chain its snapshot has seen, however far beyond its own last step, and after a
\* committed one it does not commit on an older snapshot unless a row was edited by hand.
ImplementsTable == Table!Spec
=============================================================================
