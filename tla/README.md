# backbone-approvals: the approvals engine in TLA+

backbone-approvals is a Rust library over PostgreSQL. A consumer (expenses,
time off, contracts ...) *files* a request for one of its records; the active
policy of the resource type is materialised into a chain of step rows; employees
*decide* the rows; the requester may *withdraw*; an overdue row may be
*escalated*. Every verb is one database transaction at READ COMMITTED, issued
from an HTTP handler or from the consumer's own process, and nothing serialises
two verbs on one request except the row locks of the UPDATEs they happen to
issue. Filing is a transaction too, and what serialises two filings of one
resource is a partial unique index. Operators replace the chain of a policy while
others edit its rows one by one, and employees grant and revoke delegation windows
that decisions are made through at the same moment. That is what this project is
about.

Paths below are relative to the repository. `SVC` is
`src/application/service/approvals_write_service.rs`, `REPO` is
`src/infrastructure/persistence/approvals_write_repository.rs`, `CHN` is
`src/application/service/approval_chain_service.rs`, `GR` is
`src/presentation/http/guarded_routes.rs`.

## Inventory

| Component | State | Operations | Interacts with | Hard behaviour | Correct when |
|---|---|---|---|---|---|
| Decision engine (`SVC` 612-992, `REPO` 172-627) | `approval_requests` (status, current_step, decided_by, deleted_at), `approval_steps` (status, assigned_to, delegated_from) | `decide`, `withdraw`, `escalate_overdue_step` | delegations (read per row), resolver (escalation), the rows a filing left | several transactions on one request, statement by statement; lost rows; deadlocks; rollbacks | the rows and the verdict agree, a verdict is final, the chain is walked in order, the caller is told the truth |
| Filing (`SVC` 304-433) | inserts both tables | `file` | policy, templates, resolver, delegations; the partial unique index over live requests | concurrent filings, the five laps, a withdraw that frees the resource meanwhile, failure between inserts | at most one request holds a resource; a request without its whole chain never exists |
| Chain resolution and validation (`SVC` 436-609) | none | `resolve_members`, `apply_delegation`, `validate_chain` | resolver, delegations | delegations edited meanwhile | accepted chains are walkable: steps 1..max, each with members, nobody twice in a step |
| Chain administration (`CHN`, `REPO` 94-152) | `approval_step_templates` | `check_chain`, `replace_chain`, `preview_chain` | filing reads the templates; the CRUD edits them | two replacements at once; a row edited between a snapshot and a commit; a filing between two reads | one row per step number; a chain is replaced whole or not at all; a preview says what a filing would do |
| Delegations (`SVC` 1000-1056) | `delegations` | `create_delegation`, `revoke_delegation` | filing, decide | revocation racing a decision or another revocation; a lost acknowledgement; midnight | one revocation succeeds; authority is consent, for its days and in its database |
| Approver resolver (`SVC` 122-147) | the host's org chart | manager, head, role and position holders | filing, escalation | answers change between calls; errors | fails closed |
| Read verbs (`SVC` 851-880) | none | `status`, `get_request` | consumers | one SELECT, in whichever database the pool leads to | a tenant sees its own requests |
| Guarded routes (`GR`) | none | one route per verb | all verbs | who the caller is, what a status tells after a lost commit | the token names the actor, never the body; a 4xx has written nothing |
| Request pool, org scope (`src/request_pool.rs`, `src/lib.ext.rs`) | task-local | which database, which fence | every verb | a verb outside the layer falls back silently | a routed call stays in its tenant's database |
| Generated CRUD, DTOs, entities | rows of the five tables | create, GET, PUT, PATCH, delete, restore | chain administration, filing, the engine's own statements, hosts | load, guard and store of a PUT hold no lock; the guard looks at changed columns only; five pieces of code spell out the same columns | an edit changes what it names; a service brings in no breach of a rule |
| Events, seeders, exports, wiring | | | | generated over a framework outside the repository | not modelled |

The places where this code is hard to test are listed with their lines in
`PROJECT.json` under "hazards"; each names the properties that cover it, or why
none does.

## Modules

| Module | What it is |
|---|---|
| `ApprovalChain` | The vocabulary both halves share: the rows of a chain, and `Walkable`, the condition filing establishes and the engine relies on. |
| `DecisionEngine` | The engine on ONE filed request. One action per SQL statement, several sessions. |
| `ApprovalLifecycle` | The abstract specification: a request is a verdict, a level and a set of open rows; one step per committed call. |
| `DecisionEngineInv` | The inductive invariants `LockDiscipline` and `Evidence`, and those that hold where two verbs do not overlap. |
| `DecisionEngine_proofs` | `LockDiscipline` and what follows from it. |
| `DecisionEngineVerdict_proofs` | `Evidence`, the verdicts, the answers and the refinement of `ApprovalLifecycle`. |
| `WaitCircles` | Lemmas about who waits for whom: waiting that leads nowhere closes a circle. |
| `DecisionEngineRaces_proofs` | That nobody is stranded behind a lock, and which race each violated property needs. |
| `MCDecisionEngine` | Small chains, employees and the symmetry for TLC. |
| `ChainResolution` | Templates to rows: `resolve_members`, `apply_delegation`, `validate_chain` and the preview's verdict, as operators. |
| `Filing` | `file` on ONE resource. One action per SQL statement or resolver call, several sessions; the engine, the policy, the chain and the delegations change meanwhile. |
| `ResourceClaim` | The abstract specification of filing: a resource is free or held by one request. |
| `FilingInv` | The inductive invariant `FilingDiscipline`. |
| `Filing_proofs` | Filing's theorems and their proofs. |
| `MCFiling` | Chains, good and broken, and resolver answers for TLC. |
| `ChainAdmin` | `check_chain` and `replace_chain`, statement by statement and row lock by row lock, several sessions, against single-row edits through the CRUD and policies deleted and restored. |
| `ChainTable` | The abstract specification of the templates: a chain replaced whole, or one row edited. |
| `ChainAdminInv` | The inductive invariant `TableDiscipline`. |
| `ChainAdmin_proofs` | The theorems of chain administration and their proofs. |
| `MCChainAdmin` | Proposals, good and broken, for TLC. |
| `GeneratedRecords` | The generated records of the five tables, column by column: builders, bodies, conversions, row rules, CHECKs, the engine's UPDATEs. |
| `RecordStore` | One row of one of them under everybody who may write it: several clients of the CRUD, the engine, a host, the migration. |
| `RecordStore_proofs` | The theorems of the record store and their proofs, the inductive invariant `StoreInv` among them. |
| `MCRecordStore` | The symmetry for TLC. |
| `Delegations` | A window: what may be written, which one lends authority on a day, what an error becomes over HTTP. |
| `GuardedSurface` | The handlers of the guarded routes on the database of their request, and the delegation verbs statement by statement. |
| `DelegationRegister` | The abstract specification of a window: granted once, revoked at most once. |
| `GuardedSurfaceInv` | The inductive invariant `SurfaceDiscipline`. |
| `GuardedSurface_proofs` | The theorems of the surface and their proofs. |
| `MCGuardedSurface` | Principals, days and databases for TLC. |

`Filing` and `DecisionEngine` are two views of one request. `Filing` ends where
`DecisionEngine` begins: the row it commits satisfies `Whole`, hence `Walkable`,
which is what `ValidChain` asks of the chain `DecisionEngine` starts from. In the
other direction the engine appears in `Filing` as the transactions that take a
request out of pending. `ChainAdmin` stands behind `Filing` in the same way: the
`EditChain` of `Filing` changes all the templates of a policy in one step, which
is what `ReplacementsAreAtomic` proves of the committed rows, and `Filing`'s
`TemplateAssumption` (one live template per step number) is `StepsAreUnique`.
`GuardedSurface` stands behind the delegation windows that `DecisionEngine` and
`Filing` let open and close at any time.

### How `DecisionEngine` corresponds to the code

*Transactions.* `steps` and `request` are the committed rows, `newSteps` and
`newRequest` the newest versions; `stepLock[r]` and `requestLock` name the
transaction that wrote the newest version and has not ended. A SELECT of session
`t` returns `SeesStep(t, r)`/`SeesRequest(t)`: its own uncommitted write, else
the committed row, which is READ COMMITTED. An UPDATE of a row is enabled only
when no other transaction holds the row, and evaluates its WHERE on the version
it then finds, as PostgreSQL does after waiting. `Commit` publishes, `Rollback`
undoes. Reading the rows of a step is one statement and therefore one action;
a multi-row UPDATE (`skip_other_pending_steps`, `skip_sibling_pending_steps`)
locks its rows one after the other in no particular order (`SkipRow`,
`SkipDone`), which is where the deadlocks come from.

*decide* (`SVC` 612-826) is `DecideRequest` (BEGIN, `get_request`, the early
returns in their order) -> `DecideRows` (`live_steps_at`) -> `Authorize`, once
per row in `assigned_to` order, each its own statement (`actor_may_decide`) ->
`Choose`/`ChooseNone` -> `Mark` (`mark_step_decided`) -> on a lost row `Reread`
and `Commit`; on a reject `SkipRow`*/`SkipDone` and `Finish`; on an approval the
sibling skip for role and position rows, `Count` (`count_pending_steps_at`,
`max_step_no`), then `Finish`, `Advance` or straight `Commit`. What the code
keeps in locals across an await (the rows as read, the authorized ones, the
assignee the stamp is computed from, the status read first) is in `tx[t]`, so
everything stale stays stale.

*withdraw* (`SVC` 958-992) is `WithdrawRequest`, the skips, `WithdrawFinish`,
`Commit`. *escalate_overdue_step* (`SVC` 893-956) is `EscalateRequest`,
`EscalateNowhere` (the refusals: no pending row, no company scope and no head are
one action, each drops the transaction) or `EscalateTo` (the resolver's answer),
`EscalateRow` (`escalate_step`: still pending and still with the old assignee),
`EscalateIndex` (the unique index on request, step and assignee: wait for a
transaction that holds the key, then pass or fail with a database error),
`Commit`.

*Around the calls.* `Abort` drops a call at any await; `CancelDeadlocked` is
PostgreSQL's detector; `DelegationStarts` and `DelegationEnds` open and close
windows at any time; `SlaBreach` lets `sla_due_at` pass. A process crash is
`Abort` of its calls: nothing outside the database survives a call.

*Data abstracted.* Ids are model values; employees are numbers because
`live_steps_at` orders by `assigned_to`; comments, timestamps, priorities and
summaries are left out. `actor` in a step row is a history field: the table has
no column for who decided. Time is only "the step is overdue" and "the window is
open". A row's `deleted_at` is never set by these verbs on a step; on a request
it is `deleted`.

*What a filing leaves.* `Init` starts from a chain that satisfies `ValidChain`:
step numbers 1..max, at least one row each, nobody twice in a step, and one
template behind the rows of a step. `FiledWholeAlways` proves of `Filing` that every
chain it commits is such a chain.

### How `Filing` corresponds to the code

*The transaction.* `File` (`SVC` 304-319) begins the first lap, `FindLive`
(`find_live_request`) hands back the holder or goes on, `FindPolicy`
(`find_active_policy`) remembers the active policy, `InsertRequest`
(`insert_request`) puts the row into the index or `LoseRace` meets a committed
holder: the unique violation, rolled back, and the next of `FILE_ATTEMPTS` laps or
`filing_race_exhausted`. Under a policy `ReadTemplates` follows, `Resolve` per
template, `Delegate` per member (one `find_active_delegation_for` each),
`InsertSteps` (`validate_chain`, then `insert_step` for every row) and
`CommitFiling`. Without one the request is committed approved and has no rows. Every
refusal drops the transaction (`Return`), and `Abort` drops it at any await.

*The index.* `HeldByIndex` is the predicate of
`approval_requests_one_live_per_resource`, `FoundByFile` the lookup's, translated
separately because they are two pieces of SQL that must agree. An INSERT waits for
every open transaction that has inserted a row for this resource (`HasInserted`) or
is changing a row the index holds (`deciding`), then finds it committed or gone
(`InsertMayGo`).

*Around the calls.* `EngineWrites` and `EngineEnds` are a decide or withdraw that
writes a verdict and later commits it or not. `SwitchPolicy`, `EditChain` and
`EditDelegation` change what a filing reads, between any two of its statements.
`EditChain` sets any chain of `ChainsOf`, broken ones included: templates can also be
edited row by row through the generated routes, which check nothing.

*Data abstracted.* One resource; a request's summary, priority and timestamps are
left out. A chain is a sequence of templates ordered by step number, an `all_of` is
absent, malformed or a list, `sla` is whether a clock is set, and 0 stands for every
step number below 1. The resolver answers what its signature allows: one employee
for a manager or head, any sequence of holders for a role or position, or an error.
When several windows exist for one approver the code takes the one with the latest
`valid_from`; the model takes any. A refused or withdrawn request is history no
statement of `file` reads again: the model forgets its chain and lets its id be
drawn again, which keeps the state finite (`Uuid::new_v4` draws fresh ones).
`insert_step` of one transaction is one action because nobody can see the rows, or
meet them in an index, before the commit. `requests[i].from`, `tx[t].overtaken` and
`answer` are history: the templates a chain came from, the filings committed since a
call began (counted up to `FileAttempts`), what was returned.

### How `ChainAdmin` corresponds to the code

*replace_chain* (`CHN` 133-157) is `Replace` (the call and `check_chain`, before any
transaction), `PolicyExists`, `RetireTemplates`, `RetireRow`*/`RetireEnds`,
`InsertTemplate` per step, `CommitChain`. `retire_templates` is one UPDATE, but it
locks its rows one by one: `RetireTemplates` is the snapshot in which it finds them,
`RetireRow` waits for a row, looks at it again (a row retired or moved meanwhile is
left alone, as READ COMMITTED re-evaluates the WHERE) and holds it until the end. A
row that appears after the snapshot is not retired. `InsertTemplate` has the guard
of the partial unique index on (policy_id, step_no): it waits for every session that
has inserted the same key or is retiring a row of it (`HoldingKey`), then fails on a
committed live row (`InsertConflict`) or passes. `CommitChain` publishes and
answers; its acknowledgement may be lost (`connection_lost`, although the chain is
replaced). `Abort` and `CancelDeadlocked` are as in the engine.

*The CRUD.* `CreateTemplate` (also a restore: any id not in use, a retired one
included), `UpdateTemplate` (a PUT may change policy and number too),
`DeleteTemplate`, each one statement, waiting for the same locks and the same
index. `TogglePolicy` deletes or restores a policy, at any time.

*Data abstracted.* Hours to decide are kept by their sign, ids are model values. A
retired row that no open statement has seen is never read again, so its id counts as
fresh. `latest`, `edited` and `overtaken` are history: the chain a policy was last
given, and whether a row edit or another replacement has committed since the
snapshot.

### How `GuardedSurface` corresponds to the code

A handler's request carries a principal (`Users`), maybe a tenant's pool and a body.
`ActorOf` is the `ActorResolver` behind `actor` (`GR` 121-155): the employee comes
from the token. `rpool` (`src/request_pool.rs`) is where the statements run.
`CreateDelegation` is handler and checks, `InsertDelegation`/`ReasonTooLong` the
INSERT, `Commit` the commit; `RevokeDelegation`, `GetDelegation`, `Revoke`/
`RevokeLost` are the three statements of the other verb. The UPDATE of a revocation
waits for whoever holds the row (`LockedBy`) and then asks again whether the window
is active. A `decide` is `Decide` (the handler), `SelectRequest` (`get_request`, not pending),
`CheckDelegation` (`actor_may_decide`, on the day its transaction began: `CURRENT_DATE`),
`MarkDecided` (the UPDATE that waits for another decision of the row and matches it
only while it is pending) and `CommitDecision`. Windows may be revoked, granted or
expire between any two of them, in particular between the check and the commit. A
request has one step with one approver here, so that its mark is its decision; turns
and quorums are `DecisionEngine`'s. `GetRequest`/`SelectRequest` is the read
route. `BoundVerbs` are the verbs merged before the layer that binds the request pool
(`GR` 316-347): `rpool` gives any other the composed database. `granter` and `gone` are
history: whose token created a window, and which windows were revoked before the call
began. `http_status` is the mapping of the
errors. `Midnight` moves the date on, also in the middle of a call.

### How `RecordStore` and `GeneratedRecords` correspond to the code

`GeneratedRecords` has for each of the five tables the columns of the entity, those
`build()` requires, those the body of a create or PUT asks for or may lack, those each
conversion names, the rules of the write guard (`..RowRules`), the CHECKs of the
migration and the columns each UPDATE of the engine writes, every list as its own piece
of code spells it. A value is told apart only by what this code asks of it: two ordinary
values, a blank and an over-long text, NULL. A body without a column that is no `Option`
is refused (`Readable`); an `Option` left out is cleared by a PUT. The rules that ask a
Uuid to be present and not blank are left out: no value of the type breaks them.

`RecordStore` is one row of one table. A client `Create`s it or `Get`s what the response
shows, changes one column of that and `Put`s it back: the load of the row, and in a later
step (`Store`) the guard, the statement and the response, with no lock in between. The
framework that runs load, guard and statement is outside the repository, so that they
are apart and lock-free is an assumption; it allows every order. Past the services write
`EngineUpdates` (the statements of `REPO`), `BuildAndInsert` (rows a host builds or seeds
itself) and `Migrate`, which adds a declared CHECK unless a stored row breaks it
(`migrations/20261004090002...up.sql`); a row that is not there breaks none. `outside`
is history: the breaches those writes brought in. `fresh` is history: whether a session
is the last writer or reader of the row. PATCH is not modelled: `apply_patch` has no
caller in the repository, and what the generic handler does with a body is not there.

## Properties

Safety, in `engine_safety`:

- `TypeOK`: the type invariant.
- `VerdictMatchesRows`: an approved request has every step complete under its
  regime, a rejected one exactly one rejected row, a withdrawn one none, and
  neither of the last two a pending row.
- `ChainInOrder`: while the request is pending, everything behind the current
  step is complete and everything ahead untouched.
- `DeciderOwnsVerdict`: whoever reaches the request row after deciding the last
  row of a step finds it pending, unlocked and on that step. Consequence: the
  `None` branches of `finish_request` and `set_current_step` in `decide` cannot
  be taken.
- `VerdictHasDecider`: the decider of the request decided a row with that
  verdict, and is never the requester.
- `NobodyIsStranded`: a call waits only for calls that are at work, and calls that all
  wait for each other contain a circle the deadlock detector cancels.
- `LockDiscipline`, `Evidence`: the inductive invariants (below).
- `DecisionsAreFinal`: no step rewrites a decided row or a verdict, or takes the
  current step back or over a step.
- `DecideReportsVerdict`: an "approved" or "rejected" that `decide` returns is
  the request's verdict.
- `ImplementsLifecycle`: the engine refines `ApprovalLifecycle` (rows, level and
  verdict as committed; every statement but the commit stutters).

`engine_liveness` checks `CallsReturn`, and `VerdictHasDecider` where the requester may
head the department, so that rows are escalated to the requester. `QuorumAdvances`,
`TrailNamesDecider` and `WithdrawReportsVerdict` are what two sessions break (below).

Of filing, in `filing_safety`:

- `TypeOK`, the lap counter's bound among it.
- `OneHolder`: at most one pending or approved request holds the resource.
- `FiledWhole`: a committed request was pre-approved without rows, or has a walkable
  chain with rows at every step its templates number; never half of one.
- `FilingDiscipline`: the inductive invariant (below).
- `ExhaustedWasOvertaken`: the 503 `filing_race_exhausted` is honest, every lap of
  that call was lost to another filing that committed after the call began. It holds
  because the lookup and the index agree on what holds a resource.
- `ImplementsClaim`: filing refines `ResourceClaim`; the holder changes only through
  free, and only a filing's commit claims.

`filing_liveness` checks `FilingsReturn`.

Of chain administration, in `chain_admin`:

- `TypeOK`; `TableDiscipline`: the inductive invariant (below).
- `OneRowPerStep`: no two live rows of a policy have one step number.
- `ChainIsWhole`: the chain a policy was last given is there whole and nothing else,
  unless a row was edited by hand since that replacement's snapshot.
- `ReplacedIsResolvable`: what `check_chain` lets through, `resolve_members` and
  `validate_chain` let through, whomever the resolver names.
- `ConflictWasOvertaken`: a replacement fails on the index only if the chain was
  changed after its snapshot.
- `ImplementsTable`: readers see chains replaced whole, or one row edited. Of the chain
  replaced nothing stays: what is left beside the new one are rows edited in by hand
  since the snapshot (`late`), and of two replacements that looked at one chain only
  the first commits, unless a row was edited by hand.

Of the generated records, in `record_store`:

- `TypeOK`, and with it that every list of columns makes whole rows.
- `EditsAreLocal`: a client's edit of one column changes that column and no other,
  if nobody has written in between; what a response has shown is a readable body.
- `BreachIsForeign`: a stored value that breaks a rule of its service came in past the
  services, whatever the order of creates, PUTs and other writes.
- `BackstopIsForStaleRows`: what the guard lets through meets a CHECK only if the row it
  was judged against was in breach and has been written, and migrated, since.

Of the surface, in `guarded_surface`:

- `TypeOK`; `SurfaceDiscipline`: the inductive invariant (below).
- `RevokedOnce`: of racing or repeated revocations one succeeds, its approver's.
- `NotActiveIsHonest`: a 409 `delegation_not_active` is answered only of a window
  that is revoked, for good.
- `DecidesByConsent`: whoever's decision is committed is the step's approver or holds a
  window that a token of the approver's own created, in this database, for the day the
  call began, and not revoked before the call began. A revocation that falls between
  the check and the commit does not stop the decision: the code checks once.
- `TenantFence`: a routed call reads and writes its tenant's rows only.
- `StatusTellsTheEffect`: a 4xx has written nothing, a 200 or 201 has; only a 500
  leaves the client in doubt.
- `ImplementsRegister`: the verbs refine `DelegationRegister`.

## What the code does not keep

Five runs expect a violation. Each property is a sentence of the repository's
documentation or comments. The first four counterexamples are interleavings of two
calls:

1. `quorum_stalls`: two members of a quorum approve at once. Each countdown still
   sees the other's uncommitted row as pending, both commit, neither advances.
   The request is pending on a step without a pending row and only a withdraw
   ends it (`SVC` 787-822; `docs/approvals-engine.md` 99).
2. `withdraw_misreports`: `withdraw` answers a lost UPDATE with
   `unwrap_or(Withdrawn)`, so it reports "withdrawn" for an approved request
   (`SVC` 989; docs 113-115).
3. `lost_decision_misreports`: a decision that lost its row to a withdraw reports
   "pending", because the re-read does not see soft-deleted requests (`SVC` 697-707
   and 749-757).
4. `escalated_trail`: a decision authorized against the old assignee lands after an
   escalation committed; the row then names neither the decider nor a delegation
   (`REPO` 424-432; docs 86-91).
5. `preview_overpromises`: `preview_chain` calls a step that resolves to the requester
   a problem, and the doc of that field says a filing would be refused with it; the
   filing is accepted, and `decide` refuses that approver
   (`src/application/service/approval_chain_service.rs` 52-54 and 206-207).

Read while modelling and not the subject of a run: `docs/approvals-engine.md`
173-175 and the header of `SVC` (line 31) say that nothing acts on `sla_due_at`;
`escalate_overdue_step` does. The comment at `SVC` 411-413 and the docs (75-77) say a
delegation edit can make `insert_step` meet the unique index; the rows are computed
before `validate_chain` and not read again, so it cannot.
`create_guarded_approvals_routes_with` (`GR` 421-425) promises "the same surface" as
`create_guarded_approvals_routes` and has neither the CRUD read routes nor the request-pool
layer: `Layered = FALSE` in `GuardedSurface`, where `TenantFence` says nothing. "Replaces
the whole chain atomically" (`GR` 409-410) holds up to rows edited by hand while the
replacement runs: they survive at numbers it does not write, which is `late` in
`ChainTable`.

## Runs and bounds

| Run | Instance | Result |
|---|---|---|
| `engine_safety` | 2 sessions, 3 rows, 4 employees, 2 chains, one possible delegation | passes, about 370,000 states |
| `engine_liveness` | 2 sessions, one step with 2 rows, a quorum or an any-holder group; the requester may head the department | passes, about 92,000 states |
| `quorum_stalls`, `withdraw_misreports`, `lost_decision_misreports`, `escalated_trail` | 2 sessions, one step with 2 rows | violated |
| `filing_safety` | 2 sessions, 2 ids, 3 laps, 1 policy, 3 chains, one possible delegation | passes, about 440,000 states |
| `filing_liveness` | 2 sessions, 2 ids, 2 laps, one chain of one step | passes, about 64,000 states |
| `preview_overpromises` | the same | violated |
| `chain_admin` | 2 sessions, 5 row ids, 1 policy, chains of 1 and 2 steps and six broken ones | passes, about 49,000 states |
| `guarded_surface` | 2 handlers, 1 tenant and the composed database, 2 employees and a principal who is none, 2 days, 2 windows | passes, about 291,000 states |
| `record_store` | 2 clients, each of the five tables, one column at a time with all its values | passes, about 357,000 states |

Why these bounds are enough, for the engine: the races are between two transactions on one or two
rows. `Quorum` is a two-member quorum followed by a single approver, so advance,
finish, the countdown and the fail-fast skip over a later step all occur;
`Holders` is a row filed under a delegation followed by a two-holder role step, so
sibling skips and the last step's group occur. Employee 1 files, 3 may deputise
for 2, and 4 is both an approver and the head escalation names, so that the unique
index conflicts as well as passes. The engine keeps no counter that grows: nothing
is cut off by a bound. Sessions are interchangeable (`MCSymmetry`); the runs with
liveness use no symmetry. Deadlock checking is on in every run: an idle session
can always take a call.

For filing: a race for the index is between one transaction that has inserted and
one that waits, so two sessions show it; two ids let a request be filed while the
refused one before it is still a row. `FileAttempts` is 3 where the code has 5: a
lap is lost, one more, and the last. The chains are a quorum of an approver and the
approver's possible deputy followed by a role (two members meet on one delegate; the
resolver names nobody, one or two holders, the deputy among them), a chain with a
gap, and a role step without a role. `overtaken` stops at `FileAttempts`, which is
all the property asks.

For chain administration: two replacements race on the rows of one policy, and five
ids are two chains of two rows and one row edited in between. `MaxChainSteps` is 2
where the code has 20, so that a chain of two is the longest and one of three the
first refused; each other broken proposal has one of the faults `check_chain` names.
A row edit may use the numbers 1 and 2, which collide with what replacements write.
With one policy a PUT never moves a row to another one; the theorems cover that.

For the surface: a race is between two handlers on one window. Two days make a window
that is active today and not tomorrow and a transaction that begins before midnight;
the periods are a day and one that ends before it begins. Windows are never deleted,
so two of them bound the run.

For the generated records: every table and every column has its turn; a property is
about one column and the rest of the row, so one column that differs from a plain row
(`FocusBound`) shows what it can. Two clients are one that has read and one that writes
meanwhile, beside the engine and the host.

A third concurrent transaction, more than one open delegation and chains of more
than three rows are beyond the runs; the theorems hold for any number.

## Fairness

`FairSpec` adds, for every session, weak fairness of `Proceed`, the next statement
of a call that has started: the server polls the handler's future until it is
done, and PostgreSQL's deadlock detector (part of `Proceed`) always runs. Strong
fairness of `Contend`, the statements that wait for a row lock: PostgreSQL queues
the waiters of a row, so that a stream of other transactions cannot overtake one
for ever. Nothing is assumed of `Call`, `Abort`, the delegations or the clock:
nobody has to decide, and the library has no sweeper. That is why the only
liveness property is that calls return, and not that requests get decided.

`Filing`'s `FairSpec` has the same two assumptions, weak fairness of a filing's next
statement and strong fairness of the statement that waits at the index, and weak
fairness of `EngineEnds`: a transaction that has written its verdict ends. Nothing
makes anybody file, decide, or leave the configuration alone.

`ChainAdmin` and `GuardedSurface` have safety properties only and state no fairness:
their statements wait for row locks and the index exactly as the engine's do, and
that a call returns is asked there. `RecordStore` has safety properties only, too, and
nothing in it waits. The three runs use symmetry of sessions, the first two of ids.

## Proofs

### The engine

`DecisionEngine_proofs` proves, for all values of the constants that satisfy the
assumptions (`TxnAssumption`, `RowAssumption`, `EmployeeAssumption`,
`ChainAssumption`: any sets of sessions, rows, employees, any valid chains):

| Theorem | States |
|---|---|
| `TypeCorrect` | `Spec => []TypeOK` |
| `LockDisciplineHolds` | `Spec => []LockDiscipline` |
| `DecidersOwnTheirVerdict` | `Spec => []DeciderOwnsVerdict` |
| `DecisionsFinal` | `Spec => DecisionsAreFinal` |

The argument. None of the properties is inductive: whether a call may finish the
request depends on what it read several statements ago. `LockDiscipline` says why
that is still true. `RowLocks`: a row has an uncommitted version only behind a
call at a writing statement, and only a row that is pending in the committed table
is ever locked. `RequestLocked`: the request has an uncommitted version only behind
a call about to commit, which has settled every row the new version speaks for.
`CallKnows`: what each call knows at each statement; above all, a call that has
decided a row holds its lock until it commits. `Walked`: behind the current step
nothing is pending in the committed tables. The key lemma, `DeciderOwns`: a call
between its mark and its commit holds the lock of a row of its step that everybody
else still sees pending, so nobody else can have settled that step, and the request
is pending on it. The proof has one lemma per kind of write (`WriteStepKeeps`,
`WriteRequestKeeps`, `CommitKeeps`, `RollbackKeeps`, `ReadKeeps`) that says what
it leaves of the invariant for the other calls (`OthersKnow`), and one step per
action. `DecisionsFinal` follows because only `Commit` changes committed rows
(`OnlyCommitsPublish`) and only pending ones are locked.

`DecisionEngineVerdict_proofs` adds, under the same assumptions:

| Theorem | States |
|---|---|
| `EvidenceHolds` | `Spec => []Evidence` |
| `VerdictsMatchTheirRows` | `Spec => []VerdictMatchesRows` |
| `ChainsAreWalkedInOrder` | `Spec => []ChainInOrder` |
| `VerdictsHaveDeciders` | `Spec => []VerdictHasDecider` |
| `DecideReports` | `Spec => DecideReportsVerdict` |
| `EngineImplementsLifecycle` | `Spec => ImplementsLifecycle` |

`LockDiscipline` says who may write what and when; a verdict is about what was
written. `Evidence` adds that the uncommitted rows of a call tell one story
(`Tells`): a withdraw has only skipped, a decide has one row with its verdict and
its actor and otherwise skipped siblings, an escalation has left its row pending;
and the uncommitted request is the one verdict or the one step forward those rows
speak for. `CurrentStepIsOpen` is the part about committed rows that a single row
cannot show: at the current step of a pending request an any-holder row is
undecided and a quorum row undecided or approved, so that a commit completes a step
or leaves it open, never half done. With `LockDiscipline` the commit then takes
`ChainInOrder`, `VerdictMatchesRows` and `VerdictHasDecider` from the old rows to the
new ones, the refinement maps it to the step of `ApprovalLifecycle` that story
names, and every other statement to a stutter.

`DecisionEngineRaces_proofs` adds two kinds of result. The first:

| Theorem | States |
|---|---|
| `CallsAreNeverStranded` | `Spec => []NobodyIsStranded` |

`WaitsFor` is read off the guards of the waiting statements: a lock on the request, on
a row, or a key of the unique step index. A holder is always a call at work, because
`RowLocks` and `RequestLocked` tie every lock to a writing statement, and never the
waiter itself. If in a group of calls everybody waits within the group, a smallest
part of it in which that is so is a circle (`WaitingClosesACircle`, by the least-number
principle on its size), which is what `CancelDeadlocked` breaks. The group is finite
whatever `Txns` is, because a step starts one call at most (`FinitelyManyInFlight`).
This is the part of `CallsReturn` that needs no fairness.

The second kind says what the four engine runs under "What the code does not keep"
turn on. Each property is false of `Spec`; each holds as long as one pair of verbs
does not overlap (`Apart(v, w)`: no call of `v` is in flight with another
session's call of `w`), whatever else does:

| Theorem | States |
|---|---|
| `QuorumsAdvanceOneByOne` | `Spec /\ []Apart("decide", "decide") => []QuorumAdvances` |
| `SoloStepsNeverStall` | `Spec /\ SoloSteps => []QuorumAdvances` |
| `TrailIsRightWithoutRacingEscalation` | `Spec /\ []Apart("decide", "escalate") => []TrailNamesDecider` |
| `WithdrawReportsWithoutRacingDecision` | `Spec /\ []Apart("decide", "withdraw") => WithdrawReportsVerdict` |
| `LostDecisionReportsWithoutRacingWithdrawal` | `Spec /\ []Apart("decide", "withdraw") => LostDecisionReportsVerdict` |

The runs show that the hypotheses are needed: their counterexamples are overlaps of
exactly these pairs. The hypotheses are about schedules and not about the code, which
keeps no two verbs apart; `SoloSteps` is about the configuration (no quorum has two
members) and says who is safe today. Each proof has an inductive invariant of its own
on top of the two above. `StepStaysAsked`: a decision that is about to commit without
touching the request has left a row of its step pending, in its own view; with no
other decision in flight that row is pending for everybody. `AssigneeStands`: the
assignee a decision was authorized against is still the row's when it marks it, since
only an escalation moves a row. `WithdrawnAlone`: a request is soft-deleted if and only
if it is withdrawn; a withdraw without a decision beside it finds the request pending
or withdrawn, a decision without a withdraw beside it never finds it deleted.

Only model-checked: `CallsReturn`, because liveness under fairness is out of the
prover's reach.

### Filing

`Filing_proofs` proves, under `FilerAssumption`, `IdAssumption` and
`TemplateAssumption` (any sets of sessions, ids, employees and policies, any number of
laps, any set of template chains with one live template per step number):

| Theorem | States |
|---|---|
| `FilingTypeCorrect` | `Spec => []TypeOK` |
| `FilingDisciplineHolds` | `Spec => []FilingDiscipline` |
| `OneHolderAlways` | `Spec => []OneHolder` |
| `FiledWholeAlways` | `Spec => []FiledWhole` |
| `ExhaustionIsHonest` | `Spec => ExhaustedWasOvertaken` |
| `FilingsClaim` | `Spec => ImplementsClaim` |

The argument. `FilingDiscipline` has four parts. `IndexGuards`: a session has its row
in the index exactly at the statements behind the INSERT, only one has, and then no
committed request holds the resource; so a commit claims a free resource. `LapsLost`:
every lap but the current one was overtaken, and so is the current one as soon as
somebody holds the resource behind its lookup; so whoever loses the last lap was
overtaken in all of them. `ChainInProgress`: every row resolved so far carries the
marks of a template of the chain read (`ResolvedFrom`), and at the commit
`validate_chain` has accepted them. The lemma `AcceptedIsWalkable` turns that into
`Walkable`: two rows of one step come from one template because step numbers are
unique among live templates. `FiledWhole` itself is the fourth part. `StepKeeps` and
`ReturnKeeps` reduce an action of one session to its new label and locals; there is
one lemma per action. `TemplateAssumption` is the schema's partial unique index on
(policy_id, step_no) and that every id a template names counts as an employee.

Only model-checked: `FilingsReturn`, for the same reason as `CallsReturn`.

### Chain administration

`ChainAdmin_proofs` proves, under `AdminAssumption` (any sets of sessions, ids,
policies and employees, any `MaxChainSteps`, any proposals and row edits):

| Theorem | States |
|---|---|
| `AdminTypeCorrect` | `Spec => []TypeOK` |
| `DisciplineHolds` | `Spec => []TableDiscipline` |
| `StepsAreUnique` | `Spec => []OneRowPerStep` |
| `ChainsAreWhole` | `Spec => []ChainIsWhole` |
| `ReplacementsResolve` | `Spec => []ReplacedIsResolvable` |
| `ConflictsAreHonest` | `Spec => ConflictWasOvertaken` |
| `ReplacementsAreAtomic` | `Spec => ImplementsTable` |

The argument. Neither uniqueness nor wholeness of the committed rows is inductive: a
commit publishes what several statements have written. `TableDiscipline` says what
a session knows (`Knows`) and what no two of them have (`Separate`). `Holds`: the rows
it has retired are still live and its policy's, the keys it has written are free but
for those rows. `SnapshotMisses` is the heart: behind its snapshot a replacement has
every live row of its policy in sight, unless a row was edited; if another
replacement has committed meanwhile, that one's first row is out of its sight, and
therefore its own first insert cannot pass. So whoever gets to the commit without a
row edit has retired all there was (`ChainIsWhole`), and whoever fails on the index was
overtaken or edited under (`ConflictWasOvertaken`). `SessionMoves` reduces a statement
that leaves the committed rows alone to the new label and locals of its session,
`EditKeeps` treats the three row edits at once, `CommitKeeps` the commit.
`ReplacementsResolve` needs that `check_chain` finds a first fault if there is one: the
least-number principle, from the library's well-foundedness of the naturals.

### Generated records

`RecordStore_proofs` proves, for any set of sessions and any `FocusBound`:

| Theorem | States |
|---|---|
| `StoreTypeCorrect` | `Spec => []TypeOK` |
| `BreachesAreForeign` | `Spec => []BreachIsForeign` |
| `EditsStayLocal` | `Spec => EditsAreLocal` |
| `BackstopsAreForStaleRows` | `Spec => BackstopIsForStaleRows` |

The argument. `EntitiesAgree` is the one lemma that opens the lists of columns: they
agree with the entity's (`Agreed`), and every declared CHECK is a rule of the guard;
everything else is about any entity that agrees. `BreachIsForeign` is not inductive: a
PUT stores the columns it has not changed from the row it loaded, which somebody may
have repaired since. `StoreInv` adds that the row a PUT has loaded breaks only what was
brought in past the services as well (`Foreign`), that a PUT nobody has overtaken
has loaded the row there is, and that the row there is keeps every CHECK in force
(`Keeps`): a row that was loaded and breaks one of them has been written since.

### The guarded surface

`GuardedSurface_proofs` proves, under `SurfaceAssumption` (any sets of handlers,
tenants, principals, employees, windows and days, layered or not):

| Theorem | States |
|---|---|
| `SurfaceTypeCorrect` | `Spec => []TypeOK` |
| `SurfaceDisciplineHolds` | `Spec => []SurfaceDiscipline` |
| `RevocationsAreOne` | `Spec => RevokedOnce` |
| `NotActiveHolds` | `Spec => NotActiveIsHonest` |
| `DecisionsHaveConsent` | `Spec => DecidesByConsent` |
| `TenantsAreFenced` | `Spec => TenantFence` |
| `StatusIsHonest` | `Spec => StatusTellsTheEffect` |
| `SurfaceImplementsRegister` | `Spec => ImplementsRegister` |

The argument. `get_delegation` reads the window in one statement and the UPDATE runs
in another. `SurfaceDiscipline` says why what was read is still true: approver and
database of a row never change, an id drawn is nobody else's (`Claims`), and a row
locked stays active until its holder commits. For decisions it keeps, from the check to
the commit, a window the check was made through (`LentTo`): its terms and its granter
never change, and it may only go from active to revoked, which a window revoked before
the call began had already done.

## Not modelled

- The handlers of withdraw, escalate and preview (`GR`): they resolve the actor like
  the modelled ones and hand on to verbs that are modelled.
- The generic service, repository and handler behind the CRUD (pagination, search,
  soft delete as SQL): a framework outside the repository. `ChainAdmin` takes from it
  that a write is one statement, `RecordStore` that a PUT loads, guards and stores. CRUD
  writes to requests, steps and delegations are not actions of `DecisionEngine` or
  `GuardedSurface`.
- PATCH, and delete and restore of requests, steps and delegations.
- The row-level org scope (`src/lib.ext.rs`): it is bound by the same framework.
- Summary and list DTOs, accessors, typed ids, audit metadata other than
  `deleted_at`: no property would tell a difference.
- Domain events (none is published by the engine), seeders, exports, wiring, and
  migrations as programs; the indexes and CHECKs they create are in the modules
  that meet them.
- What the modules allow and no property rules out, because nothing in the code or its
  documents does: a retry of `create_delegation` after a lost acknowledgement makes a
  second window with the same terms; a delegate's own delegate who decides overwrites
  the original approver in `delegated_from` (`REPO` 410-412); a window revoked between
  the check and the commit still lets the decision through; a PUT over a row somebody
  has written since undoes that write.
- Liveness of chain administration and the surface; escalation as a policy of which
  overdue row comes next.
