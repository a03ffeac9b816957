----------------------------- MODULE RecordStore -----------------------------
(***************************************************************************)
(* One row of one of the five tables under everybody who may write it:     *)
(* clients of the generated CRUD, who read the row, change one column and  *)
(* PUT it back; the engine's own UPDATEs and a host's inserts, which pass  *)
(* no write guard; and the migration that turns the declared rules into    *)
(* CHECKs where the stored rows keep them.  A PUT loads the row, has its   *)
(* change judged against it and stores every column, in statements that    *)
(* hold no lock in between.                                                *)
(***************************************************************************)
EXTENDS GeneratedRecords, FiniteSets, Naturals

CONSTANTS
    Sessions,      \* handlers of the CRUD at work
    FocusBound     \* how many columns differ from a plain row (a bound of the model)

VARIABLES
    entity,        \* the table
    focus,         \* the columns that anybody gives another value (a bound)
    row,           \* the row; empty until it is inserted
    checks,        \* the CHECKs the migration has added
    outside,       \* history: the breaches of a rule the guard was never asked about
    pc, seen, edit, before, answer,     \* of each session
    fresh          \* history: nobody else has written since the session last saw the row

vars == <<entity, focus, row, checks, outside, pc, seen, edit, before, answer, fresh>>
locals == <<pc, seen, edit, before, fresh>>

Absent == <<>>

Answers == {"none", "shown", "created", "updated", "unreadable", "violations",
            "database_error"}

\* What one column may become: edits of the columns in focus, each to a value of its type.
Edits == {change \in focus \X Values : change[2] \in Domain(entity, change[1])}

\* What somebody may fill some columns in with.
Filled(columns) ==
    {[c \in columns |-> IF c \in focus THEN given[c] ELSE "value"] :
        given \in {g \in [columns \intersect focus -> Values] :
                    \A c \in columns \intersect focus : g[c] \in Domain(entity, c)}}

Init ==
    /\ entity \in Entities
    /\ focus \in {f \in SUBSET Every(entity.columns) : Cardinality(f) <= FocusBound}
    /\ row = Absent /\ checks = {} /\ outside = {}
    /\ pc = [s \in Sessions |-> "idle"]
    /\ seen = [s \in Sessions |-> Absent]
    /\ edit = [s \in Sessions |-> <<>>]
    /\ before = [s \in Sessions |-> Absent]
    /\ answer = [s \in Sessions |-> "none"]
    /\ fresh = [s \in Sessions |-> FALSE]

Answer(s, a) == answer' = [answer EXCEPT ![s] = a]

\* A CHECK refuses the statement.
Fails(after) == \E rule \in checks : Breaks(after, rule)

\* A service's write: the guard, then the statement, then the response.
Write(s, old, after, done) ==
    \/ /\ Refused(entity, old, after) # {}
       /\ Answer(s, "violations")
       /\ UNCHANGED <<row, seen, fresh>>
    \/ /\ Refused(entity, old, after) = {}
       /\ Fails(after)
       /\ Answer(s, "database_error")
       /\ UNCHANGED <<row, seen, fresh>>
    \/ /\ Refused(entity, old, after) = {}
       /\ ~ Fails(after)
       /\ row' = after
       /\ seen' = [seen EXCEPT ![s] = Shown(entity, after)]
       /\ fresh' = [u \in Sessions |-> u = s]
       /\ Answer(s, done)

-----------------------------------------------------------------------------

\* POST: a body may lack any column.
Create(s, sent) ==
    /\ pc[s] = "idle" /\ row = Absent
    /\ \/ /\ ~ Readable(entity, sent)
          /\ Answer(s, "unreadable")
          /\ UNCHANGED <<row, seen, fresh>>
       \/ /\ Readable(entity, sent)
          /\ Write(s, Absent, FromCreate(entity, sent), "created")
    /\ UNCHANGED <<entity, focus, checks, outside, pc, edit, before>>

Get(s) ==
    /\ pc[s] = "idle" /\ row # Absent
    /\ seen' = [seen EXCEPT ![s] = Shown(entity, row)]
    /\ fresh' = [fresh EXCEPT ![s] = TRUE]
    /\ Answer(s, "shown")
    /\ UNCHANGED <<entity, focus, row, checks, outside, pc, edit, before>>

\* What the client sends: what it saw, with one column changed.
Sent(shown, change) ==
    [c \in DOMAIN shown |-> IF c = change[1] THEN change[2] ELSE shown[c]]

\* PUT, up to the load of the row.
Put(s, change) ==
    /\ pc[s] = "idle" /\ seen[s] # Absent
    /\ \/ /\ ~ Readable(entity, Sent(seen[s], change))
          /\ Answer(s, "unreadable")
          /\ UNCHANGED <<pc, edit, before>>
       \/ /\ Readable(entity, Sent(seen[s], change))
          /\ edit' = [edit EXCEPT ![s] = change]
          /\ before' = [before EXCEPT ![s] = row]
          /\ pc' = [pc EXCEPT ![s] = "store"]
          /\ Answer(s, "none")
    /\ UNCHANGED <<entity, focus, row, checks, outside, seen, fresh>>

\* PUT, from the guard to the response.
Store(s) ==
    /\ pc[s] = "store"
    /\ pc' = [pc EXCEPT ![s] = "idle"]
    /\ LET sent == Sent(seen[s], edit[s]) IN
        Write(s, before[s], ApplyUpdate(entity, before[s], sent), "updated")
    /\ edit' = [edit EXCEPT ![s] = <<>>]
    /\ before' = [before EXCEPT ![s] = Absent]
    /\ UNCHANGED <<entity, focus, checks, outside>>

\* The connection is lost before the statement.
Abort(s) ==
    /\ pc[s] = "store"
    /\ pc' = [pc EXCEPT ![s] = "idle"]
    /\ edit' = [edit EXCEPT ![s] = <<>>]
    /\ before' = [before EXCEPT ![s] = Absent]
    /\ UNCHANGED <<entity, focus, row, checks, outside, seen, answer, fresh>>

-----------------------------------------------------------------------------
(* Past the services.                                                      *)

Unguarded(after, columns) ==
    /\ ~ Fails(after)
    /\ row' = after
    /\ outside' = outside \union {rule \in entity.rules : /\ rule[1] \in columns
                                                          /\ Breaks(after, rule)}
    /\ fresh' = [u \in Sessions |-> FALSE]
    /\ UNCHANGED <<entity, focus, checks, pc, seen, edit, before, answer>>

\* A host builds a row and inserts it itself.
BuildAndInsert(given) ==
    /\ row = Absent
    /\ entity.required \subseteq DOMAIN given
    /\ Unguarded(Build(entity, given), Every(entity.columns))

\* One of the engine's UPDATEs.
EngineUpdates(columns, written) ==
    /\ row # Absent
    /\ Unguarded([c \in Every(entity.columns) |->
                    IF c \in columns \intersect focus THEN written[c] ELSE row[c]],
                 columns)

\* A declared CHECK becomes a constraint unless a stored row breaks it.
Migrate(rule) ==
    /\ row # Absent => ~ Breaks(row, rule)
    /\ checks' = checks \union {rule}
    /\ UNCHANGED <<entity, focus, row, outside, pc, seen, edit, before, answer, fresh>>

Call(s) ==
    \/ \E missing \in SUBSET focus :
          \E sent \in Filled(Every(entity.columns) \ missing) : Create(s, sent)
    \/ Get(s)
    \/ \E change \in Edits : Put(s, change)
    \/ Store(s)
    \/ Abort(s)

Host == \E missing \in SUBSET focus :
            \E given \in Filled(Every(entity.columns) \ missing) : BuildAndInsert(given)

Engine == \E columns \in entity.updates : \E written \in Filled(columns) :
            EngineUpdates(columns, written)

Migration == \E rule \in entity.checks : Migrate(rule)

Next == (\E s \in Sessions : Call(s)) \/ Host \/ Engine \/ Migration

Spec == Init /\ [][Next]_vars

-----------------------------------------------------------------------------

\* Rows, what clients hold of them and answers keep their types.
TypeOK ==
    /\ entity \in Entities
    /\ focus \subseteq Every(entity.columns)
    /\ row = Absent \/ IsRow(entity, row)
    /\ checks \subseteq entity.checks
    /\ outside \subseteq entity.rules
    /\ pc \in [Sessions -> {"idle", "store"}]
    /\ answer \in [Sessions -> Answers]
    /\ fresh \in [Sessions -> BOOLEAN]
    /\ DOMAIN seen = Sessions /\ DOMAIN before = Sessions /\ DOMAIN edit = Sessions
    /\ \A s \in Sessions :
          /\ seen[s] = Absent \/ IsShown(entity, seen[s])
          /\ before[s] = Absent \/ IsRow(entity, before[s])
          /\ edit[s] = <<>> \/ edit[s] \in Edits

\* A client that changes one column of what it was shown changes that column and no other:
\* if nobody else has written since it saw the row, the row it stores differs from the one
\* it saw where it edited and nowhere else, through the five lists of columns that From,
\* the response, the body, apply_update and the entity name by hand; and a body made of
\* what a response has shown is never refused as unreadable.
EditsAreLocal ==
    [][\A s \in Sessions :
        /\ pc[s] = "store" /\ pc'[s] = "idle" /\ answer'[s] = "updated" /\ fresh[s] =>
              row' = [c \in Every(entity.columns) |->
                        IF c = edit[s][1] THEN edit[s][2] ELSE row[c]]
        /\ answer'[s] = "unreadable" /\ answer[s] # "unreadable" => row = Absent]_vars

\* A stored value that breaks a rule of its service came in past the services: although
\* the guard is asked about changed columns only, and against a row that somebody may have
\* repaired since it was read, no order of creates and PUTs brings in a breach of its own.
BreachIsForeign ==
    row # Absent =>
        \A rule \in entity.rules : Breaks(row, rule) => rule \in outside

\* The guard and the CHECKs ask the same: a write of a service the guard lets through meets
\* a CHECK only if the row it was judged against was already in breach and has been
\* written, and migrated, since.  A create never does.
BackstopIsForStaleRows ==
    [][\A s \in Sessions :
        answer'[s] = "database_error" /\ answer[s] # "database_error" =>
            /\ pc[s] = "store" /\ before[s] # row
            /\ \E rule \in checks : Breaks(before[s], rule)]_vars
=============================================================================
