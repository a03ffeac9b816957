------------------------- MODULE GuardedSurfaceInv -------------------------
(***************************************************************************)
(* Why the delegation verbs keep their promises: what a handler knows of   *)
(* its window at each statement, and which windows it has to itself.       *)
(* GuardedSurface_proofs proves it inductive, TLC checks it on the         *)
(* instance of MCGuardedSurface.                                           *)
(***************************************************************************)
EXTENDS GuardedSurface

\* Which verb stands at which statement.
RunsAt(label, verb) ==
    \/ label = "idle"             /\ verb = "none"
    \/ label = "insert"           /\ verb = "create"
    \/ label \in {"get", "update"} /\ verb = "revoke"
    \/ label = "select"           /\ verb \in {"decide", "read"}
    \/ label \in {"check", "mark"} /\ verb = "decide"
    \/ label = "commit"           /\ verb \in {"create", "revoke", "decide"}

\* A window in the table that handler locals c may decide through for `approver`.
LentTo(w, c, approver) ==
    /\ windows[w] # NotThere /\ w \notin c.gone
    /\ windows[w].approver_id = approver /\ windows[w].delegate_to_id = c.actor
    /\ windows[w].home = c.home
    /\ windows[w].valid_from <= c.began /\ c.began <= windows[w].valid_to

\* What a handler with locals c knows before its statement `label`: an id it has drawn
\* is still nobody's row, a window it has read is still its actor's to revoke, and one it
\* decides through still says what it said, although it may be revoked by now.
Knows(label, c) ==
    /\ RunsAt(label, c.verb)
    /\ c.home = rpool(c.verb, c.tenant)
    /\ c.verb \in {"create", "revoke", "decide"} =>
            c.user \in Users /\ c.actor = EmployeeOf[c.user]
    /\ c.verb \in {"create", "revoke"} => c.window \in Windows
    /\ c.verb = "create" =>
            /\ windows[c.window] = NotThere
            /\ c.row \in Window
            /\ c.row.home = c.home /\ c.row.approver_id = c.actor
            /\ c.row.status = "active"
    /\ c.verb = "revoke" /\ label # "get" =>
            /\ windows[c.window] # NotThere
            /\ windows[c.window].home = c.home
            /\ windows[c.window].approver_id = c.actor
    /\ c.verb = "revoke" /\ label = "commit" => windows[c.window].status = "active"
    /\ c.verb \in {"decide", "read"} => c.request \in Requests
    /\ \A w \in c.gone : windows[w].status = "revoked"
    /\ label \in {"check", "mark", "commit"} /\ c.verb = "decide" =>
            c.request \in RequestsOf[c.home]
    /\ label \in {"mark", "commit"} /\ c.verb = "decide" =>
            \/ c.actor = ApproverOf[c.request]
            \/ \E w \in Windows : LentTo(w, c, ApproverOf[c.request])
    /\ label = "commit" /\ c.verb = "decide" =>
            c.actor \in Employees /\ decider[c.request] = Nobody

\* The windows no other handler may write: the id drawn, the row locked.
Claims(label, c) ==
    IF c.verb = "create" \/ (c.verb = "revoke" /\ label = "commit")
    THEN {c.window} ELSE {}

\* The requests no other handler may decide: the row marked.
Marks(label, c) == IF label = "commit" /\ c.verb = "decide" THEN {c.request} ELSE {}

\* The inductive invariant: what a handler has read of its window stays true until it
\* commits, because nobody else has a claim on the window or the row it marks, and every
\* window in the table was created by a token of its approver's.
SurfaceDiscipline ==
    /\ \A s \in Sessions : Knows(pc[s], tx[s])
    /\ \A s, u \in Sessions : s # u =>
            /\ Claims(pc[s], tx[s]) \intersect Claims(pc[u], tx[u]) = {}
            /\ Marks(pc[s], tx[s]) \intersect Marks(pc[u], tx[u]) = {}
    /\ \A w \in Windows : windows[w] # NotThere =>
            granter[w] \in Users /\ EmployeeOf[granter[w]] = windows[w].approver_id
=============================================================================
