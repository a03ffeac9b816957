------------------------- MODULE ApprovalLifecycle -------------------------
(***************************************************************************)
(* What an approval request promises whoever filed it, with no calls, no   *)
(* transactions and no locks: the question is put to one step of the chain *)
(* after the other, a set of rows is still open, and one atomic step of    *)
(* this specification is what one committed call may do.                   *)
(***************************************************************************)
EXTENDS Naturals

CONSTANT Rows

VARIABLES
    stepNo,   \* the step each row of the chain belongs to
    status,   \* the request's verdict, or "pending"
    level,    \* the step whose rows are asked now
    open      \* the rows nobody has decided and nothing has skipped

life == <<stepNo, status, level, open>>

At(n) == {r \in Rows : stepNo[r] = n}
Asked == open \intersect At(level)

Init ==
    /\ stepNo \in [Rows -> Nat \ {0}]
    /\ status = "pending"
    /\ level = 1
    /\ open = Rows

\* Rows of the current step are settled and the question stays with the step.
Settle ==
    /\ status = "pending"
    /\ \E rows \in (SUBSET Asked) \ {{}} : open' = open \ rows
    /\ UNCHANGED <<stepNo, status, level>>

\* The last open rows of the current step are settled: on to the next step, ...
MoveOn ==
    /\ status = "pending"
    /\ Asked # {}
    /\ \E r \in Rows : stepNo[r] > level
    /\ open' = open \ Asked
    /\ level' = level + 1
    /\ UNCHANGED <<stepNo, status>>

\* ... or, behind the last one, approved.
Approve ==
    /\ status = "pending"
    /\ Asked # {} /\ Asked = open
    /\ \A r \in Rows : stepNo[r] <= level
    /\ open' = {}
    /\ status' = "approved"
    /\ UNCHANGED <<stepNo, level>>

\* One of the rows asked rejects, and nobody is asked any more.
Reject ==
    /\ status = "pending"
    /\ Asked # {}
    /\ open' = {}
    /\ status' = "rejected"
    /\ UNCHANGED <<stepNo, level>>

Withdraw ==
    /\ status = "pending"
    /\ open' = {}
    /\ status' = "withdrawn"
    /\ UNCHANGED <<stepNo, level>>

Next == Settle \/ MoveOn \/ Approve \/ Reject \/ Withdraw

Spec == Init /\ [][Next]_life
=============================================================================
