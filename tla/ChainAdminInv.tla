--------------------------- MODULE ChainAdminInv ---------------------------
(***************************************************************************)
(* Why a policy's chain stays whole however replacements and row edits     *)
(* interleave: what a replacement knows at each of its statements, and     *)
(* what no two of them can have.  ChainAdmin_proofs proves it inductive,   *)
(* TLC checks it on the instance of MCChainAdmin.                          *)
(***************************************************************************)
EXTENDS ChainAdmin

\* The statements at which a replacement has seen, retired and written nothing yet, ...
Untouching == {"idle", "exists", "retire"}

\* ... and the ones behind its snapshot.
BehindSnapshot == {"lock", "insert", "commit"}

\* What the locals c hold before the statement `label`.
InPlace(label, c) ==
    /\ label = "idle" <=> c.policy = NoPolicy
    /\ label # "idle" => c.steps \in Proposals /\ check_chain(c.steps) = "none"
    /\ label \in Untouching => /\ c.seen = {} /\ c.retired = {} /\ c.written = <<>>
                             /\ ~ c.edited /\ ~ c.overtaken /\ c.late = {}
    /\ label = "lock" => c.written = <<>>
    /\ label \in {"insert", "commit"} => c.seen = {}
    /\ label = "insert" => Len(c.written) < Len(c.steps)
    /\ label = "commit" => Len(c.written) = Len(c.steps)

\* The rows a replacement has retired are live and its policy's, the ids it has written
\* are nobody's and its own once, and the keys it has written are free but for its own
\* retired rows.
Holds(c) ==
    /\ c.retired \subseteq LiveOf(c.policy)
    /\ \A i \in DOMAIN c.written :
            /\ c.written[i] \notin Live
            /\ Keyed(c.policy, i) \subseteq c.retired
            /\ \A j \in DOMAIN c.written : c.written[i] = c.written[j] => i = j

\* No two replacements hold one row, one id or one key, and none has seen a row that
\* another has not committed.
Separate(c, d) ==
    /\ c.retired \intersect d.retired = {}
    /\ \A i \in DOMAIN c.written :
            /\ c.written[i] \notin d.seen
            /\ \A j \in DOMAIN d.written : c.written[i] # d.written[j]
            /\ c.policy = d.policy => i \notin DOMAIN d.written

\* What the snapshot of retire_templates has missed: nothing, unless a row was edited
\* by hand or another replacement committed; and behind that one's first row, which the
\* snapshot has not, no first row can be written.
SnapshotMisses(label, c) ==
    label \in BehindSnapshot /\ ~ c.edited =>
        IF c.overtaken
        THEN /\ c.written = <<>>
             /\ \E r \in Keyed(c.policy, 1) : r \notin c.seen \union c.retired
        ELSE LiveOf(c.policy) \subseteq c.seen \union c.retired

\* A live row of the policy that the snapshot has missed was written since.
LateIsLate(label, c) ==
    label \in BehindSnapshot =>
        /\ LiveOf(c.policy) \subseteq c.seen \union c.retired \union c.late
        /\ c.late \subseteq LiveOf(c.policy)

\* What a replacement knows before its next statement.
Knows(label, c) ==
    InPlace(label, c) /\ Holds(c) /\ SnapshotMisses(label, c) /\ LateIsLate(label, c)

\* The inductive invariant: row locks and the index keep replacements apart, and a
\* replacement that gets through has replaced all there was.
TableDiscipline ==
    /\ \A a \in Admins : Knows(pc[a], tx[a])
    /\ \A a, b \in Admins : a # b => Separate(tx[a], tx[b])
    /\ OneRowPerStep
    /\ ChainIsWhole
    /\ \A p \in Policies : latest[p] # NoChain => check_chain(latest[p]) = "none"
=============================================================================
