----------------------------- MODULE ChainTable -----------------------------
(***************************************************************************)
(* What a reader of the live templates (a filing, a preview) may see of    *)
(* them from one moment to the next: one row edited by hand, or a policy's *)
(* chain replaced at once.  Of the old chain a replacement leaves nothing; *)
(* what it does leave has been written since its snapshot, and without a   *)
(* row edited by hand since then nothing has: of two replacements that     *)
(* started from one chain, the second to commit would mix the two, and may *)
(* not.                                                                    *)
(***************************************************************************)
EXTENDS Naturals, Sequences

CONSTANTS
    Policies, NoPolicy,
    Chains,         \* the chains a replacement may write
    Calls           \* the replacements that may be under way at once

VARIABLES
    rows,           \* the live templates: <<policy, step number, step>>
    call            \* history: what has happened to the policy of each replacement
                    \* since its snapshot

\* Nothing has happened to p yet.
Untouched(p) == [policy |-> p, edited |-> FALSE, overtaken |-> FALSE, late |-> {}]

Idle == Untouched(NoPolicy)

Init == rows = {} /\ call = [c \in Calls |-> Idle]

\* A record r when another chain is put in place, of whose predecessor `kept` stays, ...
Overtaken(r, kept, new) ==
    [policy |-> r.policy, edited |-> r.edited, overtaken |-> TRUE,
     late |-> (r.late \intersect kept) \union new]

\* ... and when a row is edited by hand, that was `gone` and is `come`.
Edited(r, gone, come) ==
    [policy |-> r.policy, edited |-> TRUE, overtaken |-> r.overtaken,
     late |-> (r.late \ gone) \union {y \in come : y[1] = r.policy}]

\* The rows of a chain of policy p, numbered 1..n.
Numbered(p, steps) == {<<p, n, steps[n]>> : n \in DOMAIN steps}

\* A replacement looks at the chain of p; ...
Begin(c, p) ==
    /\ call[c] = Idle
    /\ call' = [call EXCEPT ![c] = Untouched(p)]
    /\ UNCHANGED rows

\* ... it gives up; ...
Abandon(c) ==
    /\ call' = [call EXCEPT ![c] = Idle]
    /\ UNCHANGED rows

\* ... or the chain becomes `steps`, and `kept` of what was written since it looked.
Replace(c, steps) ==
    LET p == call[c].policy IN
    /\ p # NoPolicy
    /\ call[c].overtaken => call[c].edited
    /\ \E kept \in SUBSET {x \in call[c].late : x[2] \notin DOMAIN steps} :
        /\ rows' = {x \in rows : x[1] # p} \union Numbered(p, steps) \union kept
        /\ call' = [d \in Calls |->
                        IF d = c THEN Idle
                        ELSE IF call[d].policy = p
                        THEN Overtaken(call[d], kept, Numbered(p, steps))
                        ELSE call[d]]

\* One row is created, rewritten or deleted; its number was free in its policy.
EditRow ==
    \E gone \in {{}} \union {{x} : x \in rows}, come \in {{}} \union {{y} : y \in rows'} :
        /\ rows' = (rows \ gone) \union come
        /\ \A x \in rows \ gone, y \in come : <<x[1], x[2]>> # <<y[1], y[2]>>
        /\ call' = [d \in Calls |->
                        IF \E x \in gone \union come : x[1] = call[d].policy
                        THEN Edited(call[d], gone, come)
                        ELSE call[d]]

Next == \/ \E c \in Calls : \/ \E p \in Policies : Begin(c, p)
                            \/ Abandon(c)
                            \/ \E steps \in Chains : Replace(c, steps)
        \/ EditRow

Spec == Init /\ [][Next]_<<rows, call>>
=============================================================================
