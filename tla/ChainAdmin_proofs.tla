-------------------------- MODULE ChainAdmin_proofs --------------------------
(***************************************************************************)
(* However many replacements, row edits and policy deletions interleave, a *)
(* policy has one live row per step, the last chain it was given is there  *)
(* whole, and readers see it replaced in one step (ChainTable).  All of it *)
(* follows from TableDiscipline, which every statement preserves.          *)
(***************************************************************************)
EXTENDS ChainAdminInv, WaitCircles, TLAPS

\* What every reachable state satisfies.
Inv == TypeOK /\ TableDiscipline

\* The rows a replacement has written.
RowsOf(written) == {written[n] : n \in DOMAIN written}

-----------------------------------------------------------------------------
(* A statement of one session that leaves the committed rows alone.        *)

\* The locals a session goes on with are nobody else's.
Apart(a, c) == \A b \in Admins : b # a => Separate(tx[b], c) /\ Separate(c, tx[b])

\* A session that goes on with locals it knows enough about, and apart from the
\* others, preserves the invariant.
LEMMA SessionMoves ==
    ASSUME Inv, NEW a \in Admins, NEW label \in PCs, NEW c \in Locals,
           pc' = [pc EXCEPT ![a] = label], tx' = [tx EXCEPT ![a] = c],
           UNCHANGED <<templates, latest>>, policies' \subseteq Policies,
           answer' \in [Admins -> Outcomes],
           Knows(label, c), Apart(a, c)
    PROVE  Inv'
<1>1. TypeOK'
  BY DEF Inv, TypeOK
<1>2. /\ pc \in [Admins -> PCs] /\ tx \in [Admins -> Locals]
      /\ \A b \in Admins : Knows(pc[b], tx[b])
      /\ \A b, d \in Admins : b # d => Separate(tx[b], tx[d])
  BY DEF Inv, TypeOK, TableDiscipline
<1>3. ASSUME NEW b \in Admins PROVE Knows(pc[b], tx[b])'
  <2>1. Knows(pc'[b], tx'[b])
    BY <1>2
  <2>2. InPlace(pc[b], tx[b])'
    BY <2>1 DEF Knows, InPlace, Untouching
  <2>3. Holds(tx[b])'
    BY <2>1 DEF Knows, Holds, LiveOf, Live, Keyed
  <2>4. SnapshotMisses(pc[b], tx[b])'
    BY <2>1 DEF Knows, SnapshotMisses, LiveOf, Keyed, BehindSnapshot
  <2>5. LateIsLate(pc[b], tx[b])'
    BY <2>1 DEF Knows, LateIsLate, LiveOf, BehindSnapshot
  <2> QED
    BY <2>2, <2>3, <2>4, <2>5 DEF Knows
<1>4. ASSUME NEW b \in Admins, NEW d \in Admins, b # d
      PROVE  Separate(tx[b], tx[d])'
  <2>1. Separate(tx'[b], tx'[d])
    BY <1>2, <1>4 DEF Apart
  <2> QED
    BY <2>1 DEF Separate
<1>5. (/\ OneRowPerStep /\ ChainIsWhole
       /\ \A p \in Policies : latest[p] # NoChain => check_chain(latest[p]) = "none")'
  BY DEF Inv, TableDiscipline, OneRowPerStep, ChainIsWhole, ChainOf, Numbered, LiveOf, Live
<1> QED
  BY <1>1, <1>3, <1>4, <1>5 DEF Inv, TableDiscipline

-----------------------------------------------------------------------------
(* Locals.                                                                 *)

\* No id is a policy of rows that are not there.
LEMMA LiveFacts ==
    ASSUME TypeOK
    PROVE  /\ \A p \in Policies : LiveOf(p) \subseteq Live
           /\ \A r \in Live : templates[r] \in TemplateRow
           /\ \A r \in Rows \ Live : templates[r] = Vacant
BY AdminAssumption DEF TypeOK, LiveOf, Live, TemplateRow, Vacant

\* A session without a call knows all it should and is in nobody's way.
LEMMA NoCallFacts ==
    /\ NoCall \in Locals /\ Knows("idle", NoCall)
    /\ \A a \in Admins : Apart(a, NoCall)
<1>1. /\ NoCall.policy = NoPolicy /\ NoCall.seen = {} /\ NoCall.retired = {}
      /\ NoCall.written = <<>> /\ ~ NoCall.edited /\ ~ NoCall.overtaken
      /\ NoCall.late = {}
  BY DEF NoCall
<1>2. <<>> \in Seq(Rows) /\ Len(<<>>) = 0 /\ DOMAIN <<>> = {}
  OBVIOUS
<1>3. NoCall \in Locals
  BY <1>2, AdminAssumption DEF NoCall, Locals
<1>4. Knows("idle", NoCall)
  BY <1>1, <1>2 DEF Knows, InPlace, Holds, SnapshotMisses, LateIsLate, Untouching,
                    BehindSnapshot
<1>5. \A a \in Admins : Apart(a, NoCall)
  BY <1>1, <1>2 DEF Apart, Separate
<1> QED
  BY <1>3, <1>4, <1>5

\* Whatever a replacement returns without a commit.
LEMMA Returns ==
    ASSUME Inv, NEW a \in Admins, NEW outcome \in Outcomes, Return(a, outcome)
    PROVE  Inv'
<1>1. /\ pc' = [pc EXCEPT ![a] = "idle"] /\ tx' = [tx EXCEPT ![a] = NoCall]
      /\ UNCHANGED <<templates, latest>> /\ policies' \subseteq Policies
      /\ answer' \in [Admins -> Outcomes]
  BY DEF Inv, TypeOK, Return, Goto
<1> QED
  BY <1>1, NoCallFacts, SessionMoves DEF PCs

\* A statement that only moves on.
LEMMA Steps ==
    ASSUME Inv, NEW a \in Admins, NEW label \in PCs, NEW c \in Locals,
           Step(a, label, c), Knows(label, c), Apart(a, c)
    PROVE  Inv'
<1>1. /\ pc' = [pc EXCEPT ![a] = label] /\ tx' = [tx EXCEPT ![a] = c]
      /\ UNCHANGED <<templates, latest>> /\ policies' \subseteq Policies
      /\ answer' \in [Admins -> Outcomes]
  BY DEF Inv, TypeOK, Step, Goto
<1> QED
  BY <1>1, SessionMoves

\* What a session knows of itself and of the others.
LEMMA SessionFacts ==
    ASSUME Inv, NEW a \in Admins
    PROVE  /\ tx[a] \in Locals /\ pc[a] \in PCs
           /\ InPlace(pc[a], tx[a]) /\ Holds(tx[a]) /\ SnapshotMisses(pc[a], tx[a])
           /\ LateIsLate(pc[a], tx[a]) /\ Apart(a, tx[a])
BY DEF Inv, TypeOK, TableDiscipline, Knows, Apart

\* A chain that check_chain lets pass is neither empty nor too long.
LEMMA CheckedLength ==
    ASSUME NEW steps \in Proposals, check_chain(steps) = "none"
    PROVE  Len(steps) \in 1..MaxChainSteps /\ DOMAIN steps = 1..Len(steps)
BY AdminAssumption DEF check_chain

-----------------------------------------------------------------------------
(* The statements before the first insert.                                 *)

\* The codes check_chain answers with are codes.
LEMMA CheckCodes ==
    ASSUME NEW steps \in Proposals
    PROVE  check_chain(steps) \in Outcomes
<1>1. \A s : StepFault(s) \in Outcomes
  BY DEF StepFault, Outcomes
<1> QED
  BY <1>1 DEF check_chain, Outcomes

LEMMA ReplaceKeeps ==
    ASSUME Inv, NEW a \in Admins, NEW p \in Policies, NEW steps \in Proposals,
           Replace(a, p, steps)
    PROVE  Inv'
<1>1. CASE check_chain(steps) # "none"
  BY <1>1, CheckCodes, Returns DEF Replace
<1>2. CASE check_chain(steps) = "none"
  <2> DEFINE c == [NoCall EXCEPT !.policy = p, !.steps = steps]
  <2>1. /\ c.policy = p /\ c.steps = steps /\ c.seen = {} /\ c.retired = {}
        /\ c.written = <<>> /\ ~ c.edited /\ ~ c.overtaken /\ c.late = {}
    BY DEF NoCall
  <2>2. c \in Locals
    BY NoCallFacts DEF NoCall, Locals
  <2>3. /\ pc' = [pc EXCEPT ![a] = "exists"] /\ tx' = [tx EXCEPT ![a] = c]
        /\ UNCHANGED <<templates, latest>> /\ policies' \subseteq Policies
        /\ answer' \in [Admins -> Outcomes]
    BY <1>2 DEF Inv, TypeOK, Replace, Goto, Outcomes
  <2> HIDE DEF c
  <2>4. DOMAIN <<>> = {}
    OBVIOUS
  <2>5. Knows("exists", c)
    BY <1>2, <2>1, <2>4, AdminAssumption
    DEF Knows, InPlace, Holds, SnapshotMisses, LateIsLate, Untouching, BehindSnapshot
  <2>6. Apart(a, c)
    BY <2>1, <2>4 DEF Apart, Separate
  <2> QED
    BY <2>2, <2>3, <2>5, <2>6, SessionMoves DEF PCs
<1> QED
  BY <1>1, <1>2

LEMMA PolicyExistsKeeps ==
    ASSUME Inv, NEW a \in Admins, PolicyExists(a)
    PROVE  Inv'
<1>1. CASE tx[a].policy \in policies
  <2>1. pc[a] = "exists" /\ Step(a, "retire", tx[a])
    BY <1>1 DEF PolicyExists
  <2>2. Knows("retire", tx[a])
    BY <2>1, SessionFacts DEF Knows, InPlace, SnapshotMisses, LateIsLate, Untouching,
                              BehindSnapshot
  <2> QED
    BY <2>1, <2>2, SessionFacts, Steps DEF PCs
<1>2. CASE tx[a].policy \notin policies
  BY <1>2, Returns DEF PolicyExists, Outcomes
<1> QED
  BY <1>1, <1>2

LEMMA RetireTemplatesKeeps ==
    ASSUME Inv, NEW a \in Admins, RetireTemplates(a)
    PROVE  Inv'
<1> DEFINE c == [tx[a] EXCEPT !.seen = LiveOf(tx[a].policy)]
<1>1. pc[a] = "retire" /\ Step(a, "lock", c)
  BY DEF RetireTemplates
<1>2. tx[a] \in Locals /\ InPlace("retire", tx[a]) /\ Holds(tx[a]) /\ Apart(a, tx[a])
  BY <1>1, SessionFacts
<1>3. c \in Locals
  BY <1>2 DEF Locals, LiveOf
<1>4. /\ c.policy = tx[a].policy /\ c.steps = tx[a].steps /\ c.seen = LiveOf(c.policy)
      /\ c.retired = {} /\ c.written = <<>> /\ ~ c.overtaken /\ c.late = {}
      /\ c.policy # NoPolicy
      /\ c.steps \in Proposals /\ check_chain(c.steps) = "none"
  BY <1>2 DEF Locals, InPlace, Untouching
<1>5. c.policy \in Policies
  BY <1>3, <1>4 DEF Locals
<1> HIDE DEF c
<1>6. DOMAIN <<>> = {}
  OBVIOUS
<1>7. Knows("lock", c)
  BY <1>4, <1>6 DEF Knows, InPlace, Holds, SnapshotMisses, LateIsLate, Untouching
<1>8. Apart(a, c)
  <2> SUFFICES ASSUME NEW b \in Admins, b # a PROVE Separate(tx[b], c)
    BY <1>4, <1>6 DEF Apart, Separate
  <2>1. \A i \in DOMAIN tx[b].written : tx[b].written[i] \notin LiveOf(c.policy)
    BY <1>5, SessionFacts, LiveFacts DEF Holds, Inv
  <2> QED
    BY <1>4, <1>6, <2>1 DEF Separate
<1> QED
  BY <1>1, <1>3, <1>7, <1>8, Steps DEF PCs

LEMMA RetireRowKeeps ==
    ASSUME Inv, NEW a \in Admins, RetireRow(a)
    PROVE  Inv'
<1>1. PICK r \in tx[a].seen :
        /\ LockedBy(r) = {}
        /\ Step(a, "lock",
                IF r \in LiveOf(tx[a].policy)
                THEN [tx[a] EXCEPT !.seen = @ \ {r}, !.retired = @ \union {r}]
                ELSE [tx[a] EXCEPT !.seen = @ \ {r}])
  BY DEF RetireRow
<1> DEFINE c == IF r \in LiveOf(tx[a].policy)
                THEN [tx[a] EXCEPT !.seen = @ \ {r}, !.retired = @ \union {r}]
                ELSE [tx[a] EXCEPT !.seen = @ \ {r}]
<1>2. pc[a] = "lock"
  BY DEF RetireRow
<1>3. tx[a] \in Locals /\ Knows("lock", tx[a]) /\ Apart(a, tx[a])
  BY <1>2, SessionFacts DEF Knows
<1>4. r \in Rows
  BY <1>3 DEF Locals
<1>5. c \in Locals
  <2>1. CASE r \in LiveOf(tx[a].policy)
    BY <1>3, <1>4, <2>1 DEF Locals
  <2>2. CASE r \notin LiveOf(tx[a].policy)
    BY <1>3, <2>2 DEF Locals
  <2> QED
    BY <2>1, <2>2
<1>6. /\ c.policy = tx[a].policy /\ c.steps = tx[a].steps /\ c.written = tx[a].written
      /\ c.edited = tx[a].edited /\ c.overtaken = tx[a].overtaken /\ c.late = tx[a].late
      /\ c.seen = tx[a].seen \ {r}
      /\ c.retired = IF r \in LiveOf(c.policy) THEN tx[a].retired \union {r}
                     ELSE tx[a].retired
  BY <1>3 DEF Locals
<1> HIDE DEF c
<1>7. InPlace("lock", c)
  BY <1>3, <1>6 DEF Knows, InPlace, Untouching
<1>8. c.written = <<>> /\ DOMAIN <<>> = {}
  BY <1>7 DEF InPlace
<1>9. Holds(c)
  BY <1>3, <1>6, <1>8 DEF Knows, Holds
<1>10. SnapshotMisses("lock", c)
  BY <1>3, <1>6 DEF Knows, SnapshotMisses
<1>12. LateIsLate("lock", c)
  BY <1>3, <1>6 DEF Knows, LateIsLate, BehindSnapshot
<1>11. Apart(a, c)
  <2> SUFFICES ASSUME NEW b \in Admins, b # a PROVE Separate(tx[b], c) /\ Separate(c, tx[b])
    BY DEF Apart
  <2>1. r \notin tx[b].retired
    BY <1>1 DEF LockedBy
  <2>2. Separate(tx[b], tx[a]) /\ Separate(tx[a], tx[b])
    BY <1>3 DEF Apart
  <2> QED
    BY <1>6, <1>8, <2>1, <2>2 DEF Separate
<1> QED
  BY <1>1, <1>5, <1>7, <1>9, <1>10, <1>11, <1>12, Steps DEF PCs, Knows, c

LEMMA RetireEndsKeeps ==
    ASSUME Inv, NEW a \in Admins, RetireEnds(a)
    PROVE  Inv'
<1>1. pc[a] = "lock" /\ tx[a].seen = {} /\ Step(a, "insert", tx[a])
  BY DEF RetireEnds
<1>2. InPlace("lock", tx[a]) /\ tx[a] \in Locals
  BY <1>1, SessionFacts
<1>3. Len(<<>>) = 0
  OBVIOUS
<1>4. Len(tx[a].steps) \in 1..MaxChainSteps
  BY <1>2, CheckedLength DEF InPlace
<1>5. InPlace("insert", tx[a])
  BY <1>1, <1>2, <1>3, <1>4, AdminAssumption DEF InPlace, Untouching
<1> QED
  BY <1>1, <1>5, SessionFacts, Steps
  DEF Knows, SnapshotMisses, LateIsLate, BehindSnapshot, PCs

-----------------------------------------------------------------------------
(* The inserts.                                                            *)

\* A fresh id is nobody's, and the guard keeps the key from the other sessions.
LEMMA InsertTemplateKeeps ==
    ASSUME Inv, NEW a \in Admins, InsertTemplate(a)
    PROVE  Inv'
<1>1. PICK r \in Fresh :
        Step(a, IF Len(Append(tx[a].written, r)) = Len(tx[a].steps) THEN "commit" ELSE "insert",
             [tx[a] EXCEPT !.written = Append(tx[a].written, r)])
  BY DEF InsertTemplate
<1> DEFINE n == NextNumber(a)
           c == [tx[a] EXCEPT !.written = Append(tx[a].written, r)]
           label == IF Len(Append(tx[a].written, r)) = Len(tx[a].steps)
                    THEN "commit" ELSE "insert"
<1>2. /\ pc[a] = "insert"
      /\ Keyed(tx[a].policy, n) \subseteq tx[a].retired
      /\ \A b \in Admins : b # a => ~ HasWritten(b, tx[a].policy, n)
  BY DEF InsertTemplate, HoldingKey
<1>3. /\ tx[a] \in Locals /\ InPlace("insert", tx[a]) /\ Holds(tx[a])
      /\ SnapshotMisses("insert", tx[a]) /\ LateIsLate("insert", tx[a]) /\ Apart(a, tx[a])
  BY <1>2, SessionFacts
<1>4. /\ r \in Rows /\ r \notin Live
      /\ \A b \in Admins : r \notin tx[b].seen /\ \A i \in DOMAIN tx[b].written : tx[b].written[i] # r
  BY DEF Fresh, Written
<1>5. /\ tx[a].written \in Seq(Rows) /\ tx[a].steps \in Proposals
      /\ check_chain(tx[a].steps) = "none" /\ Len(tx[a].written) < Len(tx[a].steps)
      /\ Len(tx[a].steps) \in 1..MaxChainSteps /\ tx[a].seen = {}
  BY <1>3, CheckedLength DEF Locals, InPlace
<1>6. n = Len(tx[a].written) + 1 /\ n \in 1..MaxChainSteps
  BY <1>5, AdminAssumption DEF NextNumber
<1>7. c \in Locals
  <2>1. Append(tx[a].written, r) \in Seq(Rows)
    BY <1>4, <1>5
  <2>2. Len(Append(tx[a].written, r)) <= MaxChainSteps
    BY <1>4, <1>5, <1>6, AdminAssumption
  <2> QED
    BY <1>3, <2>1, <2>2 DEF Locals
<1>8. /\ c.policy = tx[a].policy /\ c.steps = tx[a].steps /\ c.seen = {}
      /\ c.retired = tx[a].retired /\ c.edited = tx[a].edited
      /\ c.overtaken = tx[a].overtaken /\ c.written = Append(tx[a].written, r)
      /\ c.late = tx[a].late
  BY <1>3, <1>5 DEF Locals
<1>9. /\ Len(c.written) = n /\ DOMAIN c.written = 1..n /\ c.written[n] = r
      /\ DOMAIN tx[a].written = 1..(n - 1)
      /\ \A i \in 1..(n - 1) : c.written[i] = tx[a].written[i]
  BY <1>4, <1>5, <1>6, <1>8
<1>10. /\ label \in {"insert", "commit"}
       /\ label = "commit" <=> Len(c.written) = Len(c.steps)
  BY <1>8
<1>11. Step(a, label, c)
  BY <1>1
<1> HIDE DEF c, label, n
<1>12. InPlace(label, c)
  BY <1>3, <1>5, <1>6, <1>8, <1>9, <1>10, AdminAssumption DEF InPlace, Untouching
<1>13. Holds(c)
  <2>1. c.retired \subseteq LiveOf(c.policy)
    BY <1>3, <1>8 DEF Holds
  <2>2. ASSUME NEW i \in DOMAIN c.written
        PROVE  /\ c.written[i] \notin Live
               /\ Keyed(c.policy, i) \subseteq c.retired
    <3>1. CASE i = n
      BY <1>2, <1>4, <1>8, <1>9, <3>1
    <3>2. CASE i # n
      <4>1. i \in 1..(n - 1)
        BY <1>6, <1>9, <3>2
      <4> QED
        BY <1>3, <1>8, <1>9, <4>1 DEF Holds
    <3> QED
      BY <3>1, <3>2
  <2>3. ASSUME NEW i \in DOMAIN c.written, NEW j \in DOMAIN c.written,
               c.written[i] = c.written[j]
        PROVE  i = j
    <3>1. i \in 1..n /\ j \in 1..n
      BY <1>9
    <3>2. CASE i # n /\ j # n
      <4>1. i \in DOMAIN tx[a].written /\ j \in DOMAIN tx[a].written
        BY <1>6, <1>9, <3>1, <3>2
      <4>2. tx[a].written[i] = tx[a].written[j]
        BY <1>9, <2>3, <4>1
      <4> QED
        BY <1>3, <4>1, <4>2 DEF Holds
    <3>3. CASE i # n /\ j = n
      <4>1. i \in DOMAIN tx[a].written
        BY <1>6, <1>9, <3>1, <3>3
      <4> QED
        BY <1>4, <1>9, <2>3, <3>3, <4>1
    <3>4. CASE i = n /\ j # n
      <4>1. j \in DOMAIN tx[a].written
        BY <1>6, <1>9, <3>1, <3>4
      <4> QED
        BY <1>4, <1>9, <2>3, <3>4, <4>1
    <3> QED
      BY <3>2, <3>3, <3>4
  <2> QED
    BY <2>1, <2>2, <2>3 DEF Holds
<1>14. SnapshotMisses(label, c)
  <2>1. CASE ~ c.edited /\ c.overtaken
    <3>1. tx[a].written = <<>> /\ \E q \in Keyed(tx[a].policy, 1) : q \notin tx[a].retired
      BY <1>3, <1>8, <2>1 DEF SnapshotMisses, BehindSnapshot
    <3>2. n = 1
      BY <1>6, <3>1
    <3> QED
      BY <1>2, <3>1, <3>2
  <2>2. CASE ~ c.edited /\ ~ c.overtaken
    BY <1>3, <1>5, <1>8, <2>2 DEF SnapshotMisses, BehindSnapshot
  <2> QED
    BY <2>1, <2>2 DEF SnapshotMisses
<1>16. LateIsLate(label, c)
  BY <1>3, <1>5, <1>8 DEF LateIsLate, BehindSnapshot
<1>15. ASSUME NEW b \in Admins, b # a
       PROVE  Separate(tx[b], c) /\ Separate(c, tx[b])
  <2>1. Separate(tx[b], tx[a]) /\ Separate(tx[a], tx[b])
    BY <1>3, <1>15 DEF Apart
  <2>2. ASSUME NEW i \in DOMAIN c.written
        PROVE  /\ c.written[i] \notin tx[b].seen
               /\ \A j \in DOMAIN tx[b].written : c.written[i] # tx[b].written[j]
               /\ c.policy = tx[b].policy => i \notin DOMAIN tx[b].written
    <3>1. CASE i = n
      BY <1>2, <1>4, <1>8, <1>9, <1>15, <3>1 DEF HasWritten
    <3>2. CASE i # n
      <4>1. i \in 1..(n - 1)
        BY <1>6, <1>9, <3>2
      <4> QED
        BY <1>8, <1>9, <2>1, <4>1 DEF Separate
    <3> QED
      BY <3>1, <3>2
  <2>3. c.retired \intersect tx[b].retired = {}
    BY <1>8, <2>1 DEF Separate
  <2>4. Separate(c, tx[b])
    BY <2>2, <2>3 DEF Separate
  <2> QED
    BY <1>8, <2>2, <2>3, <2>4 DEF Separate
<1> QED
  BY <1>7, <1>10, <1>11, <1>12, <1>13, <1>14, <1>15, <1>16, Steps
  DEF PCs, Knows, Apart

-----------------------------------------------------------------------------
(* Rows edited by hand.                                                    *)

\* Row r, which no replacement has locked or written, becomes `row`, whose key is free
\* but for r itself; `touched` are the policies r has left or entered.
EditAllowed(r, row, touched) ==
    /\ r \in Rows /\ row \in TemplateRow \union {Vacant} /\ touched \subseteq Policies
    /\ LockedBy(r) = {} /\ r \notin Written
    /\ templates[r].policy # NoPolicy => templates[r].policy \in touched
    /\ row # Vacant => /\ row.policy \in touched
                       /\ Keyed(row.policy, row.step_no) \subseteq {r}
                       /\ HoldingKey(row.policy, row.step_no) = {}

\* What such an edit does to the rows of a policy and to the ids in use.
LEMMA EditFacts ==
    ASSUME Inv, NEW r, NEW row, NEW touched, EditAllowed(r, row, touched),
           templates' = [templates EXCEPT ![r] = row]
    PROVE  /\ \A q \in Rows : q # r => templates'[q] = templates[q]
           /\ templates'[r] = row
           /\ Live' \subseteq Live \union {r}
           /\ \A p \in Policies : LiveOf(p) \subseteq LiveOf(p)' \union {r}
           /\ \A p \in Policies \ touched :
                    LiveOf(p)' = LiveOf(p) /\ r \notin LiveOf(p)
           /\ \A p \in Policies : \A n : r \in Keyed(p, n)' =>
                    /\ Keyed(p, n)' \subseteq {r} /\ HoldingKey(p, n) = {}
           /\ \A p \in Policies : \A n : r \notin Keyed(p, n)' => Keyed(p, n)' \subseteq Keyed(p, n)
<1>1. templates \in [Rows -> TemplateRow \union {Vacant}] /\ r \in Rows
  BY DEF Inv, TypeOK, EditAllowed
<1>2. (\A q \in Rows : q # r => templates'[q] = templates[q]) /\ templates'[r] = row
  BY <1>1
<1>3. /\ row = Vacant => row.policy = NoPolicy
      /\ row # Vacant => row \in TemplateRow /\ row.policy \in touched
      /\ NoPolicy \notin Policies /\ touched \subseteq Policies
  BY AdminAssumption DEF EditAllowed, Vacant
<1>4. Live' \subseteq Live \union {r}
  BY <1>2 DEF Live
<1>5. \A p \in Policies : LiveOf(p) \subseteq LiveOf(p)' \union {r}
  BY <1>2 DEF LiveOf
<1>6. ASSUME NEW p \in Policies \ touched
      PROVE  LiveOf(p)' = LiveOf(p) /\ r \notin LiveOf(p)
  BY <1>2, <1>3, <1>6 DEF LiveOf, EditAllowed
<1>7. ASSUME NEW p \in Policies, NEW n, r \in Keyed(p, n)'
      PROVE  /\ Keyed(p, n)' \subseteq {r} /\ HoldingKey(p, n) = {}
  <2>1. row.policy = p /\ row.step_no = n /\ row # Vacant
    BY <1>2, <1>3, <1>7 DEF Keyed, LiveOf
  <2>2. Keyed(p, n) \subseteq {r} /\ HoldingKey(p, n) = {}
    BY <2>1 DEF EditAllowed
  <2> QED
    BY <1>2, <2>2 DEF Keyed, LiveOf
<1>8. ASSUME NEW p \in Policies, NEW n, r \notin Keyed(p, n)'
      PROVE  Keyed(p, n)' \subseteq Keyed(p, n)
  BY <1>2, <1>8 DEF Keyed, LiveOf
<1> QED
  BY <1>2, <1>4, <1>5, <1>6, <1>7, <1>8

\* A session whose replacement an edit may pass by.
Passed(b, touched) == \E p \in touched : b \in PastSnapshot(p)

\* What an edit makes of the rows written since a session's snapshot.
LateAfter(b, r, touched) ==
    IF ~ Passed(b, touched) THEN tx[b].late
    ELSE IF templates'[r].policy = tx[b].policy THEN tx[b].late \union {r}
    ELSE tx[b].late \ {r}

\* What an edit leaves of a session's locals.
LEMMA EditLocals ==
    ASSUME Inv, NEW r \in Rows, NEW touched \in SUBSET Policies, Edit(r, touched),
           NEW b \in Admins
    PROVE  /\ tx'[b] \in Locals /\ pc'[b] = pc[b]
           /\ tx'[b].policy = tx[b].policy /\ tx'[b].steps = tx[b].steps
           /\ tx'[b].seen = tx[b].seen /\ tx'[b].retired = tx[b].retired
           /\ tx'[b].written = tx[b].written /\ tx'[b].overtaken = tx[b].overtaken
           /\ pc[b] \in Untouching => tx'[b].edited = tx[b].edited
           /\ ~ tx'[b].edited => /\ ~ tx[b].edited
                                 /\ pc[b] \in BehindSnapshot => tx[b].policy \notin touched
           /\ tx'[b].edited = (tx[b].edited \/ Passed(b, touched))
           /\ tx'[b].late = LateAfter(b, r, touched)
<1>1. /\ tx[b] \in Locals /\ pc' = pc
      /\ tx'[b] = IF \E p \in touched : b \in PastSnapshot(p)
                  THEN [tx[b] EXCEPT !.edited = TRUE,
                            !.late = IF templates'[r].policy = tx[b].policy THEN @ \union {r}
                                     ELSE @ \ {r}]
                  ELSE tx[b]
  BY DEF Inv, TypeOK, Edit
<1>2. CASE \E p \in touched : b \in PastSnapshot(p)
  <2> DEFINE kept == IF templates'[r].policy = tx[b].policy THEN tx[b].late \union {r}
                     ELSE tx[b].late \ {r}
  <2>1. tx'[b] = [tx[b] EXCEPT !.edited = TRUE, !.late = kept] /\ pc[b] \notin Untouching
    BY <1>1, <1>2 DEF PastSnapshot, Untouching
  <2>2. kept \in SUBSET Rows
    BY <1>1 DEF Locals
  <2> QED
    BY <1>1, <1>2, <2>1, <2>2 DEF Locals, Passed, LateAfter
<1>3. CASE ~ \E p \in touched : b \in PastSnapshot(p)
  <2>1. tx'[b] = tx[b] /\ tx[b].edited \in BOOLEAN
    BY <1>1, <1>3 DEF Locals
  <2> QED
    BY <1>1, <1>3, <2>1 DEF PastSnapshot, BehindSnapshot, Passed, LateAfter
<1> QED
  BY <1>2, <1>3

LEMMA EditKeeps ==
    ASSUME Inv, NEW r, NEW row, NEW touched, EditAllowed(r, row, touched),
           templates' = [templates EXCEPT ![r] = row], Edit(r, touched)
    PROVE  Inv'
<1>1. touched \in SUBSET Policies /\ r \in Rows
  BY DEF EditAllowed
<1>9. ASSUME NEW b \in Admins
      PROVE  /\ tx'[b] \in Locals /\ pc'[b] = pc[b]
             /\ tx'[b].policy = tx[b].policy /\ tx'[b].steps = tx[b].steps
             /\ tx'[b].seen = tx[b].seen /\ tx'[b].retired = tx[b].retired
             /\ tx'[b].written = tx[b].written /\ tx'[b].overtaken = tx[b].overtaken
             /\ ~ tx'[b].edited => /\ ~ tx[b].edited
                                   /\ pc[b] \in BehindSnapshot => tx[b].policy \notin touched
             /\ pc[b] \in Untouching => tx'[b].edited = tx[b].edited /\ tx'[b].late = tx[b].late
  <2>1. pc[b] \in Untouching => ~ Passed(b, touched)
    BY DEF Passed, PastSnapshot, Untouching
  <2>2. tx'[b].late = LateAfter(b, r, touched)
    BY <1>1, EditLocals
  <2>3. pc[b] \in Untouching => tx'[b].late = tx[b].late
    BY <2>1, <2>2 DEF LateAfter
  <2> QED
    BY <1>1, <2>3, EditLocals
<1>2. /\ \A q \in Rows : q # r => templates'[q] = templates[q]
      /\ Live' \subseteq Live \union {r}
      /\ \A p \in Policies : LiveOf(p) \subseteq LiveOf(p)' \union {r}
      /\ \A p \in Policies \ touched : LiveOf(p)' = LiveOf(p) /\ r \notin LiveOf(p)
      /\ \A p \in Policies : \A n : r \in Keyed(p, n)' =>
                    /\ Keyed(p, n)' \subseteq {r} /\ HoldingKey(p, n) = {}
      /\ \A p \in Policies : \A n : r \notin Keyed(p, n)' => Keyed(p, n)' \subseteq Keyed(p, n)
  BY EditFacts
<1>3. TypeOK'
  <2>1. tx' \in [Admins -> Locals]
    BY <1>9 DEF Edit
  <2>2. templates' \in [Rows -> TemplateRow \union {Vacant}]
    BY DEF Inv, TypeOK, EditAllowed
  <2>3. latest' \in [Policies -> Proposals \union {NoChain}]
    BY DEF Inv, TypeOK, Edit
  <2> QED
    BY <2>1, <2>2, <2>3 DEF Inv, TypeOK, Edit
<1>4. ASSUME NEW b \in Admins PROVE Knows(pc[b], tx[b])'
  <2>1. /\ InPlace(pc[b], tx[b]) /\ Holds(tx[b]) /\ SnapshotMisses(pc[b], tx[b])
        /\ LateIsLate(pc[b], tx[b])
    BY SessionFacts
  <2>7. tx'[b].late = LateAfter(b, r, touched)
    BY <1>1, EditLocals
  <2>2. InPlace(pc[b], tx[b])'
    BY <2>1, <1>9 DEF InPlace
  <2>3. tx[b].policy = NoPolicy \/ tx[b].policy \in Policies
    BY DEF Inv, TypeOK, Locals
  <2>4. CASE tx[b].policy = NoPolicy
    <3>1. pc[b] = "idle" /\ tx[b].retired = {} /\ tx[b].written = <<>>
      BY <2>1, <2>4 DEF InPlace, Untouching
    <3>2. DOMAIN <<>> = {}
      OBVIOUS
    <3>3. Holds(tx[b])'
      BY <1>1, <3>1, <3>2, <1>9 DEF Holds
    <3>4. SnapshotMisses(pc[b], tx[b])'
      BY <1>1, <3>1, <1>9 DEF SnapshotMisses, BehindSnapshot
    <3>5. LateIsLate(pc[b], tx[b])'
      BY <1>1, <3>1, <1>9 DEF LateIsLate, BehindSnapshot
    <3> QED
      BY <2>2, <3>3, <3>4, <3>5 DEF Knows
  <2>5. CASE tx[b].policy \in Policies
    <3> DEFINE p == tx[b].policy
    <3>1. PICK q \in Policies : q = p
      BY <2>5
    <3>2. r \notin tx[b].retired /\ \A i \in DOMAIN tx[b].written : tx[b].written[i] # r
      BY DEF EditAllowed, LockedBy, Written
    <3>3. tx[b].retired \subseteq LiveOf(q)'
      BY <2>1, <3>1, <3>2, <1>2 DEF Holds
    <3>4. ASSUME NEW i \in DOMAIN tx[b].written
          PROVE  tx[b].written[i] \notin Live' /\ Keyed(q, i)' \subseteq tx[b].retired
      <4>1. tx[b].written[i] \notin Live'
        BY <2>1, <3>2, <1>2 DEF Holds
      <4>2. b \in HoldingKey(q, i)
        BY <3>1 DEF HoldingKey, HasWritten
      <4>3. Keyed(q, i)' \subseteq Keyed(q, i)
        BY <4>2, <1>2
      <4> QED
        BY <2>1, <3>1, <4>1, <4>3 DEF Holds
    <3>5. Holds(tx[b])'
      BY <1>1, <2>1, <3>1, <3>3, <3>4, <1>9 DEF Holds
    <3>6. ASSUME pc[b] \in BehindSnapshot, ~ tx'[b].edited
          PROVE  IF tx[b].overtaken
                 THEN /\ tx[b].written = <<>>
                      /\ \E w \in Keyed(q, 1)' : w \notin tx[b].seen \union tx[b].retired
                 ELSE LiveOf(q)' \subseteq tx[b].seen \union tx[b].retired
      <4>1. ~ tx[b].edited /\ q \in Policies \ touched
        BY <1>1, <3>1, <3>6, <1>9
      <4>2. LiveOf(q)' = LiveOf(q) /\ r \notin LiveOf(q)
        BY <4>1, <1>2
      <4>3. Keyed(q, 1) = Keyed(q, 1)'
        BY <4>2, <1>2 DEF Keyed, LiveOf
      <4> QED
        BY <2>1, <3>1, <3>6, <4>1, <4>2, <4>3 DEF SnapshotMisses
    <3>7. SnapshotMisses(pc[b], tx[b])'
      BY <1>1, <3>1, <3>6, <1>9 DEF SnapshotMisses
    <3>8. ASSUME pc[b] \in BehindSnapshot
          PROVE  /\ LiveOf(q)' \subseteq tx[b].seen \union tx[b].retired \union tx'[b].late
                 /\ tx'[b].late \subseteq LiveOf(q)'
      <4>1. /\ LiveOf(q) \subseteq tx[b].seen \union tx[b].retired \union tx[b].late
            /\ tx[b].late \subseteq LiveOf(q)
        BY <2>1, <3>1, <3>8 DEF LateIsLate
      <4>2. b \in PastSnapshot(q)
        BY <3>1, <3>8 DEF PastSnapshot, BehindSnapshot
      <4>3. CASE q \in touched
        <5>3. Passed(b, touched)
          BY <4>2, <4>3 DEF Passed
        <5>2. templates'[r] = row
          BY EditFacts
        <5>1. tx'[b].late = IF row.policy = q THEN tx[b].late \union {r} ELSE tx[b].late \ {r}
          BY <2>7, <3>1, <5>2, <5>3 DEF LateAfter
        <5> QED
          BY <1>1, <1>2, <4>1, <5>1, <5>2 DEF LiveOf
      <4>4. CASE q \notin touched
        <5>1. ~ Passed(b, touched)
          BY <3>1, <4>4 DEF Passed, PastSnapshot
        <5>2. tx'[b].late = tx[b].late /\ LiveOf(q)' = LiveOf(q)
          BY <1>2, <2>7, <4>4, <5>1 DEF LateAfter
        <5> QED
          BY <4>1, <5>2
      <4> QED
        BY <4>3, <4>4
    <3>9. LateIsLate(pc[b], tx[b])'
      BY <1>1, <3>1, <3>8, <1>9 DEF LateIsLate
    <3> QED
      BY <2>2, <3>5, <3>7, <3>9 DEF Knows
  <2> QED
    BY <2>3, <2>4, <2>5
<1>5. ASSUME NEW b \in Admins, NEW d \in Admins, b # d PROVE Separate(tx[b], tx[d])'
  <2>1. Separate(tx[b], tx[d])
    BY <1>5 DEF Inv, TableDiscipline
  <2> QED
    BY <1>1, <2>1, <1>9 DEF Separate
<1>6. OneRowPerStep'
  <2> SUFFICES ASSUME NEW x \in Live', NEW y \in Live',
                      templates'[x].policy = templates'[y].policy,
                      templates'[x].step_no = templates'[y].step_no
               PROVE  x = y
    BY DEF OneRowPerStep
  <2>1. /\ x \in Rows /\ y \in Rows
        /\ templates'[x].policy \in Policies
    BY <1>3, LiveFacts DEF Live, TypeOK, TemplateRow, Vacant
  <2>2. PICK q \in Policies : q = templates'[x].policy
    BY <2>1
  <2>3. PICK n : n = templates'[x].step_no
    OBVIOUS
  <2>4. x \in Keyed(q, n)' /\ y \in Keyed(q, n)'
    BY <2>1, <2>2, <2>3 DEF Keyed, LiveOf
  <2>5. CASE r \in Keyed(q, n)'
    BY <2>4, <2>5, <1>2
  <2>6. CASE r \notin Keyed(q, n)'
    <3>1. x \in Keyed(q, n) /\ y \in Keyed(q, n)
      BY <2>4, <2>6, <1>2
    <3>2. x \in Live /\ y \in Live
      BY <3>1, LiveFacts DEF Inv, Keyed
    <3> QED
      BY <3>1, <3>2 DEF Keyed, LiveOf, Inv, TableDiscipline, OneRowPerStep
  <2> QED
    BY <2>5, <2>6
<1>7. ASSUME NEW p \in Policies, latest'[p] # NoChain
      PROVE  /\ latest[p] = latest'[p] /\ p \notin touched
             /\ ChainOf(p)' = Numbered(latest'[p]) /\ check_chain(latest'[p]) = "none"
  <2>1. latest[p] = latest'[p] /\ p \notin touched
    BY <1>7 DEF Edit
  <2>2. LiveOf(p)' = LiveOf(p) /\ r \notin LiveOf(p)
    BY <2>1, <1>2
  <2>3. ChainOf(p)' = ChainOf(p)
    BY <2>2, <1>2 DEF ChainOf, LiveOf
  <2> QED
    BY <1>7, <2>1, <2>3 DEF Inv, TableDiscipline, ChainIsWhole
<1>8. ChainIsWhole'
  BY <1>7 DEF ChainIsWhole, Numbered
<1> QED
  BY <1>3, <1>4, <1>5, <1>6, <1>7, <1>8 DEF Inv, TableDiscipline

\* No replacement has locked a row that is not live.
LEMMA Unlocked ==
    ASSUME Inv, NEW r \in Rows \ Live
    PROVE  LockedBy(r) = {}
<1> SUFFICES ASSUME NEW b \in Admins, r \in tx[b].retired PROVE FALSE
  BY DEF LockedBy
<1>1. Holds(tx[b]) /\ InPlace(pc[b], tx[b]) /\ tx[b] \in Locals /\ pc[b] \in PCs
  BY SessionFacts
<1>2. tx[b].policy \in Policies
  BY <1>1 DEF InPlace, Locals, Untouching
<1> QED
  BY <1>1, <1>2, LiveFacts DEF Holds, Inv

LEMMA CreateAllowed ==
    ASSUME Inv, NEW r \in Rows, NEW p \in Policies, NEW n \in Nat, NEW s \in ChainStep,
           CreateTemplate(r, p, n, s)
    PROVE  EditAllowed(r, [policy |-> p, step_no |-> n, step |-> s], {p})
<1> DEFINE row == [policy |-> p, step_no |-> n, step |-> s]
<1>1. row \in TemplateRow /\ row.policy = p /\ row.step_no = n
  BY DEF TemplateRow
<1>2. r \in Rows \ Live /\ r \notin Written /\ Keyed(p, n) = {} /\ HoldingKey(p, n) = {}
  BY DEF CreateTemplate, KeyFree
<1>3. LockedBy(r) = {} /\ templates[r].policy = NoPolicy
  BY <1>2, Unlocked DEF Live
<1> QED
  BY <1>1, <1>2, <1>3 DEF EditAllowed

\* A live row has not been written by an open replacement.
LEMMA NotWritten ==
    ASSUME Inv, NEW r \in Live
    PROVE  r \notin Written /\ r \in Rows /\ templates[r].policy \in Policies
BY SessionFacts, LiveFacts DEF Written, Holds, Live, Inv, TemplateRow

LEMMA UpdateAllowed ==
    ASSUME Inv, NEW r \in Rows, NEW p \in Policies, NEW n \in Nat, NEW s \in ChainStep,
           UpdateTemplate(r, p, n, s)
    PROVE  EditAllowed(r, [policy |-> p, step_no |-> n, step |-> s],
                       {p, templates[r].policy})
<1> DEFINE row == [policy |-> p, step_no |-> n, step |-> s]
<1>1. row \in TemplateRow /\ row.policy = p /\ row.step_no = n
  BY DEF TemplateRow
<1> QED
  BY <1>1, NotWritten DEF UpdateTemplate, EditAllowed

LEMMA DeleteAllowed ==
    ASSUME Inv, NEW r \in Rows, DeleteTemplate(r)
    PROVE  EditAllowed(r, Vacant, {templates[r].policy})
BY NotWritten DEF DeleteTemplate, EditAllowed

LEMMA EditRowKeeps ==
    ASSUME Inv, NEW r \in Rows, EditRow(r)
    PROVE  Inv'
<1>1. ASSUME NEW p \in Policies, NEW n \in EditedNumbers, NEW s \in EditedSteps,
             CreateTemplate(r, p, n, s)
      PROVE  Inv'
  <2>1. n \in Nat /\ s \in ChainStep
    BY AdminAssumption
  <2> QED
    BY <1>1, <2>1, CreateAllowed, EditKeeps DEF CreateTemplate
<1>2. ASSUME NEW p \in Policies, NEW n \in EditedNumbers, NEW s \in EditedSteps,
             UpdateTemplate(r, p, n, s)
      PROVE  Inv'
  <2>1. n \in Nat /\ s \in ChainStep
    BY AdminAssumption
  <2> QED
    BY <1>2, <2>1, UpdateAllowed, EditKeeps DEF UpdateTemplate
<1>3. CASE DeleteTemplate(r)
  BY <1>3, DeleteAllowed, EditKeeps DEF DeleteTemplate
<1> QED
  BY <1>1, <1>2, <1>3 DEF EditRow

\* A step that changes nothing but which policies are deleted.
LEMMA RowsUntouched ==
    ASSUME Inv, UNCHANGED <<templates, pc, tx, answer, latest>>, policies' \subseteq Policies
    PROVE  Inv'
BY DEF Inv, TypeOK, TableDiscipline, Knows, InPlace, Holds, SnapshotMisses, LateIsLate,
       Separate, OneRowPerStep, ChainIsWhole, ChainOf, Numbered, LiveOf, Live, Keyed

-----------------------------------------------------------------------------
(* The commit.                                                             *)

\* What the commit of a chain does to the table, row by row.
Committed(p, steps, retired, written) ==
    /\ p \in Policies /\ steps \in Proposals /\ check_chain(steps) = "none"
    /\ DOMAIN written = DOMAIN steps /\ 1 \in DOMAIN steps
    /\ \A n \in DOMAIN steps :
        /\ written[n] \in Rows /\ written[n] \notin Live
        /\ templates'[written[n]] = [policy |-> p, step_no |-> n, step |-> steps[n]]
        /\ Keyed(p, n) \subseteq retired
    /\ \A r \in Rows : (\A n \in DOMAIN steps : written[n] # r) =>
        templates'[r] = IF r \in retired THEN Vacant ELSE templates[r]
    /\ retired \subseteq LiveOf(p)

LEMMA CommitFacts ==
    ASSUME Inv, NEW a \in Admins, CommitChain(a),
           NEW p, NEW steps, NEW retired, NEW written,
           p = tx[a].policy, steps = tx[a].steps, retired = tx[a].retired,
           written = tx[a].written
    PROVE  Committed(p, steps, retired, written)
<1>1. /\ pc[a] = "commit" /\ tx[a] \in Locals
      /\ InPlace("commit", tx[a]) /\ Holds(tx[a])
  BY SessionFacts DEF CommitChain
<1>2. /\ p \in Policies /\ steps \in Proposals /\ check_chain(steps) = "none"
      /\ written \in Seq(Rows) /\ Len(written) = Len(steps)
  BY <1>1 DEF InPlace, Locals
<1>3. /\ Len(steps) \in 1..MaxChainSteps /\ DOMAIN steps = 1..Len(steps)
  BY <1>2, CheckedLength
<1>4. DOMAIN written = DOMAIN steps /\ 1 \in DOMAIN steps
  BY <1>2, <1>3, AdminAssumption
<1>5. templates' =
        [r \in Rows |->
            IF \E n \in DOMAIN written : written[n] = r
            THEN [policy |-> p, step_no |-> CHOOSE n \in DOMAIN written : written[n] = r,
                  step |-> steps[CHOOSE n \in DOMAIN written : written[n] = r]]
            ELSE IF r \in retired THEN Vacant
            ELSE templates[r]]
  BY DEF CommitChain, AfterCommit, NewRow
<1>6. ASSUME NEW n \in DOMAIN steps
      PROVE  /\ written[n] \in Rows /\ written[n] \notin Live
             /\ templates'[written[n]] = [policy |-> p, step_no |-> n, step |-> steps[n]]
             /\ Keyed(p, n) \subseteq retired
  <2>1. n \in DOMAIN written /\ written[n] \in Rows
    BY <1>2, <1>4
  <2>2. \A m \in DOMAIN written : written[m] = written[n] => m = n
    BY <1>1, <2>1 DEF Holds
  <2>3. (CHOOSE m \in DOMAIN written : written[m] = written[n]) = n
    BY <2>1, <2>2
  <2>4. templates'[written[n]] = [policy |-> p, step_no |-> n, step |-> steps[n]]
    BY <1>5, <2>1, <2>3
  <2> QED
    BY <1>1, <2>1, <2>4 DEF Holds
<1>7. ASSUME NEW r \in Rows, \A n \in DOMAIN steps : written[n] # r
      PROVE  templates'[r] = IF r \in retired THEN Vacant ELSE templates[r]
  BY <1>4, <1>5, <1>7
<1> QED
  BY <1>1, <1>2, <1>3, <1>4, <1>6, <1>7 DEF Holds, Committed

LEMMA CommitRows ==
    ASSUME TypeOK, NEW p, NEW steps, NEW retired, NEW written,
           Committed(p, steps, retired, written)
    PROVE  /\ LiveOf(p)' = RowsOf(written) \union (LiveOf(p) \ retired)
           /\ Live' = RowsOf(written) \union (Live \ retired)
           /\ \A r \in Live \ retired : templates'[r] = templates[r]
           /\ \A q \in Policies \ {p} :
                /\ LiveOf(q)' = LiveOf(q) /\ LiveOf(q) \intersect retired = {}
                /\ \A n : Keyed(q, n)' = Keyed(q, n)
           /\ \A n \in DOMAIN steps : Keyed(p, n)' = {written[n]}
           /\ \A n : n \notin DOMAIN steps => Keyed(p, n)' = Keyed(p, n) \ retired
<1>1. /\ Vacant.policy = NoPolicy /\ NoPolicy \notin Policies
      /\ \A q \in Policies : LiveOf(q) \subseteq Live
  BY AdminAssumption, LiveFacts DEF Vacant
<1>2. ASSUME NEW r \in RowsOf(written)
      PROVE  /\ r \in Rows /\ r \notin Live
             /\ templates'[r].policy = p
             /\ \E n \in DOMAIN steps : r = written[n] /\ templates'[r].step_no = n
  <2>1. DOMAIN written = DOMAIN steps
    BY DEF Committed
  <2>2. PICK n \in DOMAIN steps : r = written[n]
    BY <2>1 DEF RowsOf
  <2>3. /\ written[n] \in Rows /\ written[n] \notin Live
        /\ templates'[written[n]] = [policy |-> p, step_no |-> n, step |-> steps[n]]
    BY DEF Committed
  <2>4. templates'[written[n]].policy = p /\ templates'[written[n]].step_no = n
    BY <2>3
  <2> QED
    BY <2>2, <2>3, <2>4
<1>3. ASSUME NEW r \in Rows \ RowsOf(written)
      PROVE  templates'[r] = IF r \in retired THEN Vacant ELSE templates[r]
  BY DEF RowsOf, Committed
<1>4. LiveOf(p)' = RowsOf(written) \union (LiveOf(p) \ retired)
  <2>1. ASSUME NEW r \in Rows
        PROVE  templates'[r].policy = p <=>
                    r \in RowsOf(written) \/ (r \in LiveOf(p) /\ r \notin retired)
    BY <1>1, <1>2, <1>3 DEF LiveOf, Committed
  <2> QED
    BY <1>2, <2>1 DEF LiveOf
<1>5. Live' = RowsOf(written) \union (Live \ retired)
  <2>1. ASSUME NEW r \in Rows
        PROVE  templates'[r].policy # NoPolicy <=>
                    r \in RowsOf(written) \/ (r \in Live /\ r \notin retired)
    BY <1>1, <1>2, <1>3 DEF Live, Committed
  <2> QED
    BY <1>2, <2>1 DEF Live
<1>6. \A r \in Live \ retired : templates'[r] = templates[r]
  BY <1>2, <1>3 DEF Live
<1>7. ASSUME NEW q \in Policies \ {p}
      PROVE  /\ LiveOf(q)' = LiveOf(q) /\ LiveOf(q) \intersect retired = {}
             /\ \A n : Keyed(q, n)' = Keyed(q, n)
  <2>1. LiveOf(q) \intersect retired = {}
    BY DEF LiveOf, Committed
  <2>2. ASSUME NEW r \in Rows
        PROVE  templates'[r].policy = q <=> r \in LiveOf(q)
    BY <1>1, <1>2, <1>3, <2>1 DEF LiveOf, Committed
  <2>3. LiveOf(q)' = LiveOf(q)
    BY <2>2 DEF LiveOf
  <2>4. \A r \in LiveOf(q) : templates'[r] = templates[r]
    BY <1>1, <1>6, <2>1
  <2> QED
    BY <2>1, <2>3, <2>4 DEF Keyed
<1>8. ASSUME NEW n \in DOMAIN steps
      PROVE  Keyed(p, n)' = {written[n]}
  <2>1. written[n] \in Keyed(p, n)'
    <3>1. /\ written[n] \in Rows
          /\ templates'[written[n]] = [policy |-> p, step_no |-> n, step |-> steps[n]]
      BY DEF Committed
    <3>2. templates'[written[n]].policy = p /\ templates'[written[n]].step_no = n
      BY <3>1
    <3> QED
      BY <3>1, <3>2 DEF Keyed, LiveOf
  <2>2. ASSUME NEW r \in Keyed(p, n)'
        PROVE  r = written[n]
    <3>1. r \in LiveOf(p)' /\ templates'[r].step_no = n
      BY <2>2 DEF Keyed
    <3>2. CASE r \in RowsOf(written)
      BY <1>2, <3>1, <3>2
    <3>3. CASE r \in LiveOf(p) \ retired
      <4>1. templates'[r] = templates[r]
        BY <1>1, <1>6, <3>3 DEF Committed
      <4>2. r \in Keyed(p, n)
        BY <3>1, <3>3, <4>1 DEF Keyed
      <4> QED
        BY <3>3, <4>2 DEF Committed
    <3> QED
      BY <1>4, <3>1, <3>2, <3>3
  <2> QED
    BY <2>1, <2>2
<1>9. ASSUME NEW n, n \notin DOMAIN steps
      PROVE  Keyed(p, n)' = Keyed(p, n) \ retired
  <2>1. \A r \in LiveOf(p) \ retired : templates'[r] = templates[r]
    BY <1>1, <1>6 DEF Committed
  <2>2. \A r \in RowsOf(written) : templates'[r].step_no # n
    BY <1>2, <1>9
  <2> QED
    BY <1>4, <2>1, <2>2 DEF Keyed
<1> QED
  BY <1>4, <1>5, <1>6, <1>7, <1>8, <1>9

\* What the commit of a session leaves of another one's locals.
LEMMA CommitLocals ==
    ASSUME Inv, NEW a \in Admins, NEW p, p = tx[a].policy, CommitChain(a),
           NEW b \in Admins, b # a
    PROVE  /\ tx'[b] \in Locals /\ pc'[b] = pc[b]
           /\ tx'[b].policy = tx[b].policy /\ tx'[b].steps = tx[b].steps
           /\ tx'[b].seen = tx[b].seen /\ tx'[b].retired = tx[b].retired
           /\ tx'[b].written = tx[b].written /\ tx'[b].edited = tx[b].edited
           /\ tx'[b].overtaken = (tx[b].overtaken \/ b \in PastSnapshot(p))
           /\ tx'[b].late = IF b \in PastSnapshot(p)
                            THEN (tx[b].late \ tx[a].retired) \union RowsOf(tx[a].written)
                            ELSE tx[b].late
<1> DEFINE late == (tx[b].late \ tx[a].retired) \union RowsOf(tx[a].written)
<1>1. /\ tx[b] \in Locals /\ pc'[b] = pc[b]
      /\ tx'[b] = IF b \in PastSnapshot(p)
                  THEN [tx[b] EXCEPT !.overtaken = TRUE, !.late = late] ELSE tx[b]
  BY DEF Inv, TypeOK, CommitChain, Goto, RowsOf
<1>5. late \in SUBSET Rows
  <2>1. tx[a].written \in Seq(Rows)
    BY SessionFacts DEF Locals
  <2> QED
    BY <1>1, <2>1 DEF Locals, RowsOf
<1> HIDE DEF late
<1>2. tx[b].overtaken \in BOOLEAN
  BY <1>1 DEF Locals
<1>3. CASE b \in PastSnapshot(p)
  <2>1. tx'[b] = [tx[b] EXCEPT !.overtaken = TRUE, !.late = late]
    BY <1>1, <1>3
  <2> QED
    BY <1>1, <1>3, <1>5, <2>1 DEF Locals, late
<1>4. CASE b \notin PastSnapshot(p)
  BY <1>1, <1>2, <1>4
<1> QED
  BY <1>3, <1>4

LEMMA CommitKeeps ==
    ASSUME Inv, NEW a \in Admins, CommitChain(a)
    PROVE  Inv'
<1>1. PICK p, steps, retired, written :
        /\ p = tx[a].policy /\ steps = tx[a].steps /\ retired = tx[a].retired
        /\ written = tx[a].written
  OBVIOUS
<1>2. Committed(p, steps, retired, written)
  BY <1>1, CommitFacts
<1>3. /\ LiveOf(p)' = RowsOf(written) \union (LiveOf(p) \ retired)
      /\ Live' = RowsOf(written) \union (Live \ retired)
      /\ \A r \in Live \ retired : templates'[r] = templates[r]
      /\ \A q \in Policies \ {p} :
            /\ LiveOf(q)' = LiveOf(q) /\ LiveOf(q) \intersect retired = {}
            /\ \A n : Keyed(q, n)' = Keyed(q, n)
      /\ \A n \in DOMAIN steps : Keyed(p, n)' = {written[n]}
      /\ \A n : n \notin DOMAIN steps => Keyed(p, n)' = Keyed(p, n) \ retired
  BY <1>2, CommitRows DEF Inv
<1>4. /\ p \in Policies /\ steps \in Proposals /\ check_chain(steps) = "none"
      /\ DOMAIN written = DOMAIN steps /\ 1 \in DOMAIN steps /\ retired \subseteq LiveOf(p)
      /\ \A n \in DOMAIN steps :
            written[n] \in Rows /\ written[n] \notin Live /\ Keyed(p, n) \subseteq retired
  BY <1>2 DEF Committed
<1>5. /\ tx[a].seen = {} /\ SnapshotMisses("commit", tx[a]) /\ Apart(a, tx[a])
      /\ tx'[a] = NoCall /\ pc'[a] = "idle"
      /\ \A q \in Policies : LiveOf(q) \subseteq Live
  BY SessionFacts, LiveFacts DEF CommitChain, Goto, InPlace, Inv, TypeOK
<1>6. ASSUME NEW b \in Admins, b # a
      PROVE  Separate(tx[b], tx[a]) /\ Separate(tx[a], tx[b])
  BY <1>5, <1>6 DEF Apart
<1>7. TypeOK'
  <2>1. \A r \in Rows : templates'[r] \in TemplateRow \union {Vacant}
    <3>1. ASSUME NEW n \in DOMAIN steps
          PROVE  templates'[written[n]] \in TemplateRow
      <4>1. /\ templates'[written[n]] = [policy |-> p, step_no |-> n, step |-> steps[n]]
        BY <1>2 DEF Committed
      <4>2. steps \in Seq(ChainStep) /\ n \in Nat /\ steps[n] \in ChainStep
        BY <1>4, AdminAssumption
      <4> QED
        BY <1>4, <4>1, <4>2 DEF TemplateRow
    <3>2. ASSUME NEW r \in Rows, \A n \in DOMAIN steps : written[n] # r
          PROVE  templates'[r] \in TemplateRow \union {Vacant}
      <4>1. templates'[r] = IF r \in retired THEN Vacant ELSE templates[r]
        BY <1>2, <3>2 DEF Committed
      <4> QED
        BY <4>1 DEF Inv, TypeOK
    <3> QED
      BY <3>1, <3>2
  <2>2. templates' \in [Rows -> TemplateRow \union {Vacant}]
    BY <2>1 DEF CommitChain, AfterCommit
  <2>3. tx' \in [Admins -> Locals]
    <3>1. \A b \in Admins : tx'[b] \in Locals
      BY <1>5, NoCallFacts, CommitLocals
    <3> QED
      BY <3>1 DEF CommitChain
  <2>4. latest' \in [Policies -> Proposals \union {NoChain}]
    BY <1>1, <1>4 DEF Inv, TypeOK, CommitChain
  <2>5. answer' \in [Admins -> Outcomes] /\ pc' \in [Admins -> PCs] /\ policies' = policies
    BY DEF Inv, TypeOK, CommitChain, Goto, Outcomes, PCs
  <2> QED
    BY <2>2, <2>3, <2>4, <2>5 DEF Inv, TypeOK
<1>8. ASSUME NEW b \in Admins PROVE Knows(pc[b], tx[b])'
  <2>1. CASE b = a
    <3>1. /\ NoCall.policy = NoPolicy /\ NoCall.seen = {} /\ NoCall.retired = {}
          /\ NoCall.written = <<>> /\ ~ NoCall.edited /\ ~ NoCall.overtaken
          /\ NoCall.late = {}
      BY DEF NoCall
    <3>2. DOMAIN <<>> = {}
      OBVIOUS
    <3>3. InPlace(pc[b], tx[b])'
      BY <1>5, <2>1, <3>1 DEF InPlace, Untouching
    <3>4. Holds(tx[b])'
      BY <1>5, <2>1, <3>1, <3>2 DEF Holds
    <3>5. SnapshotMisses(pc[b], tx[b])' /\ LateIsLate(pc[b], tx[b])'
      BY <1>5, <2>1 DEF SnapshotMisses, LateIsLate, BehindSnapshot
    <3> QED
      BY <3>3, <3>4, <3>5 DEF Knows
  <2>2. CASE b # a
    <3>1. PICK q, seen, kept, mine :
            /\ q = tx[b].policy /\ seen = tx[b].seen /\ kept = tx[b].retired
            /\ mine = tx[b].written
      OBVIOUS
    <3>2. /\ pc'[b] = pc[b] /\ tx'[b].policy = q /\ tx'[b].steps = tx[b].steps
          /\ tx'[b].seen = seen /\ tx'[b].retired = kept /\ tx'[b].written = mine
          /\ tx'[b].edited = tx[b].edited
          /\ tx'[b].overtaken = (tx[b].overtaken \/ b \in PastSnapshot(p))
          /\ tx'[b].late = IF b \in PastSnapshot(p)
                           THEN (tx[b].late \ retired) \union RowsOf(written)
                           ELSE tx[b].late
      BY <1>1, <2>2, <3>1, CommitLocals
    <3>3. /\ InPlace(pc[b], tx[b]) /\ Holds(tx[b]) /\ SnapshotMisses(pc[b], tx[b])
          /\ LateIsLate(pc[b], tx[b]) /\ pc[b] \in PCs /\ tx[b] \in Locals
      BY SessionFacts
    <3>4. InPlace(pc[b], tx[b])'
      <4>1. pc[b] \in Untouching => b \notin PastSnapshot(p)
        BY DEF PastSnapshot, Untouching
      <4> QED
        BY <3>1, <3>2, <3>3, <4>1 DEF InPlace
    <3>5. /\ kept \subseteq LiveOf(q)
          /\ \A i \in DOMAIN mine : mine[i] \notin Live /\ Keyed(q, i) \subseteq kept
          /\ \A i, j \in DOMAIN mine : mine[i] = mine[j] => i = j
      BY <3>1, <3>3 DEF Holds
    <3>6. /\ retired \intersect kept = {}
          /\ \A n \in DOMAIN steps :
                /\ written[n] \notin seen
                /\ \A j \in DOMAIN mine : written[n] # mine[j]
                /\ p = q => n \notin DOMAIN mine
      BY <1>1, <1>4, <1>6, <2>2, <3>1 DEF Separate
    <3>7. q \in Policies \/ (q = NoPolicy /\ kept = {} /\ mine = <<>> /\ pc[b] = "idle")
      BY <3>1, <3>3 DEF InPlace, Locals, Untouching
    <3>8. kept \subseteq LiveOf(q)'
      <4>1. CASE q = p
        BY <1>3, <3>5, <3>6, <4>1
      <4>2. CASE q # p
        BY <1>3, <3>5, <3>7, <4>2
      <4> QED
        BY <4>1, <4>2
    <3>9. ASSUME NEW i \in DOMAIN mine
          PROVE  mine[i] \notin Live' /\ Keyed(q, i)' \subseteq kept
      <4>1. mine[i] \notin RowsOf(written)
        BY <1>4, <3>6 DEF RowsOf
      <4>2. mine[i] \notin Live'
        BY <1>3, <3>5, <4>1
      <4>3. q \in Policies
        BY <3>7
      <4>4. CASE q = p
        BY <1>3, <3>5, <3>6, <3>9, <4>2, <4>4
      <4>5. CASE q # p
        BY <1>3, <3>5, <3>9, <4>2, <4>3, <4>5
      <4> QED
        BY <4>2, <4>4, <4>5
    <3>10. Holds(tx[b])'
      BY <3>2, <3>5, <3>8, <3>9 DEF Holds
    <3>11. ASSUME pc[b] \in BehindSnapshot, ~ tx'[b].edited
           PROVE  IF tx'[b].overtaken
                  THEN /\ mine = <<>> /\ \E r \in Keyed(q, 1)' : r \notin seen \union kept
                  ELSE LiveOf(q)' \subseteq seen \union kept
      <4>1. q \in Policies
        BY <3>7, <3>11 DEF BehindSnapshot
      <4>2. CASE q = p
        <5>1. b \in PastSnapshot(p)
          BY <3>1, <3>11, <4>2 DEF PastSnapshot, BehindSnapshot
        <5>2. 1 \notin DOMAIN mine /\ mine \in Seq(Rows)
          BY <1>4, <3>1, <3>3, <3>6, <4>2 DEF Locals
        <5>3. mine = <<>>
          BY <5>2
        <5>4. written[1] \in Keyed(q, 1)'
          BY <1>3, <1>4, <4>2
        <5>5. written[1] \notin seen \union kept
          BY <1>4, <1>5, <3>5, <3>6, <4>1
        <5> QED
          BY <3>2, <5>1, <5>3, <5>4, <5>5
      <4>3. CASE q # p
        <5>1. b \notin PastSnapshot(p)
          BY <3>1, <4>3 DEF PastSnapshot
        <5>2. LiveOf(q)' = LiveOf(q) /\ Keyed(q, 1)' = Keyed(q, 1)
          BY <1>3, <4>1, <4>3
        <5> QED
          BY <3>1, <3>2, <3>3, <3>11, <5>1, <5>2 DEF SnapshotMisses
      <4> QED
        BY <4>2, <4>3
    <3>12. SnapshotMisses(pc[b], tx[b])'
      BY <3>2, <3>11 DEF SnapshotMisses
    <3>13. ASSUME pc[b] \in BehindSnapshot
           PROVE  /\ LiveOf(q)' \subseteq seen \union kept \union tx'[b].late
                  /\ tx'[b].late \subseteq LiveOf(q)'
      <4>1. /\ LiveOf(q) \subseteq seen \union kept \union tx[b].late
            /\ tx[b].late \subseteq LiveOf(q) /\ q \in Policies
        BY <3>1, <3>3, <3>7, <3>13 DEF LateIsLate, BehindSnapshot
      <4>2. CASE q = p
        <5>1. tx'[b].late = (tx[b].late \ retired) \union RowsOf(written)
          BY <3>1, <3>2, <3>13, <4>2 DEF PastSnapshot, BehindSnapshot
        <5> QED
          BY <1>3, <4>1, <4>2, <5>1
      <4>3. CASE q # p
        <5>1. tx'[b].late = tx[b].late /\ LiveOf(q)' = LiveOf(q)
          BY <1>3, <3>1, <3>2, <4>1, <4>3 DEF PastSnapshot
        <5> QED
          BY <4>1, <5>1
      <4> QED
        BY <4>2, <4>3
    <3>14. LateIsLate(pc[b], tx[b])'
      BY <3>1, <3>2, <3>13 DEF LateIsLate
    <3> QED
      BY <3>4, <3>10, <3>12, <3>14 DEF Knows
  <2> QED
    BY <2>1, <2>2
<1>9. ASSUME NEW b \in Admins, NEW d \in Admins, b # d PROVE Separate(tx[b], tx[d])'
  <2>1. CASE b # a /\ d # a
    <3>1. Separate(tx[b], tx[d])
      BY <1>9 DEF Inv, TableDiscipline
    <3>2. /\ tx'[b].policy = tx[b].policy /\ tx'[b].seen = tx[b].seen
          /\ tx'[b].retired = tx[b].retired /\ tx'[b].written = tx[b].written
          /\ tx'[d].policy = tx[d].policy /\ tx'[d].seen = tx[d].seen
          /\ tx'[d].retired = tx[d].retired /\ tx'[d].written = tx[d].written
      BY <1>1, <2>1, CommitLocals
    <3> QED
      BY <3>1, <3>2 DEF Separate
  <2>2. CASE b = a \/ d = a
    <3>1. /\ NoCall.seen = {} /\ NoCall.retired = {} /\ NoCall.written = <<>>
          /\ DOMAIN <<>> = {}
      BY DEF NoCall
    <3> QED
      BY <1>5, <2>2, <3>1 DEF Separate
  <2> QED
    BY <2>1, <2>2
<1>10. OneRowPerStep'
  <2> SUFFICES ASSUME NEW x \in Live', NEW y \in Live',
                      templates'[x].policy = templates'[y].policy,
                      templates'[x].step_no = templates'[y].step_no
               PROVE  x = y
    BY DEF OneRowPerStep
  <2>1. /\ x \in Rows /\ y \in Rows /\ templates'[x].policy \in Policies
    BY <1>7, LiveFacts DEF Live, TypeOK, TemplateRow, Vacant
  <2>2. PICK q \in Policies : q = templates'[x].policy
    BY <2>1
  <2>3. PICK n : n = templates'[x].step_no
    OBVIOUS
  <2>4. x \in Keyed(q, n)' /\ y \in Keyed(q, n)'
    BY <2>1, <2>2, <2>3 DEF Keyed, LiveOf
  <2>5. CASE q = p /\ n \in DOMAIN steps
    BY <1>3, <2>4, <2>5
  <2>6. CASE ~ (q = p /\ n \in DOMAIN steps)
    <3>1. x \in Keyed(q, n) /\ y \in Keyed(q, n)
      BY <1>3, <2>4, <2>6
    <3>2. x \in Live /\ y \in Live
      BY <1>5, <3>1 DEF Keyed
    <3> QED
      BY <3>1, <3>2 DEF Keyed, LiveOf, Inv, TableDiscipline, OneRowPerStep
  <2> QED
    BY <2>5, <2>6
<1>11. ASSUME NEW q \in Policies, latest'[q] # NoChain
       PROVE  ChainOf(q)' = Numbered(latest'[q]) /\ check_chain(latest'[q]) = "none"
  <2>1. CASE q # p
    <3>1. latest'[q] = latest[q] /\ LiveOf(q)' = LiveOf(q) /\ LiveOf(q) \intersect retired = {}
      BY <1>1, <1>3, <2>1 DEF CommitChain, Inv, TypeOK
    <3>2. \A r \in LiveOf(q) : templates'[r] = templates[r]
      BY <1>3, <1>5, <3>1
    <3>3. ChainOf(q)' = ChainOf(q)
      BY <3>1, <3>2 DEF ChainOf
    <3> QED
      BY <1>11, <3>1, <3>3 DEF Inv, TableDiscipline, ChainIsWhole
  <2>2. CASE q = p
    <3>1. latest'[q] = steps /\ ~ tx[a].edited
      BY <1>1, <1>4, <1>11, <2>2 DEF CommitChain, Inv, TypeOK
    <3>2. written # <<>>
      BY <1>4
    <3>3. LiveOf(p) \subseteq retired
      BY <1>1, <1>5, <3>1, <3>2 DEF SnapshotMisses, BehindSnapshot
    <3>4. LiveOf(q)' = RowsOf(written)
      BY <1>3, <2>2, <3>3
    <3>5. ASSUME NEW n \in DOMAIN steps
          PROVE  templates'[written[n]].step_no = n /\ templates'[written[n]].step = steps[n]
      <4>1. templates'[written[n]] = [policy |-> p, step_no |-> n, step |-> steps[n]]
        BY <1>2 DEF Committed
      <4> QED
        BY <4>1
    <3>6. ChainOf(q)' = {<<n, steps[n]>> : n \in DOMAIN steps}
      BY <1>4, <3>4, <3>5 DEF ChainOf, RowsOf
    <3> QED
      BY <1>4, <3>1, <3>6 DEF Numbered
  <2> QED
    BY <2>1, <2>2
<1>12. ChainIsWhole'
  BY <1>11 DEF ChainIsWhole, Numbered
<1> QED
  BY <1>7, <1>8, <1>9, <1>10, <1>11, <1>12 DEF Inv, TableDiscipline

-----------------------------------------------------------------------------
(* The invariant.                                                          *)

LEMMA InitInv == Init => Inv
<1> SUFFICES ASSUME Init PROVE Inv
  OBVIOUS
<1>1. /\ Vacant.policy = NoPolicy /\ Live = {} /\ \A p \in Policies : LiveOf(p) = {}
  BY AdminAssumption DEF Init, Vacant, Live, LiveOf
<1>2. TypeOK
  BY NoCallFacts DEF Init, TypeOK, PCs, Outcomes
<1>3. ASSUME NEW a \in Admins PROVE Knows(pc[a], tx[a])
  BY NoCallFacts DEF Init
<1>4. ASSUME NEW a \in Admins, NEW b \in Admins, a # b PROVE Separate(tx[a], tx[b])
  BY <1>4, NoCallFacts DEF Init, Apart
<1>5. OneRowPerStep /\ ChainIsWhole
  BY <1>1 DEF Init, OneRowPerStep, ChainIsWhole
<1>6. \A p \in Policies : latest[p] # NoChain => check_chain(latest[p]) = "none"
  BY DEF Init
<1> QED
  BY <1>2, <1>3, <1>4, <1>5, <1>6 DEF Inv, TableDiscipline

\* Every action, one by one.
LEMMA StepInv == Inv /\ [Next]_vars => Inv'
<1> SUFFICES ASSUME Inv, [Next]_vars PROVE Inv'
  OBVIOUS
<1>1. ASSUME NEW a \in Admins, Call(a) PROVE Inv'
  BY <1>1, ReplaceKeeps DEF Call
<1>2. ASSUME NEW a \in Admins, Proceed(a) PROVE Inv'
  <2>1. CASE InsertConflict(a)
    BY <2>1, Returns DEF InsertConflict, Outcomes
  <2> QED
    BY <1>2, <2>1, PolicyExistsKeeps, RetireTemplatesKeeps, RetireRowKeeps, RetireEndsKeeps,
       InsertTemplateKeeps, CommitKeeps DEF Proceed
<1>3. ASSUME NEW a \in Admins, Abort(a) \/ CancelDeadlocked(a) PROVE Inv'
  BY <1>3, Returns DEF Abort, CancelDeadlocked, Outcomes
<1>4. ASSUME NEW r \in Rows, EditRow(r) PROVE Inv'
  BY <1>4, EditRowKeeps
<1>5. ASSUME NEW p \in Policies, TogglePolicy(p) PROVE Inv'
  <2>1. policies' \subseteq Policies
    BY <1>5 DEF TogglePolicy, Inv, TypeOK
  <2> QED
    BY <1>5, <2>1, RowsUntouched DEF TogglePolicy
<1>6. CASE UNCHANGED vars
  <2>1. policies' \subseteq Policies
    BY <1>6 DEF vars, Inv, TypeOK
  <2> QED
    BY <1>6, <2>1, RowsUntouched DEF vars
<1> QED
  BY <1>1, <1>2, <1>3, <1>4, <1>5, <1>6 DEF Next

\* The variables of the table, of the sessions and of the history keep their types,
\* whatever the chains proposed and the rows edited.
THEOREM AdminTypeCorrect == Spec => []TypeOK
<1>1. Inv => TypeOK
  BY DEF Inv
<1> QED
  BY <1>1, InitInv, StepInv, PTL DEF Spec

\* What every replacement knows before its next statement: the row locks of its UPDATE
\* and the unique index keep the replacements apart.
THEOREM DisciplineHolds == Spec => []TableDiscipline
<1>1. Inv => TableDiscipline
  BY DEF Inv
<1> QED
  BY <1>1, InitInv, StepInv, PTL DEF Spec

\* However many replacements and row edits interleave, no policy has two live rows of
\* one step number: what a filing's validate_chain and the engine's walk rely on.
THEOREM StepsAreUnique == Spec => []OneRowPerStep
<1>1. Inv => OneRowPerStep
  BY DEF Inv, TableDiscipline
<1> QED
  BY <1>1, InitInv, StepInv, PTL DEF Spec

\* The chain a policy was last given is there whole, and nothing else of it, as long as
\* nobody has edited a row since that replacement's snapshot.
THEOREM ChainsAreWhole == Spec => []ChainIsWhole
<1>1. Inv => ChainIsWhole
  BY DEF Inv, TableDiscipline
<1> QED
  BY <1>1, InitInv, StepInv, PTL DEF Spec

-----------------------------------------------------------------------------
(* What check_chain has refused, a filing need not refuse.                 *)

\* check_chain finds the first step that has a fault, if one has.
LEMMA CheckedSteps ==
    ASSUME NEW steps \in Proposals, check_chain(steps) = "none"
    PROVE  \A n \in DOMAIN steps : StepFault(steps[n]) = "none"
<1> DEFINE Bad == {n \in DOMAIN steps : StepFault(steps[n]) # "none"}
<1>1. DOMAIN steps = 1..Len(steps) /\ Len(steps) \in 1..MaxChainSteps
  BY CheckedLength
<1>2. SUFFICES ASSUME Bad # {} PROVE FALSE
  BY <1>1
<1>3. Bad \subseteq Nat
  BY <1>1
<1>4. PICK m \in Bad : \A k \in Bad : m <= k
  BY <1>2, <1>3, LeastOf
<1>5. \A j \in 1..(m - 1) : StepFault(steps[j]) = "none"
  BY <1>1, <1>4
<1> DEFINE First(i) == /\ StepFault(steps[i]) # "none"
                       /\ \A j \in 1..(i - 1) : StepFault(steps[j]) = "none"
           first == CHOOSE i \in DOMAIN steps : First(i)
<1>6. First(m) /\ m \in DOMAIN steps
  BY <1>4, <1>5
<1>7. first \in DOMAIN steps /\ First(first)
  <2> HIDE DEF First
  <2> QED
    BY <1>6
<1>8. check_chain(steps) = StepFault(steps[first])
  BY <1>1, <1>4 DEF check_chain
<1> QED
  BY <1>7, <1>8

LEMMA CheckedResolvable ==
    ASSUME NEW steps \in Proposals, check_chain(steps) = "none", NEW e
    PROVE  Resolvable(steps, e)
<1> SUFFICES ASSUME NEW n \in DOMAIN steps
             PROVE  LET t == as_template(n, steps[n])
                        m == Members(t, <<e>>)
                    IN  /\ TemplateRefusal(t) = "none"
                        /\ m # <<>>
                        /\ \A i, j \in DOMAIN m : i # j => m[i].assigned_to # m[j].assigned_to
  BY DEF Resolvable
<1> DEFINE s == steps[n]
           t == as_template(n, s)
           m == Members(t, <<e>>)
<1>1. s \in ChainStep /\ StepFault(s) = "none"
  BY CheckedSteps, CheckedLength, AdminAssumption
<1>2. /\ t.quorum = s.quorum /\ t.all_of = s.all_of
      /\ t.approver_kind = s.approver_kind /\ t.approver_ref = s.approver_ref
  BY DEF as_template
<1>3. /\ s.quorum \in {"absent", "members"} /\ s.all_of \in Seq(Employees)
  BY <1>1 DEF ChainStep
<1> HIDE DEF s, t
<1>4. TemplateRefusal(t) = "none"
  BY <1>1, <1>2, <1>3 DEF TemplateRefusal, StepFault
<1>5. ASSUME s.quorum = "members"
      PROVE  m # <<>> /\ \A i, j \in DOMAIN m : i # j => m[i].assigned_to # m[j].assigned_to
  <2>1. /\ s.all_of # <<>>
        /\ \A i, j \in DOMAIN s.all_of : i # j => s.all_of[i] # s.all_of[j]
    BY <1>1, <1>5 DEF StepFault
  <2>2. m = [i \in DOMAIN s.all_of |->
                Member(t, "specific_employee", s.all_of[i], s.all_of[i])]
    BY <1>2, <1>5 DEF Members
  <2>3. DOMAIN m = DOMAIN s.all_of /\ \A i \in DOMAIN m : m[i].assigned_to = s.all_of[i]
    BY <2>2 DEF Member
  <2>4. m # <<>>
    BY <1>3, <2>1, <2>3
  <2> QED
    BY <2>1, <2>3, <2>4
<1>6. ASSUME s.quorum # "members"
      PROVE  m # <<>> /\ \A i, j \in DOMAIN m : i # j => m[i].assigned_to # m[j].assigned_to
  <2>1. DOMAIN <<e>> = {1} /\ DOMAIN <<>> = {}
    OBVIOUS
  <2>2. DOMAIN m = {1}
    <3>1. CASE t.approver_kind = "specific_employee"
      BY <1>2, <1>6, <3>1 DEF Members
    <3>2. CASE t.approver_kind # "specific_employee"
      BY <1>2, <1>6, <2>1, <3>2 DEF Members
    <3> QED
      BY <3>1, <3>2
  <2>3. m # <<>>
    BY <2>1, <2>2
  <2> QED
    BY <2>2, <2>3
<1> QED
  BY <1>4, <1>5, <1>6 DEF s, t

\* A chain that replace_chain has let through is one a filing can resolve, whomever the
\* resolver names: what check_chain lets pass, resolve_members and validate_chain do too.
THEOREM ReplacementsResolve == Spec => []ReplacedIsResolvable
<1>1. Inv => ReplacedIsResolvable
  <2> SUFFICES ASSUME Inv, NEW p \in Policies, latest[p] # NoChain, NEW e \in Employees
               PROVE  Resolvable(latest[p], e)
    BY DEF ReplacedIsResolvable
  <2>1. latest[p] \in Proposals /\ check_chain(latest[p]) = "none"
    BY DEF Inv, TypeOK, TableDiscipline
  <2> QED
    BY <2>1, CheckedResolvable
<1> QED
  BY <1>1, InitInv, StepInv, PTL DEF Spec

-----------------------------------------------------------------------------
(* Who loses to a unique violation.                                        *)

\* A statement of one session leaves the others where they are.
LEMMA OthersStay ==
    ASSUME Inv, NEW a \in Admins, NEW b \in Admins, a # b,
           Call(b) \/ Proceed(b) \/ Abort(b) \/ CancelDeadlocked(b)
    PROVE  pc'[a] = pc[a]
BY DEF Call, Proceed, Abort, CancelDeadlocked, Replace, PolicyExists, RetireTemplates,
       RetireRow, RetireEnds, InsertTemplate, InsertConflict, CommitChain, Step, Return,
       Goto, Inv, TypeOK

\* Only InsertConflict answers with a unique violation.
LEMMA OneWayToLose ==
    ASSUME Inv, NEW a \in Admins, Open(a), pc'[a] = "idle",
           Call(a) \/ Proceed(a) \/ Abort(a) \/ CancelDeadlocked(a)
    PROVE  InsertConflict(a) \/ answer'[a] # "unique_violation"
<1>1. pc \in [Admins -> PCs] /\ answer \in [Admins -> Outcomes] /\ pc[a] # "idle"
  BY DEF Inv, TypeOK, Open
<1>2. CASE Call(a)
  BY <1>1, <1>2 DEF Call, Replace
<1>3. CASE Proceed(a)
  BY <1>1, <1>3 DEF Proceed, PolicyExists, RetireTemplates, RetireRow, RetireEnds,
                    InsertTemplate, CommitChain, Step, Return, Goto
<1>4. CASE Abort(a) \/ CancelDeadlocked(a)
  BY <1>1, <1>4 DEF Abort, CancelDeadlocked, Return
<1> QED
  BY <1>2, <1>3, <1>4

\* A unique violation tells the operator that the chain has been changed since its
\* snapshot: nobody loses to rows that replace_chain should have retired.
THEOREM ConflictsAreHonest == Spec => ConflictWasOvertaken
<1> DEFINE A == \A a \in Admins :
        Open(a) /\ pc'[a] = "idle" /\ answer'[a] = "unique_violation" =>
            tx[a].edited \/ tx[a].overtaken
<1>1. Inv /\ [Next]_vars => [A]_vars
  <2> SUFFICES ASSUME Inv, Next, NEW a \in Admins, Open(a), pc'[a] = "idle",
                      answer'[a] = "unique_violation"
               PROVE  tx[a].edited \/ tx[a].overtaken
    OBVIOUS
  <2>1. Call(a) \/ Proceed(a) \/ Abort(a) \/ CancelDeadlocked(a)
    <3>1. pc'[a] # pc[a]
      BY DEF Open
    <3>2. \E b \in Admins : Call(b) \/ Proceed(b) \/ Abort(b) \/ CancelDeadlocked(b)
      BY <3>1 DEF Next, EditRow, CreateTemplate, UpdateTemplate, DeleteTemplate, Edit,
                  TogglePolicy
    <3> QED
      BY <3>1, <3>2, OthersStay
  <2>2. InsertConflict(a)
    BY <2>1, OneWayToLose
  <2>3. /\ pc[a] = "insert" /\ SnapshotMisses("insert", tx[a]) /\ tx[a].seen = {}
        /\ ~ Keyed(tx[a].policy, NextNumber(a)) \subseteq tx[a].retired
    BY <2>2, SessionFacts DEF InsertConflict, InPlace
  <2>4. ~ LiveOf(tx[a].policy) \subseteq tx[a].retired
    BY <2>3 DEF Keyed
  <2> QED
    BY <2>3, <2>4 DEF SnapshotMisses, BehindSnapshot
<1> QED
  BY <1>1, InitInv, StepInv, PTL DEF Spec, ConflictWasOvertaken

-----------------------------------------------------------------------------
(* What a reader of the live templates sees.                               *)

\* Rows as ChainTable has them.
Triples(S) == {Triple(r) : r \in S}

\* What ChainTable records of a replacement with locals c before the statement `label`.
Since(label, c) ==
    [policy |-> IF label \in BehindSnapshot THEN c.policy ELSE NoPolicy,
     edited |-> c.edited, overtaken |-> c.overtaken, late |-> Triples(c.late)]

\* No two live rows are one to a reader.
LEMMA TriplesDiffer ==
    ASSUME OneRowPerStep, NEW S \in SUBSET Live, NEW T \in SUBSET Live
    PROVE  /\ Triples(S \ T) = Triples(S) \ Triples(T)
           /\ Triples(S \intersect T) = Triples(S) \intersect Triples(T)
<1>1. \A q \in Live, r \in Live : Triple(q) = Triple(r) => q = r
  BY DEF OneRowPerStep, Triple
<1> QED
  BY <1>1 DEF Triples

\* The table's records, one by one.
LEMMA Records ==
    ASSUME Inv, NEW a \in Admins
    PROVE  /\ TableCalls[a] = Since(pc[a], tx[a])
           /\ pc[a] \in BehindSnapshot => /\ tx[a].policy \in Policies
                                          /\ tx[a].late \subseteq LiveOf(tx[a].policy)
           /\ pc[a] \notin BehindSnapshot => Since(pc[a], tx[a]) = Table!Idle
<1>1. /\ tx[a] \in Locals /\ pc[a] \in PCs /\ InPlace(pc[a], tx[a]) /\ LateIsLate(pc[a], tx[a])
  BY SessionFacts
<1>2. TableCalls[a] = Since(pc[a], tx[a])
  BY DEF TableCalls, Since, Triples, BehindSnapshot
<1>3. pc[a] \in BehindSnapshot => /\ tx[a].policy \in Policies
                                 /\ tx[a].late \subseteq LiveOf(tx[a].policy)
  BY <1>1 DEF InPlace, Locals, LateIsLate, BehindSnapshot
<1>4. ASSUME pc[a] \notin BehindSnapshot PROVE Since(pc[a], tx[a]) = Table!Idle
  <2>1. tx[a].edited = FALSE /\ tx[a].overtaken = FALSE /\ tx[a].late = {}
    BY <1>1, <1>4 DEF InPlace, Locals, PCs, Untouching, BehindSnapshot
  <2> QED
    BY <1>4, <2>1 DEF Since, Triples, Table!Idle, Table!Untouched
<1> QED
  BY <1>2, <1>3, <1>4

-----------------------------------------------------------------------------
(* The statements of a session that leave the rows alone.                  *)

\* They change its record alone.
LEMMA SessionRecord ==
    ASSUME Inv, NEW a \in Admins, NEW label \in PCs, NEW c \in Locals,
           pc' = [pc EXCEPT ![a] = label], tx' = [tx EXCEPT ![a] = c], templates' = templates
    PROVE  /\ TableRows' = TableRows
           /\ TableCalls' = [TableCalls EXCEPT ![a] = Since(label, c)]
<1>1. pc \in [Admins -> PCs] /\ tx \in [Admins -> Locals]
  BY DEF Inv, TypeOK
<1>2. TableRows' = TableRows
  BY DEF TableRows, Triple, Live
<1>3. \A S : {Triple(r) : r \in S}' = {Triple(r) : r \in S'}
  BY DEF Triple
<1>4. ASSUME NEW b \in Admins
      PROVE  TableCalls'[b] = Since(pc'[b], tx'[b])
  <2>1. \A r : Triple(r)' = Triple(r)
    BY DEF Triple
  <2> QED
    BY <2>1 DEF TableCalls, Since, Triples, BehindSnapshot
<1>5. \A b \in Admins : TableCalls'[b] = IF b = a THEN Since(label, c) ELSE TableCalls[b]
  BY <1>1, <1>4, Records
<1>6. TableCalls' = [b \in Admins |-> TableCalls'[b]] /\ TableCalls = [b \in Admins |-> TableCalls[b]]
  BY DEF TableCalls
<1> QED
  BY <1>2, <1>5, <1>6

\* A statement that keeps what the record shows is a stutter, ...
LEMMA StepIsStutter ==
    ASSUME Inv, NEW a \in Admins, NEW label \in PCs, NEW c \in Locals, Step(a, label, c),
           Since(label, c) = Since(pc[a], tx[a])
    PROVE  UNCHANGED <<TableRows, TableCalls>>
<1>1. /\ TableRows' = TableRows
      /\ TableCalls' = [TableCalls EXCEPT ![a] = Since(label, c)]
  BY SessionRecord DEF Step, Goto
<1>2. TableCalls[a] = Since(label, c)
  BY Records
<1>3. TableCalls = [b \in Admins |-> TableCalls[b]]
  BY DEF TableCalls
<1> QED
  BY <1>1, <1>2, <1>3

\* ... one that gives up, an Abandon, ...
LEMMA ReturnIsAbandon ==
    ASSUME Inv, NEW a \in Admins, NEW outcome \in Outcomes, Return(a, outcome)
    PROVE  Table!Abandon(a)
<1>1. /\ TableRows' = TableRows
      /\ TableCalls' = [TableCalls EXCEPT ![a] = Since("idle", NoCall)]
  BY NoCallFacts, SessionRecord DEF Return, Goto, PCs
<1>2. Since("idle", NoCall) = Table!Idle
  <2>1. NoCall.edited = FALSE /\ NoCall.overtaken = FALSE /\ NoCall.late = {}
    BY DEF NoCall
  <2> QED
    BY <2>1 DEF Since, Triples, Table!Idle, Table!Untouched, BehindSnapshot
<1> QED
  BY <1>1, <1>2 DEF Table!Abandon

\* ... and the snapshot of retire_templates a Begin.
LEMMA SnapshotIsBegin ==
    ASSUME Inv, NEW a \in Admins, RetireTemplates(a)
    PROVE  \E p \in Policies : Table!Begin(a, p)
<1> DEFINE c == [tx[a] EXCEPT !.seen = LiveOf(tx[a].policy)]
<1>1. pc[a] = "retire" /\ Step(a, "lock", c)
  BY DEF RetireTemplates
<1>2. tx[a] \in Locals /\ InPlace("retire", tx[a])
  BY <1>1, SessionFacts
<1>3. c \in Locals
  BY <1>2 DEF Locals, LiveOf
<1>4. /\ c.policy \in Policies /\ c.edited = FALSE /\ c.overtaken = FALSE /\ c.late = {}
  BY <1>2 DEF Locals, InPlace, Untouching
<1> HIDE DEF c
<1>5. /\ TableRows' = TableRows
      /\ TableCalls' = [TableCalls EXCEPT ![a] = Since("lock", c)]
  BY <1>1, <1>3, SessionRecord DEF Step, Goto, PCs
<1>6. TableCalls[a] = Table!Idle
  BY <1>1, Records DEF BehindSnapshot
<1>7. Since("lock", c) = Table!Untouched(c.policy)
  <2>1. Triples({}) = {}
    BY DEF Triples
  <2> QED
    BY <1>4, <2>1 DEF Since, BehindSnapshot, Table!Untouched
<1>8. Table!Begin(a, c.policy)
  BY <1>5, <1>6, <1>7 DEF Table!Begin
<1> QED
  BY <1>4, <1>8

\* What a session may do without a commit.
LEMMA SessionIsTable ==
    ASSUME Inv, NEW a \in Admins, ~ CommitChain(a),
           Call(a) \/ Proceed(a) \/ Abort(a) \/ CancelDeadlocked(a)
    PROVE  Table!Next \/ UNCHANGED <<TableRows, TableCalls>>
<1>1. /\ tx[a] \in Locals /\ pc[a] \in PCs /\ InPlace(pc[a], tx[a])
  BY SessionFacts
<1>2. ASSUME NEW p \in Policies, NEW steps \in Proposals, Replace(a, p, steps)
      PROVE  Table!Next \/ UNCHANGED <<TableRows, TableCalls>>
  <2>1. CASE check_chain(steps) # "none"
    BY <1>2, <2>1, CheckCodes, ReturnIsAbandon DEF Replace, Table!Next
  <2>2. CASE check_chain(steps) = "none"
    <3> DEFINE c == [NoCall EXCEPT !.policy = p, !.steps = steps]
    <3>1. c \in Locals /\ c.edited = FALSE /\ c.overtaken = FALSE /\ c.late = {}
      BY NoCallFacts DEF NoCall, Locals
    <3>2. pc' = [pc EXCEPT ![a] = "exists"] /\ tx' = [tx EXCEPT ![a] = c] /\ pc[a] = "idle"
          /\ templates' = templates
      BY <1>2, <2>2 DEF Replace, Goto
    <3> HIDE DEF c
    <3>3. TableRows' = TableRows /\ TableCalls' = [TableCalls EXCEPT ![a] = Since("exists", c)]
      BY <3>1, <3>2, SessionRecord DEF PCs
    <3>4. Since("exists", c) = Table!Idle
      BY <3>1 DEF Since, Triples, Table!Idle, Table!Untouched, BehindSnapshot
    <3> QED
      BY <3>3, <3>4 DEF Table!Next, Table!Abandon
  <2> QED
    BY <2>1, <2>2
<1>3. CASE PolicyExists(a)
  <2>1. CASE tx[a].policy \in policies
    <3>1. Step(a, "retire", tx[a]) /\ pc[a] = "exists"
      BY <1>3, <2>1 DEF PolicyExists
    <3> QED
      BY <1>1, <3>1, StepIsStutter DEF Since, BehindSnapshot, PCs
  <2>2. CASE tx[a].policy \notin policies
    BY <1>3, <2>2, ReturnIsAbandon DEF PolicyExists, Outcomes, Table!Next
  <2> QED
    BY <2>1, <2>2
<1>4. CASE RetireTemplates(a)
  BY <1>4, SnapshotIsBegin DEF Table!Next
<1>5. CASE RetireRow(a)
  <2>1. PICK r \in tx[a].seen :
            Step(a, "lock",
                 IF r \in LiveOf(tx[a].policy)
                 THEN [tx[a] EXCEPT !.seen = @ \ {r}, !.retired = @ \union {r}]
                 ELSE [tx[a] EXCEPT !.seen = @ \ {r}])
    BY <1>5 DEF RetireRow
  <2>2. pc[a] = "lock" /\ r \in Rows
    BY <1>1, <1>5 DEF RetireRow, Locals
  <2>3. PICK c : c = IF r \in LiveOf(tx[a].policy)
                     THEN [tx[a] EXCEPT !.seen = @ \ {r}, !.retired = @ \union {r}]
                     ELSE [tx[a] EXCEPT !.seen = @ \ {r}]
    OBVIOUS
  <2>4. /\ c \in Locals /\ c.policy = tx[a].policy /\ c.edited = tx[a].edited
        /\ c.overtaken = tx[a].overtaken /\ c.late = tx[a].late
    <3>1. CASE r \in LiveOf(tx[a].policy)
      BY <1>1, <2>2, <2>3, <3>1 DEF Locals
    <3>2. CASE r \notin LiveOf(tx[a].policy)
      BY <1>1, <2>2, <2>3, <3>2 DEF Locals
    <3> QED
      BY <3>1, <3>2
  <2> QED
    BY <2>1, <2>2, <2>3, <2>4, StepIsStutter DEF Since, PCs
<1>6. CASE RetireEnds(a)
  <2>1. Step(a, "insert", tx[a]) /\ pc[a] = "lock"
    BY <1>6 DEF RetireEnds
  <2> QED
    BY <1>1, <2>1, StepIsStutter DEF Since, BehindSnapshot, PCs
<1>7. CASE InsertTemplate(a)
  <2>1. PICK r \in Fresh :
            Step(a, IF Len(Append(tx[a].written, r)) = Len(tx[a].steps) THEN "commit" ELSE "insert",
                 [tx[a] EXCEPT !.written = Append(tx[a].written, r)])
    BY <1>7 DEF InsertTemplate
  <2>2. PICK c, label :
            /\ c = [tx[a] EXCEPT !.written = Append(tx[a].written, r)]
            /\ label = IF Len(Append(tx[a].written, r)) = Len(tx[a].steps)
                       THEN "commit" ELSE "insert"
    OBVIOUS
  <2>3. pc[a] = "insert" /\ label \in {"insert", "commit"} /\ r \in Rows
    BY <1>7, <2>2 DEF InsertTemplate, Fresh
  <2>4. c \in Locals
    <3>1. /\ tx[a].written \in Seq(Rows) /\ Len(tx[a].written) < Len(tx[a].steps)
          /\ Len(tx[a].steps) \in 1..MaxChainSteps
      BY <1>1, <2>3, CheckedLength DEF InPlace, Locals
    <3>2. /\ Append(tx[a].written, r) \in Seq(Rows)
          /\ Len(Append(tx[a].written, r)) <= MaxChainSteps
      BY <2>3, <3>1, AdminAssumption
    <3> QED
      BY <1>1, <2>2, <3>2 DEF Locals
  <2>5. /\ c.policy = tx[a].policy /\ c.edited = tx[a].edited
        /\ c.overtaken = tx[a].overtaken /\ c.late = tx[a].late
    BY <1>1, <2>2 DEF Locals
  <2> QED
    BY <2>1, <2>2, <2>3, <2>4, <2>5, StepIsStutter DEF Since, BehindSnapshot, PCs
<1>8. CASE InsertConflict(a)
  BY <1>8, ReturnIsAbandon DEF InsertConflict, Outcomes, Table!Next
<1>9. CASE Abort(a) \/ CancelDeadlocked(a)
  BY <1>9, ReturnIsAbandon DEF Abort, CancelDeadlocked, Outcomes, Table!Next
<1> QED
  BY <1>2, <1>3, <1>4, <1>5, <1>6, <1>7, <1>8, <1>9 DEF Call, Proceed

-----------------------------------------------------------------------------
(* The rows edited by hand.                                                *)

\* The triple a row edit takes away, ...
Gone(r) == IF r \in Live THEN {Triple(r)} ELSE {}

\* ... and the one it brings.
Come(row) == IF row = Vacant THEN {} ELSE {<<row.policy, row.step_no, row.step>>}

\* Row r is edited to `row`, and that touches the policies the two are of.
EditedTo(r, row, touched) ==
    /\ EditAllowed(r, row, touched)
    /\ row = Vacant => r \in Live
    /\ templates' = [templates EXCEPT ![r] = row]
    /\ Edit(r, touched)
    /\ \A p \in touched : \E x \in Gone(r) \union Come(row) : x[1] = p

\* A row edit is one of the table's.
LEMMA EditIsEdit ==
    ASSUME Inv, NEW r, NEW row, NEW touched, EditedTo(r, row, touched)
    PROVE  Table!EditRow
<1>0. /\ EditAllowed(r, row, touched) /\ Edit(r, touched)
      /\ templates' = [templates EXCEPT ![r] = row]
      /\ row = Vacant => r \in Live
      /\ \A p \in touched : \E x \in Gone(r) \union Come(row) : x[1] = p
  BY DEF EditedTo
<1>1. /\ templates \in [Rows -> TemplateRow \union {Vacant}] /\ r \in Rows /\ OneRowPerStep
      /\ \A q \in Rows : q # r => templates'[q] = templates[q]
      /\ templates'[r] = row /\ touched \in SUBSET Policies
  BY <1>0 DEF Inv, TypeOK, EditAllowed, TableDiscipline
<1>2. \A q \in Rows \ {r} : Triple(q)' = Triple(q)
  BY <1>1 DEF Triple
<1>3. /\ row = Vacant => row.policy = NoPolicy
      /\ row # Vacant => /\ row \in TemplateRow /\ row.policy \in touched
                         /\ row.policy # NoPolicy
                         /\ Keyed(row.policy, row.step_no) \subseteq {r}
      /\ NoPolicy \notin touched
  BY <1>0, <1>1, AdminAssumption DEF EditAllowed, Vacant
<1>4. Live' = IF row = Vacant THEN Live \ {r} ELSE Live \union {r}
  BY <1>0, <1>1, <1>3 DEF Live
<1>5. row # Vacant => Come(row) = {Triple(r)'}
  BY <1>1 DEF Come, Triple
<1>6. ASSUME NEW S \in SUBSET Live
      PROVE  Triples(S \ {r}) = Triples(S) \ Gone(r)
  <2>1. CASE r \in Live
    <3>1. Triples({r}) = Gone(r)
      BY <2>1 DEF Triples, Gone
    <3>2. Triples(S \ {r}) = Triples(S) \ Triples({r})
      <4>1. {r} \in SUBSET Live /\ OneRowPerStep
        BY <1>1, <2>1
      <4> QED
        BY <4>1, TriplesDiffer
    <3> QED
      BY <3>1, <3>2
  <2>2. CASE r \notin Live
    BY <2>2 DEF Gone
  <2> QED
    BY <2>1, <2>2
<1>7. TableRows' = (TableRows \ Gone(r)) \union Come(row)
  <2>1. TableRows = Triples(Live) /\ Triples(Live \ {r}) = TableRows \ Gone(r)
    BY <1>6 DEF TableRows, Triples
  <2>2. TableRows' = {Triple(q)' : q \in Live \ {r}} \union Come(row)
    BY <1>4, <1>5 DEF TableRows, Come
  <2>3. {Triple(q)' : q \in Live \ {r}} = Triples(Live \ {r})
    BY <1>2 DEF Triples, Live
  <2> QED
    BY <2>1, <2>2, <2>3
<1>8. ASSUME NEW x \in TableRows \ Gone(r), NEW y \in Come(row)
      PROVE  <<x[1], x[2]>> # <<y[1], y[2]>>
  <2>1. PICK q \in Live : x = Triple(q)
    BY DEF TableRows
  <2>2. q # r /\ row # Vacant /\ y = <<row.policy, row.step_no, row.step>>
    BY <2>1 DEF Gone, Come
  <2>3. ~ (templates[q].policy = row.policy /\ templates[q].step_no = row.step_no)
    BY <1>3, <2>2 DEF Keyed, LiveOf, Live
  <2> QED
    BY <2>1, <2>2, <2>3 DEF Triple
<1>9. ASSUME NEW p
      PROVE  (\E x \in Gone(r) \union Come(row) : x[1] = p) <=> p \in touched
  <2>1. ASSUME NEW x \in Gone(r) \union Come(row)
        PROVE  x[1] \in touched
    BY <1>0, <1>3 DEF Gone, Come, Triple, EditAllowed, Live
  <2> QED
    BY <1>0, <2>1
<1>10. ASSUME NEW d \in Admins
       PROVE  TableCalls'[d] =
                IF \E x \in Gone(r) \union Come(row) : x[1] = TableCalls[d].policy
                THEN Table!Edited(TableCalls[d], Gone(r), Come(row))
                ELSE TableCalls[d]
  <2>1. /\ TableCalls[d] = Since(pc[d], tx[d])
        /\ pc[d] \in BehindSnapshot => /\ tx[d].policy \in Policies
                                       /\ tx[d].late \subseteq LiveOf(tx[d].policy)
        /\ pc[d] \notin BehindSnapshot => Since(pc[d], tx[d]) = Table!Idle
    BY Records
  <2>2. /\ pc'[d] = pc[d] /\ tx'[d].policy = tx[d].policy
        /\ tx'[d].overtaken = tx[d].overtaken
        /\ tx'[d].edited = (tx[d].edited \/ Passed(d, touched))
        /\ tx'[d].late = LateAfter(d, r, touched)
    BY <1>0, <1>1, EditLocals
  <2>3. TableCalls'[d] =
            [policy |-> IF pc[d] \in BehindSnapshot THEN tx[d].policy ELSE NoPolicy,
             edited |-> tx[d].edited \/ Passed(d, touched), overtaken |-> tx[d].overtaken,
             late |-> {Triple(q)' : q \in LateAfter(d, r, touched)}]
    BY <2>2 DEF TableCalls, BehindSnapshot
  <2>4. TableCalls[d] =
            [policy |-> IF pc[d] \in BehindSnapshot THEN tx[d].policy ELSE NoPolicy,
             edited |-> tx[d].edited, overtaken |-> tx[d].overtaken,
             late |-> Triples(tx[d].late)]
    BY <2>1 DEF Since
  <2>5. Passed(d, touched) <=> TableCalls[d].policy \in touched
    BY <1>3, <2>4 DEF Passed, PastSnapshot, BehindSnapshot
  <2>6. tx[d].late \subseteq Live
    <3>1. CASE pc[d] \in BehindSnapshot
      BY <2>1, <3>1, LiveFacts DEF Inv
    <3>2. CASE pc[d] \notin BehindSnapshot
      BY <3>2, SessionFacts DEF InPlace, Untouching, BehindSnapshot, PCs
    <3> QED
      BY <3>1, <3>2
  <2>7. CASE Passed(d, touched)
    <3>1. pc[d] \in BehindSnapshot /\ TableCalls[d].policy = tx[d].policy
      BY <2>4, <2>7 DEF Passed, PastSnapshot, BehindSnapshot
    <3>2. {Triple(q)' : q \in tx[d].late \ {r}} = Triples(tx[d].late) \ Gone(r)
      <4>1. {Triple(q)' : q \in tx[d].late \ {r}} = Triples(tx[d].late \ {r})
        BY <1>2, <2>6 DEF Triples, Live
      <4> QED
        BY <1>6, <2>6, <4>1
    <3>3. {Triple(q)' : q \in LateAfter(d, r, touched)} =
            (Triples(tx[d].late) \ Gone(r)) \union {y \in Come(row) : y[1] = tx[d].policy}
      <4>1. CASE row.policy = tx[d].policy
        <5>1. row # Vacant
          BY <1>3, <2>1, <3>1, <4>1, AdminAssumption
        <5>2. {y \in Come(row) : y[1] = tx[d].policy} = {Triple(r)'}
          BY <1>5, <4>1, <5>1 DEF Come
        <5>3. LateAfter(d, r, touched) = (tx[d].late \ {r}) \union {r}
          BY <1>1, <2>7, <4>1 DEF LateAfter
        <5>4. {Triple(q)' : q \in LateAfter(d, r, touched)} =
                {Triple(q)' : q \in tx[d].late \ {r}} \union {Triple(r)'}
          BY <5>3
        <5> QED
          BY <3>2, <5>2, <5>4
      <4>2. CASE row.policy # tx[d].policy
        <5>1. {y \in Come(row) : y[1] = tx[d].policy} = {}
          BY <4>2 DEF Come
        <5>2. LateAfter(d, r, touched) = tx[d].late \ {r}
          BY <1>1, <2>7, <4>2 DEF LateAfter
        <5> QED
          BY <3>2, <5>1, <5>2
      <4> QED
        BY <4>1, <4>2
    <3>4. TableCalls'[d] = Table!Edited(TableCalls[d], Gone(r), Come(row))
      <4>1. (tx[d].edited \/ Passed(d, touched)) = TRUE
        BY <2>7
      <4>2. /\ TableCalls[d].overtaken = tx[d].overtaken
            /\ TableCalls[d].late = Triples(tx[d].late)
            /\ TableCalls[d].policy = IF pc[d] \in BehindSnapshot THEN tx[d].policy ELSE NoPolicy
        BY <2>4
      <4> QED
        BY <2>3, <3>1, <3>3, <4>1, <4>2 DEF Table!Edited
    <3> QED
      BY <1>9, <2>5, <2>7, <3>4
  <2>8. CASE ~ Passed(d, touched)
    <3>1. LateAfter(d, r, touched) = tx[d].late
      BY <2>8 DEF LateAfter
    <3>2. r \notin tx[d].late
      <4>1. CASE pc[d] \in BehindSnapshot
        <5>1. tx[d].policy \in Policies \ touched
          BY <2>1, <2>8, <4>1 DEF Passed, PastSnapshot, BehindSnapshot
        <5> QED
          BY <1>0, <2>1, <4>1, <5>1, EditFacts
      <4>2. CASE pc[d] \notin BehindSnapshot
        BY <4>2, SessionFacts DEF InPlace, Untouching, BehindSnapshot, PCs
      <4> QED
        BY <4>1, <4>2
    <3>3. {Triple(q)' : q \in tx[d].late} = Triples(tx[d].late)
      BY <1>2, <2>6, <3>2 DEF Triples, Live
    <3>4. tx[d].edited \in BOOLEAN
      BY SessionFacts DEF Locals
    <3>5. TableCalls'[d] = TableCalls[d]
      BY <2>3, <2>4, <2>8, <3>1, <3>3, <3>4
    <3> QED
      BY <1>9, <2>5, <2>8, <3>5
  <2> QED
    BY <2>7, <2>8
<1>11. TableCalls' = [d \in Admins |->
                        IF \E x \in Gone(r) \union Come(row) : x[1] = TableCalls[d].policy
                        THEN Table!Edited(TableCalls[d], Gone(r), Come(row))
                        ELSE TableCalls[d]]
  <2>1. TableCalls' = [d \in Admins |-> TableCalls'[d]]
    BY DEF TableCalls
  <2> QED
    BY <1>10, <2>1
<1>12. /\ Gone(r) \in {{}} \union {{x} : x \in TableRows}
       /\ Come(row) \in {{}} \union {{y} : y \in TableRows'}
  <2>1. Come(row) \subseteq TableRows'
    BY <1>7
  <2>2. Gone(r) \in {{}} \union {{x} : x \in TableRows}
    BY DEF Gone, TableRows
  <2>3. Come(row) \in {{}} \union {{y} : y \in TableRows'}
    BY <2>1 DEF Come
  <2> QED
    BY <2>2, <2>3
<1> QED
  BY <1>7, <1>8, <1>11, <1>12 DEF Table!EditRow

LEMMA EditRowIsEdit ==
    ASSUME Inv, NEW r \in Rows, EditRow(r)
    PROVE  Table!EditRow
<1>1. ASSUME NEW p \in Policies, NEW n \in EditedNumbers, NEW s \in EditedSteps,
             CreateTemplate(r, p, n, s) \/ UpdateTemplate(r, p, n, s)
      PROVE  Table!EditRow
  <2> DEFINE row == [policy |-> p, step_no |-> n, step |-> s]
  <2>1. n \in Nat /\ s \in ChainStep
    BY AdminAssumption
  <2>2. row # Vacant /\ row.policy = p
    <3>1. row.policy = p /\ Vacant.policy = NoPolicy
      BY DEF Vacant
    <3> QED
      BY <3>1, AdminAssumption
  <2>3. templates' = [templates EXCEPT ![r] = row]
    BY <1>1 DEF CreateTemplate, UpdateTemplate
  <2> HIDE DEF row
  <2>4. \E x \in Come(row) : x[1] = p
    BY <2>2 DEF Come
  <2>5. CASE CreateTemplate(r, p, n, s)
    <3>1. EditAllowed(r, row, {p}) /\ Edit(r, {p})
      BY <2>1, <2>5, CreateAllowed DEF CreateTemplate, row
    <3>2. \A q \in {p} : \E x \in Gone(r) \union Come(row) : x[1] = q
      BY <2>4
    <3>3. EditedTo(r, row, {p})
      BY <2>2, <2>3, <3>1, <3>2 DEF EditedTo
    <3> QED
      BY <3>3, EditIsEdit
  <2>6. CASE UpdateTemplate(r, p, n, s)
    <3>1. /\ EditAllowed(r, row, {p, templates[r].policy}) /\ Edit(r, {p, templates[r].policy})
          /\ r \in Live
      BY <2>1, <2>6, UpdateAllowed DEF UpdateTemplate, row
    <3>2. \E x \in Gone(r) : x[1] = templates[r].policy
      BY <3>1 DEF Gone, Triple
    <3>3. \A q \in {p, templates[r].policy} : \E x \in Gone(r) \union Come(row) : x[1] = q
      BY <2>4, <3>2
    <3>4. EditedTo(r, row, {p, templates[r].policy})
      BY <2>2, <2>3, <3>1, <3>3 DEF EditedTo
    <3> QED
      BY <3>4, EditIsEdit
  <2> QED
    BY <1>1, <2>5, <2>6
<1>2. CASE DeleteTemplate(r)
  <2>1. /\ EditAllowed(r, Vacant, {templates[r].policy}) /\ Edit(r, {templates[r].policy})
        /\ r \in Live /\ templates' = [templates EXCEPT ![r] = Vacant]
    BY <1>2, DeleteAllowed DEF DeleteTemplate
  <2>2. \E x \in Gone(r) : x[1] = templates[r].policy
    BY <2>1 DEF Gone, Triple
  <2>3. \A q \in {templates[r].policy} : \E x \in Gone(r) \union Come(Vacant) : x[1] = q
    BY <2>2
  <2>4. EditedTo(r, Vacant, {templates[r].policy})
    BY <2>1, <2>3 DEF EditedTo
  <2> QED
    BY <2>4, EditIsEdit
<1> QED
  BY <1>1, <1>2 DEF EditRow

-----------------------------------------------------------------------------
(* The commit.                                                             *)

\* The commit of a chain is a replacement of the table's: what it leaves was written
\* since its snapshot.
LEMMA CommitIsReplace ==
    ASSUME Inv, NEW a \in Admins, CommitChain(a)
    PROVE  \E steps \in Valid : Table!Replace(a, steps)
<1>1. PICK p, steps, retired, written :
        /\ p = tx[a].policy /\ steps = tx[a].steps /\ retired = tx[a].retired
        /\ written = tx[a].written
  OBVIOUS
<1>2. Committed(p, steps, retired, written)
  BY <1>1, CommitFacts
<1>3. /\ LiveOf(p)' = RowsOf(written) \union (LiveOf(p) \ retired)
      /\ Live' = RowsOf(written) \union (Live \ retired)
      /\ \A r \in Live \ retired : templates'[r] = templates[r]
      /\ \A q \in Policies \ {p} : LiveOf(q) \intersect retired = {}
  BY <1>2, CommitRows DEF Inv
<1>4. /\ p \in Policies /\ steps \in Valid /\ DOMAIN written = DOMAIN steps
      /\ retired \subseteq LiveOf(p) /\ \A q \in Policies : LiveOf(q) \subseteq Live
      /\ 1 \in DOMAIN steps
      /\ \A n \in DOMAIN steps : Keyed(p, n) \subseteq retired
  BY <1>2, LiveFacts DEF Committed, Valid, Inv
<1>5. /\ pc[a] = "commit" /\ tx[a].seen = {} /\ tx[a].written # <<>> /\ tx[a] \in Locals
      /\ SnapshotMisses("commit", tx[a]) /\ LateIsLate("commit", tx[a]) /\ OneRowPerStep
  <2>1. pc[a] = "commit"
    BY DEF CommitChain
  <2>2. /\ tx[a] \in Locals /\ InPlace("commit", tx[a])
        /\ SnapshotMisses("commit", tx[a]) /\ LateIsLate("commit", tx[a])
    BY <2>1, SessionFacts
  <2>3. tx[a].written # <<>>
    BY <1>1, <1>4
  <2>4. OneRowPerStep
    BY DEF Inv, TableDiscipline
  <2> QED
    BY <2>1, <2>2, <2>3, <2>4 DEF InPlace
<1>6. PICK kept : kept = Triples(LiveOf(p) \ retired)
  OBVIOUS
<1> DEFINE written3 == {<<p, n, steps[n]>> : n \in DOMAIN steps}
<1>7. \A r \in Live \ retired : Triple(r)' = Triple(r)
  BY <1>3 DEF Triple
<1>8. {Triple(r)' : r \in RowsOf(written)} = written3
  <2>1. ASSUME NEW n \in DOMAIN steps
        PROVE  Triple(written[n])' = <<p, n, steps[n]>>
    <3>1. templates'[written[n]] = [policy |-> p, step_no |-> n, step |-> steps[n]]
      BY <1>2 DEF Committed
    <3> QED
      BY <3>1 DEF Triple
  <2> QED
    BY <1>4, <2>1 DEF RowsOf
<1>9. TableRows' = {x \in TableRows : x[1] # p} \union written3 \union kept
  <2>1. {x \in TableRows : x[1] # p} = Triples(Live \ LiveOf(p))
    BY DEF TableRows, Triples, Triple, Live, LiveOf
  <2>2. Live \ retired = (Live \ LiveOf(p)) \union (LiveOf(p) \ retired)
    BY <1>4
  <2>3. {Triple(r)' : r \in Live \ retired} = Triples(Live \ LiveOf(p)) \union kept
    BY <1>6, <1>7, <2>2 DEF Triples
  <2>4. TableRows' = {Triple(r)' : r \in RowsOf(written)} \union {Triple(r)' : r \in Live \ retired}
    BY <1>3 DEF TableRows
  <2> QED
    BY <1>8, <2>1, <2>3, <2>4
<1>10. /\ TableCalls[a] = Since("commit", tx[a]) /\ TableCalls[a].policy = p
       /\ TableCalls[a].late = Triples(tx[a].late)
       /\ TableCalls[a].overtaken => TableCalls[a].edited
  <2>1. TableCalls[a] = Since("commit", tx[a])
    BY <1>5, Records
  <2>2. tx[a].overtaken => tx[a].edited
    BY <1>5 DEF SnapshotMisses, BehindSnapshot
  <2> QED
    BY <1>1, <2>1, <2>2 DEF Since, BehindSnapshot
<1>11. kept \in SUBSET {x \in TableCalls[a].late : x[2] \notin DOMAIN steps}
  <2> SUFFICES ASSUME NEW x \in kept
               PROVE  x \in Triples(tx[a].late) /\ x[2] \notin DOMAIN steps
    BY <1>10
  <2>1. PICK r \in LiveOf(p) \ retired : x = Triple(r)
    BY <1>6 DEF Triples
  <2>2. r \in tx[a].late
    BY <1>1, <1>5, <2>1 DEF LateIsLate, BehindSnapshot
  <2>3. templates[r].step_no \notin DOMAIN steps
    BY <1>4, <2>1 DEF Keyed
  <2> QED
    BY <2>1, <2>2, <2>3 DEF Triple, Triples
<1>12. ASSUME NEW d \in Admins
       PROVE  TableCalls'[d] =
                IF d = a THEN Table!Idle
                ELSE IF TableCalls[d].policy = p
                THEN Table!Overtaken(TableCalls[d], kept, written3)
                ELSE TableCalls[d]
  <2>1. CASE d = a
    <3>1. pc'[d] = "idle" /\ tx'[d] = NoCall
      BY <2>1 DEF CommitChain, Goto, Inv, TypeOK
    <3>2. NoCall.edited = FALSE /\ NoCall.overtaken = FALSE /\ NoCall.late = {}
      BY DEF NoCall
    <3>3. TableCalls'[d] = [policy |-> NoPolicy, edited |-> FALSE, overtaken |-> FALSE, late |-> {}]
      BY <3>1, <3>2 DEF TableCalls
    <3> QED
      BY <2>1, <3>3 DEF Table!Idle, Table!Untouched
  <2>2. CASE d # a
    <3>1. /\ pc'[d] = pc[d] /\ tx'[d].policy = tx[d].policy /\ tx'[d].edited = tx[d].edited
          /\ tx'[d].overtaken = (tx[d].overtaken \/ d \in PastSnapshot(p))
          /\ tx'[d].late = IF d \in PastSnapshot(p)
                           THEN (tx[d].late \ retired) \union RowsOf(written)
                           ELSE tx[d].late
      BY <1>1, <2>2, CommitLocals
    <3>2. /\ TableCalls[d] = Since(pc[d], tx[d])
          /\ pc[d] \in BehindSnapshot => /\ tx[d].policy \in Policies
                                         /\ tx[d].late \subseteq LiveOf(tx[d].policy)
      BY Records
    <3>3. TableCalls[d] =
            [policy |-> IF pc[d] \in BehindSnapshot THEN tx[d].policy ELSE NoPolicy,
             edited |-> tx[d].edited, overtaken |-> tx[d].overtaken,
             late |-> Triples(tx[d].late)]
      BY <3>2 DEF Since
    <3>4. d \in PastSnapshot(p) <=> TableCalls[d].policy = p
      BY <1>4, <3>3, AdminAssumption DEF PastSnapshot, BehindSnapshot
    <3>5. TableCalls'[d] =
            [policy |-> IF pc[d] \in BehindSnapshot THEN tx[d].policy ELSE NoPolicy,
             edited |-> tx[d].edited,
             overtaken |-> tx[d].overtaken \/ d \in PastSnapshot(p),
             late |-> {Triple(r)' : r \in tx'[d].late}]
      BY <3>1 DEF TableCalls, BehindSnapshot
    <3>6. CASE d \in PastSnapshot(p)
      <4>1. tx[d].late \subseteq LiveOf(p)
        BY <3>2, <3>6 DEF PastSnapshot, BehindSnapshot
      <4>2. {Triple(r)' : r \in tx[d].late \ retired} = Triples(tx[d].late) \intersect kept
        <5>1. {Triple(r)' : r \in tx[d].late \ retired} = Triples(tx[d].late \ retired)
          BY <1>4, <1>7, <4>1 DEF Triples
        <5>2. tx[d].late \ retired = tx[d].late \intersect (LiveOf(p) \ retired)
          BY <4>1
        <5>3. tx[d].late \in SUBSET Live /\ LiveOf(p) \ retired \in SUBSET Live
          BY <1>4, <4>1
        <5> QED
          BY <1>5, <1>6, <5>1, <5>2, <5>3, TriplesDiffer
      <4>3. {Triple(r)' : r \in tx'[d].late} = (Triples(tx[d].late) \intersect kept) \union written3
        BY <1>8, <3>1, <3>6, <4>2
      <4>4. TableCalls'[d] = Table!Overtaken(TableCalls[d], kept, written3)
        <5> HIDE DEF written3
        <5>1. (tx[d].overtaken \/ d \in PastSnapshot(p)) = TRUE
          BY <3>6
        <5>2. /\ TableCalls[d].edited = tx[d].edited
              /\ TableCalls[d].late = Triples(tx[d].late)
              /\ TableCalls[d].policy = IF pc[d] \in BehindSnapshot THEN tx[d].policy ELSE NoPolicy
          BY <3>3
        <5> QED
          BY <3>5, <4>3, <5>1, <5>2 DEF Table!Overtaken
      <4> QED
        BY <2>2, <3>4, <3>6, <4>4
    <3>7. CASE d \notin PastSnapshot(p)
      <4>1. tx[d].late \subseteq Live \ retired
        <5>1. CASE pc[d] \in BehindSnapshot
          <6>1. tx[d].policy \in Policies \ {p}
            BY <3>2, <3>7, <5>1 DEF PastSnapshot, BehindSnapshot
          <6> QED
            BY <1>3, <1>4, <3>2, <5>1, <6>1
        <5>2. CASE pc[d] \notin BehindSnapshot
          BY <5>2, SessionFacts DEF InPlace, Untouching, BehindSnapshot, PCs
        <5> QED
          BY <5>1, <5>2
      <4>2. {Triple(r)' : r \in tx'[d].late} = Triples(tx[d].late)
        BY <1>7, <3>1, <3>7, <4>1 DEF Triples
      <4>3. tx[d].overtaken \in BOOLEAN
        BY SessionFacts DEF Locals
      <4>4. TableCalls'[d] = TableCalls[d]
        BY <3>3, <3>5, <3>7, <4>2, <4>3
      <4> QED
        BY <2>2, <3>4, <3>7, <4>4
    <3> QED
      BY <3>6, <3>7
  <2> QED
    BY <2>1, <2>2
<1>13. TableCalls' = [d \in Admins |->
                        IF d = a THEN Table!Idle
                        ELSE IF TableCalls[d].policy = p
                        THEN Table!Overtaken(TableCalls[d], kept, written3)
                        ELSE TableCalls[d]]
  <2>1. TableCalls' = [d \in Admins |-> TableCalls'[d]]
    BY DEF TableCalls
  <2> HIDE DEF written3
  <2> QED
    BY <1>12, <2>1
<1>14. Table!Numbered(p, steps) = written3
  BY DEF Table!Numbered
<1>15. p # NoPolicy
  BY <1>4, AdminAssumption
<1> HIDE DEF written3
<1>16. Table!Replace(a, steps)
  BY <1>9, <1>10, <1>11, <1>13, <1>14, <1>15 DEF Table!Replace
<1> QED
  BY <1>4, <1>16

\* The live templates change as ChainTable says: a row is edited, or a chain replaced at
\* once, by a replacement that leaves nothing of the chain its snapshot saw, and that no
\* other has overtaken unless a row was edited by hand.  Filing reads them so.
THEOREM ReplacementsAreAtomic == Spec => ImplementsTable
<1>1. Init => Table!Init
  <2> SUFFICES ASSUME Init PROVE Table!Init
    OBVIOUS
  <2>1. TableRows = {}
    BY DEF Init, TableRows, Live, Vacant
  <2>2. \A a \in Admins : TableCalls[a] = Table!Idle
    <3>1. NoCall.edited = FALSE /\ NoCall.overtaken = FALSE /\ NoCall.late = {}
      BY DEF NoCall
    <3> QED
      BY <3>1 DEF Init, TableCalls, Table!Idle, Table!Untouched
  <2>3. TableCalls = [a \in Admins |-> Table!Idle]
    <3>1. TableCalls = [a \in Admins |-> TableCalls[a]]
      BY DEF TableCalls
    <3> QED
      BY <2>2, <3>1
  <2> QED
    BY <2>1, <2>3 DEF Table!Init
<1>2. Inv /\ [Next]_vars => [Table!Next]_<<TableRows, TableCalls>>
  <2> SUFFICES ASSUME Inv, [Next]_vars
               PROVE  Table!Next \/ UNCHANGED <<TableRows, TableCalls>>
    OBVIOUS
  <2>1. ASSUME NEW a \in Admins, Call(a) \/ Proceed(a) \/ Abort(a) \/ CancelDeadlocked(a)
        PROVE  Table!Next \/ UNCHANGED <<TableRows, TableCalls>>
    <3>1. CASE CommitChain(a)
      BY <3>1, CommitIsReplace DEF Table!Next
    <3>2. CASE ~ CommitChain(a)
      BY <2>1, <3>2, SessionIsTable
    <3> QED
      BY <3>1, <3>2
  <2>2. ASSUME NEW r \in Rows, EditRow(r)
        PROVE  Table!Next
    BY <2>2, EditRowIsEdit DEF Table!Next
  <2>3. CASE UNCHANGED <<templates, pc, tx>>
    BY <2>3 DEF TableRows, TableCalls, Triple, Live
  <2> QED
    BY <2>1, <2>2, <2>3 DEF Next, TogglePolicy, vars
<1> QED
  BY <1>1, <1>2, InitInv, StepInv, PTL DEF Spec, ImplementsTable, Table!Spec
=============================================================================
