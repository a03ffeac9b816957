--------------------------- MODULE ResourceClaim ---------------------------
(***************************************************************************)
(* What filing promises for one resource: it is free or one request holds  *)
(* it; a claim succeeds only on a free resource, and it passes from one    *)
(* request to another only by becoming free in between.                    *)
(***************************************************************************)
CONSTANTS Ids, NoId

VARIABLE holder

Init == holder = NoId

Claim == holder = NoId /\ holder' \in Ids

\* The holding request is refused or withdrawn.
Release == holder # NoId /\ holder' = NoId

Next == Claim \/ Release

Spec == Init /\ [][Next]_holder
=============================================================================
