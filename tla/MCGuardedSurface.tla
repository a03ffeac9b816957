-------------------------- MODULE MCGuardedSurface --------------------------
(***************************************************************************)
(* One tenant and the composed database, two employees and a principal who *)
(* is none, two days and two windows for the model checker.                *)
(***************************************************************************)
EXTENDS GuardedSurfaceInv, TLC

CONSTANTS t1, u1, u2, ghost, rq1

MCEmployees  == 1..2
MCEmployeeOf == [u \in Users |-> CASE u = u1 -> 1 [] u = u2 -> 2 [] u = ghost -> Nobody]
MCDays       == 1..2
MCPeriods    == {<<1, 1>>, <<2, 1>>}
MCSymmetry   == Permutations(Sessions) \union Permutations(Windows)
MCApproverOf == [r \in Requests |-> 1]
MCRequestsOf == [d \in Databases |-> IF d = t1 THEN {rq1} ELSE {}]
=============================================================================
