--------------------------- MODULE MCRecordStore ---------------------------
(***************************************************************************)
(* Two clients of one row, each of the five tables in turn, with one of    *)
(* its columns at a time taking all the values it may have.                *)
(***************************************************************************)
EXTENDS RecordStore, TLC

Symmetry == Permutations(Sessions)
=============================================================================
