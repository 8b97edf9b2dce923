---------------------------- MODULE MCUploadQueue ---------------------------
(***************************************************************************)
(* Three files, of which an upload that ends starts two; two directories,  *)
(* one of them spelled without a slash; two milliseconds; and progress on  *)
(* either side of what is rounded to 100 per cent.                         *)
(***************************************************************************)
EXTENDS UploadQueue

CONSTANTS a, b, c

MCFile  == {a, b, c}
MCPlace == {[dir |-> "docs", slash |-> TRUE], [dir |-> "music", slash |-> FALSE]}

Symmetry == Permutations(MCFile)
=============================================================================
