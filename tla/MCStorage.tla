----------------------------- MODULE MCStorage ------------------------------
(***************************************************************************)
(* Three renames among three names, and an upload.                         *)
(***************************************************************************)
EXTENDS Storage, TLC

CONSTANTS a, b, c, r1, r2, r3, u1

MCName   == {a, b, c}
MCRename == {r1, r2, r3}
MCUpload == {u1}

Symmetry == Permutations(MCName) \cup Permutations(MCRename)
=============================================================================
