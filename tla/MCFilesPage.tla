---------------------------- MODULE MCFilesPage -----------------------------
(***************************************************************************)
(* Two pages of one user, a file and two spellings of its directory.        *)
(***************************************************************************)
EXTENDS FilesPage

CONSTANTS laptop, phone, film, d, slashed

MCPage == {laptop, phone}
MCItem == {<<film, d>>, <<film, slashed>>}

Symmetry == Permutations(MCPage) \cup Permutations({d, slashed})
=============================================================================
