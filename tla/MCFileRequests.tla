--------------------------- MODULE MCFileRequests ---------------------------
(***************************************************************************)
(* Three requests for one file: two uploads of two blocks and a download,  *)
(* or two uploads of a block and one of an empty file, so that two can     *)
(* race and a third can meet what they left behind.                        *)
(***************************************************************************)
EXTENDS FileRequests, FiniteSets, TLC

MCWorkloads ==
    {w \in [operation_type : [Req -> {"Upload", "Download"}], file_size : [Req -> FileSize]] :
        LET downloads == {r \in Req : w.operation_type[r] = "Download"}
        IN  \/ /\ Cardinality(downloads) = 1
               /\ \A r \in Req : w.file_size[r] = IF r \in downloads THEN 1 ELSE 2
            \/ /\ downloads = {}
               /\ \E empty \in Req : \A r \in Req : w.file_size[r] = IF r = empty THEN 0 ELSE 1}

MCLiveWorkloads ==
    [operation_type : [Req -> {"Upload", "Download"}], file_size : [Req -> {0, 1}]]

Symmetry == Permutations(Req)
=============================================================================
