--------------------------- MODULE UploadService ---------------------------
(***************************************************************************)
(* What one upload connection promises, without its bytes: the client gets *)
(* at most one answer, the request's record leaves Pending at most once,   *)
(* FAIL leaves the record alone, and after OK the record can only become   *)
(* Success.  The answer comes before the record is updated.                *)
(***************************************************************************)
VARIABLES conn, reply, file_status

svars == <<conn, reply, file_status>>

Init ==
    /\ conn = "open"
    /\ reply = "none"
    /\ file_status = "Pending"

\* The request is refused.
Refuse ==
    /\ conn = "open"
    /\ conn' = "closed"
    /\ reply' = "FAIL"
    /\ UNCHANGED file_status

\* The file is complete: the client is told.
Answer ==
    /\ conn = "open"
    /\ conn' = "finishing"
    /\ reply' = "OK"
    /\ UNCHANGED file_status

\* The record of an answered request is updated, if there is one.
Record ==
    /\ conn = "finishing"
    /\ conn' = "closed"
    /\ file_status' \in {file_status, "Success"}
    /\ UNCHANGED reply

\* The client left without an answer.
Abort ==
    /\ conn = "open"
    /\ conn' = "closed"
    /\ file_status' \in {"Pending", "Success", "Failed"}
    /\ UNCHANGED reply

Next == Refuse \/ Answer \/ Record \/ Abort

Spec == Init /\ [][Next]_svars
=============================================================================
