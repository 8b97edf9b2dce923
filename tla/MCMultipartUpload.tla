------------------------ MODULE MCMultipartUpload ------------------------
(***************************************************************************)
(* Small requests for TLC.  Every line is three bytes long, so that a      *)
(* recv() can end inside one or in its CRLF; nine lines up to the file, so *)
(* a first-buffer test is off by 18 bytes; a buffer of 16 bytes plays the  *)
(* 550 of the code and can hold the last required line together with the   *)
(* start of the file.                                                      *)
(***************************************************************************)
EXTENDS MultipartUpload

Line(nm, to) == [name |-> nm, from |-> to - 3, to |-> to]

\* The web server's order, after the request line: its own headers first, the
\* browser's after them.  The gap before Operation-Type is the File-Size line,
\* which no upload waits for: a recv() that ends between its CR and its LF cuts
\* no required line but the one behind it.
AllLines == { Line("File-Name", 6), Line("Session-ID", 9), Line("File-OBJID", 12),
              Line("Operation-Type", 18), Line("x-file_size", 21) }

Request(lines, size) ==
    [lines |-> lines, dispEnd |-> 24, bodyStart |-> 26, numLines |-> 9,
     fileSize |-> size, trailer |-> 2]

\* An empty file, files that fit one buffer, one within the 18 bytes, two
\* beyond them and one that atoi() clamps; and a request without a name or
\* without an object id.
MCRequests ==
    {Request(AllLines, size) : size \in {0, 1, 4, 9, 19, 23, 28}}
    \cup {Request({l \in AllLines : l.name # missing}, 19) :
             missing \in {"File-Name", "File-OBJID"}}

\* One whole request whose file is just within the 18 bytes.
TruncatedRequests == {Request(AllLines, 18)}
=============================================================================
