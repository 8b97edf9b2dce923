-------------------------- MODULE MultipartUpload --------------------------
(***************************************************************************)
(* One upload connection of the storage backend, from its first byte to    *)
(* its close: the receive loop of homeCloud_Main.cpp for that descriptor,  *)
(* Socket_data (homeCloud_ReqProcessor.cpp) and Multipart_parser           *)
(* (homeCloud_parse_multipart.cpp).                                        *)
(*                                                                         *)
(* The request is a stream of bytes: header lines, the multipart part      *)
(* header, a blank line, the file, the closing boundary.  recv() cuts it   *)
(* at arbitrary places.  Header text is abstracted to the byte interval of *)
(* each line the parser looks for; the file to the number of its bytes.    *)
(***************************************************************************)
EXTENDS Integers

CONSTANTS
    Requests,   \* the requests a client may send, see RequestsAssumption
    BufSize,    \* size of the receive buffer: 550 in the code
    AtoiMax     \* largest value atoi() returns: 2^31-1 on the 32-bit target

\* The header lines the parser extracts a value from.
HeaderNames == {"Session-ID", "File-Name", "File-OBJID", "Operation-Type", "x-file_size"}

\* The lines an upload cannot be started without: relevant_info_headers_received.
Required == {"Session-ID", "File-Name", "File-OBJID", "Operation-Type"}

(***************************************************************************)
(* A request: [lines, dispEnd, bodyStart, numLines, fileSize, trailer].    *)
(* lines     - intervals (from, to] of the non-empty header lines above,   *)
(*             each with its CRLF; the request line comes before them;     *)
(* dispEnd   - end of the part's Content-Disposition line;                 *)
(* bodyStart - end of the blank line before the file;                      *)
(* numLines  - CRLF-terminated lines up to bodyStart, the blank included;  *)
(* fileSize  - bytes of the file, and the value of x-file_size;            *)
(* trailer   - bytes of the closing boundary.                              *)
(* The web server always sends Operation-Type and copies the browser's     *)
(* x-file_size; any of the other values may be empty, as if it were absent.*)
(***************************************************************************)
ASSUME RequestsAssumption ==
    /\ BufSize \in Nat \ {0}
    /\ AtoiMax \in Nat
    /\ \A r \in Requests :
        /\ r.dispEnd \in Nat /\ r.bodyStart \in Nat /\ r.numLines \in Nat
        /\ r.fileSize \in Nat /\ r.trailer \in Nat
        /\ 0 < r.dispEnd /\ r.dispEnd < r.bodyStart
        /\ \A l \in r.lines :
            /\ l.name \in HeaderNames
            /\ l.from \in Nat /\ l.to \in Nat
            /\ 2 <= l.from /\ l.from < l.to /\ l.to <= r.dispEnd
        /\ \E l \in r.lines : l.name = "Operation-Type"
        /\ \E l \in r.lines : l.name = "x-file_size"

VARIABLES
    req,                            \* the request, fixed by the client
    received,                       \* bytes recv() has returned so far
    headers,                        \* header values the parser holds
    all_header_received,            \* Multipart_parser: part header seen
    is_finished_processing_header,  \* Socket_data: session and record looked up
    session_status,
    stream,                         \* socket_buff_upload_file
    multi_status,
    already_received_content,
    conn,                           \* "open", "finishing" (reply sent), "closed"
    reply,                          \* what the client was answered
    file_status                     \* of the record in files_table

\* History of the run, which the program does not keep.
VARIABLES
    written,    \* bytes of the file written, in order, to the disk
    foreign,    \* other bytes written to the disk
    dropped,    \* bytes handed to a stream that is not open
    split       \* a recv() cut a Required header line, see CutBy

parser == <<headers, all_header_received, multi_status, already_received_content>>
socket == <<is_finished_processing_header, session_status, stream>>
disk   == <<written, foreign, dropped>>
vars   == <<req, received, parser, socket, conn, reply, file_status, disk, split>>

Least(a, b) == IF a <= b THEN a ELSE b

TotalLen == req.bodyStart + req.fileSize + req.trailer

\* content_length once the x-file_size line is parsed: unsigned = atoi(text).
DeclaredSize == Least(req.fileSize, AtoiMax)

ContentLength(known) == IF "x-file_size" \in known THEN DeclaredSize ELSE 0

\* The header lines that lie entirely in the bytes from..to of the request.
LinesWithin(from, to) == {l.name : l \in {k \in req.lines : from <= k.from /\ k.to <= to}}

\* A recv() that ends after byte cut hides line l from a pass over one chunk: it
\* ends inside the line, or between the CR and the LF before it, so that the
\* next chunk's first token is the line with the LF in front.
CutBy(l, cut) == (l.from < cut /\ cut < l.to) \/ cut + 1 = l.from

relevant_info_headers_received(known) == Required \subseteq known

TypeOK ==
    /\ req \in Requests
    /\ received \in 0..TotalLen
    /\ headers \subseteq HeaderNames
    /\ all_header_received \in BOOLEAN
    /\ is_finished_processing_header \in BOOLEAN
    /\ session_status \in {"Not_Received_yet", "Valid_session", "Not_Valid_session"}
    /\ stream \in {"unopened", "open", "failed", "closed"}
    /\ multi_status \in {"receiving_header", "receiving_file", "finished_receiving_file"}
    /\ already_received_content \in 0..DeclaredSize
    /\ conn \in {"open", "finishing", "closed"}
    /\ reply \in {"none", "FAIL", "OK"}
    /\ file_status \in {"Pending", "Success", "Failed"}
    /\ written \in Nat /\ foreign \in Nat /\ dropped \in Nat
    /\ split \in BOOLEAN

Init ==
    /\ req \in Requests
    /\ received = 0
    /\ headers = {}
    /\ all_header_received = FALSE
    /\ is_finished_processing_header = FALSE
    /\ session_status = "Not_Received_yet"
    /\ stream = "unopened"
    /\ multi_status = "receiving_header"
    /\ already_received_content = 0
    /\ conn = "open"
    /\ reply = "none"
    /\ file_status = "Pending"
    /\ written = 0 /\ foreign = 0 /\ dropped = 0
    /\ split = FALSE

-----------------------------------------------------------------------------
(***************************************************************************)
(* Parts of add_data_chunk.  Each names its primed variables.              *)
(***************************************************************************)

\* filestream.write(p, len) when the bytes at p are the request's body from
\* offset off and only avail of them are in the buffer.
Write(out, off, avail, len) ==
    LET own == Least(Least(len, avail), req.fileSize - off)
    IN  IF out = "open"
        THEN /\ written' = written + own
             /\ foreign' = foreign + (len - own)
             /\ UNCHANGED dropped
        ELSE /\ dropped' = dropped + len
             /\ UNCHANGED <<written, foreign>>

Close(out) == IF out = "open" THEN "closed" ELSE out

\* Mutation: the CRLFs are subtracted twice.
MoreToComeMutant(k, size) == k - 2 * req.numLines < size

\* The test of parse_buffer for "the file goes on after this buffer", when k
\* bytes of the body are in it.  start_of_file had the text of each line
\* subtracted but not its CRLF, so it counts 2 * numLines bytes too many.
MoreToCome(k, size) == k + 2 * req.numLines < size

\* Mutation: start_of_file, not the bytes left in the buffer, is counted.
FirstBytesMutant(k, size, out) ==
    IF MoreToCome(k, size)
    THEN /\ Write(out, 0, k, k)
         /\ already_received_content' = k + 2 * req.numLines
         /\ multi_status' = "receiving_file"
         /\ stream' = out
    ELSE /\ Write(out, 0, k, size)
         /\ already_received_content' = size
         /\ multi_status' = "finished_receiving_file"
         /\ stream' = Close(out)

\* The blank line before the file is in the buffer, with k bytes of the body.
FirstBytes(k, size, out) ==
    IF MoreToCome(k, size)
    THEN /\ Write(out, 0, k, k)
         /\ already_received_content' = k
         /\ multi_status' = "receiving_file"
         /\ stream' = out
    ELSE /\ Write(out, 0, k, size)
         /\ already_received_content' = size
         /\ multi_status' = "finished_receiving_file"
         /\ stream' = Close(out)

\* Mutations: the last chunk is written whole; its end is not looked for; it
\* is not counted.
NextBytesMutant(n, size, out) ==
    /\ Write(out, already_received_content, n, n)
    /\ IF already_received_content + n >= size
       THEN /\ already_received_content' = size
            /\ multi_status' = "finished_receiving_file"
            /\ stream' = Close(out)
       ELSE /\ already_received_content' = already_received_content + n
            /\ multi_status' = "receiving_file"
            /\ stream' = out

NextBytesNoEndMutant(n, size, out) ==
    /\ Write(out, already_received_content, n, n)
    /\ already_received_content' = already_received_content + n
    /\ multi_status' = "receiving_file"
    /\ stream' = out

NextBytesNoCountMutant(n, size, out) ==
    IF already_received_content + n >= size
    THEN /\ Write(out, already_received_content, n, size - already_received_content)
         /\ UNCHANGED already_received_content
         /\ multi_status' = "finished_receiving_file"
         /\ stream' = Close(out)
    ELSE /\ Write(out, already_received_content, n, n)
         /\ already_received_content' = already_received_content + n
         /\ multi_status' = "receiving_file"
         /\ stream' = out

\* A later chunk of n bytes.
NextBytes(n, size, out) ==
    IF already_received_content + n >= size
    THEN /\ Write(out, already_received_content, n, size - already_received_content)
         /\ already_received_content' = size
         /\ multi_status' = "finished_receiving_file"
         /\ stream' = Close(out)
    ELSE /\ Write(out, already_received_content, n, n)
         /\ already_received_content' = already_received_content + n
         /\ multi_status' = "receiving_file"
         /\ stream' = out

\* parse_buffer(buff, n, filestream): in the header it re-reads all it has
\* buffered, so a line that an earlier recv() cut is recognised here.
parse_buffer(n, known, out) ==
    LET now == received + n
        all == known \cup LinesWithin(0, now)
    IN  \/ /\ multi_status = "receiving_header"
           /\ headers' = all
           /\ all_header_received' = IF req.dispEnd <= now THEN TRUE ELSE all_header_received
           /\ IF req.bodyStart <= now
              THEN FirstBytes(now - req.bodyStart, ContentLength(all), out)
              ELSE /\ stream' = out
                   /\ UNCHANGED <<multi_status, already_received_content, disk>>
        \/ /\ multi_status = "receiving_file"
           /\ headers' = known
           /\ UNCHANGED all_header_received
           /\ NextBytes(n, ContentLength(known), out)

\* Mutation: the chunk pass is dropped, leaving the headers to parse_buffer.
HeadersAfterMutant(n) == IF n > 0 THEN headers ELSE {}

\* The header values after read_request_major_headers, which sees only the
\* lines that lie in this chunk and that the end of the last one did not cut,
\* and is skipped once nothing is missing.
HeadersAfter(n) ==
    IF relevant_info_headers_received(headers)
    THEN headers
    ELSE headers \cup {l.name : l \in {k \in req.lines :
            received <= k.from /\ k.to <= received + n /\ ~CutBy(k, received)}}

\* recv() returns n bytes.
Recv(n) ==
    /\ conn = "open"
    /\ n \in 1..BufSize
    /\ received + n <= TotalLen
    /\ received' = received + n
    /\ split' = (split \/ \E l \in req.lines : l.name \in Required /\ CutBy(l, received + n))
    /\ UNCHANGED req

\* Mutation: the commented-out finish_receiving() of this branch is restored,
\* and marks the refused request's record.
RefuseAndCloseMutant ==
    /\ session_status' = "Not_Valid_session"
    /\ reply' = "FAIL"
    /\ conn' = "closed"
    /\ file_status' = "Failed"
    /\ UNCHANGED <<all_header_received, multi_status, already_received_content, disk,
                   stream>>

\* The main loop's branch for a session that is not valid: FAIL, close.  The
\* record keeps its status and the stream is left as it is.
RefuseAndClose ==
    /\ session_status' = "Not_Valid_session"
    /\ reply' = "FAIL"
    /\ conn' = "closed"
    /\ UNCHANGED <<all_header_received, multi_status, already_received_content, disk,
                   stream, file_status>>

\* The main loop after a chunk that was not refused: a complete file is
\* answered (and the descriptor closed) before finish_receiving runs.
ReplyIfComplete ==
    /\ IF multi_status' = "finished_receiving_file"
       THEN reply' = "OK" /\ conn' = "finishing"
       ELSE UNCHANGED <<reply, conn>>
    /\ UNCHANGED file_status

-----------------------------------------------------------------------------
(***************************************************************************)
(* The actions.                                                            *)
(***************************************************************************)

\* The part header is complete and a required value is still missing.
RecvIncompleteHeader(n) ==
    /\ Recv(n)
    /\ headers' = HeadersAfter(n)
    /\ all_header_received
    /\ ~relevant_info_headers_received(headers')
    /\ RefuseAndClose
    /\ UNCHANGED is_finished_processing_header

\* Mutation: the early return after a failed lookup is missing.
RecvUnknownRequestMutant(n) ==
    /\ Recv(n)
    /\ relevant_info_headers_received(HeadersAfter(n))
    /\ ~is_finished_processing_header
    /\ is_finished_processing_header' = TRUE
    /\ session_status' = "Not_Valid_session"
    /\ parse_buffer(n, HeadersAfter(n), "open")
    /\ reply' = "FAIL"
    /\ conn' = "closed"
    /\ UNCHANGED file_status

\* Every required value has just become known to the chunk pass, and the
\* session or the request record is not in the database.
RecvUnknownRequest(n) ==
    /\ Recv(n)
    /\ headers' = HeadersAfter(n)
    /\ relevant_info_headers_received(headers')
    /\ ~is_finished_processing_header
    /\ is_finished_processing_header' = TRUE
    /\ RefuseAndClose

\* Mutation: the file is not opened.
RecvStartsFileMutant(n, opened) ==
    /\ Recv(n)
    /\ relevant_info_headers_received(HeadersAfter(n))
    /\ ~is_finished_processing_header
    /\ is_finished_processing_header' = (opened # "none")
    /\ session_status' = "Valid_session"
    /\ parse_buffer(n, HeadersAfter(n), stream)
    /\ ReplyIfComplete

\* The same, and both are there: the file is opened (and truncated).  Nothing
\* looks at whether open() worked.
RecvStartsFile(n, opened) ==
    /\ Recv(n)
    /\ relevant_info_headers_received(HeadersAfter(n))
    /\ ~is_finished_processing_header
    /\ is_finished_processing_header' = TRUE
    /\ session_status' = "Valid_session"
    /\ parse_buffer(n, HeadersAfter(n), opened)
    /\ ReplyIfComplete

\* A chunk that only goes to the parser.
RecvMore(n) ==
    /\ Recv(n)
    /\ \/ relevant_info_headers_received(HeadersAfter(n)) /\ is_finished_processing_header
       \/ ~relevant_info_headers_received(HeadersAfter(n)) /\ ~all_header_received
    /\ parse_buffer(n, HeadersAfter(n), stream)
    /\ ReplyIfComplete
    /\ UNCHANGED <<is_finished_processing_header, session_status>>

\* Mutation: "no more than declared" taken for "all received".
finish_receiving_Mutant ==
    /\ stream' = Close(stream)
    /\ file_status' = IF "File-OBJID" \notin headers THEN file_status
                      ELSE IF already_received_content <= ContentLength(headers)
                           THEN "Success" ELSE "Failed"

\* Socket_data::finish_receiving.  Without an object id the update matches no
\* record of files_table.
finish_receiving ==
    /\ stream' = Close(stream)
    /\ file_status' = IF "File-OBJID" \notin headers THEN file_status
                      ELSE IF already_received_content = ContentLength(headers)
                           THEN "Success" ELSE "Failed"

\* The second half of the main loop's "file content all received" branch.
FinishComplete ==
    /\ conn = "finishing"
    /\ finish_receiving
    /\ conn' = "closed"
    /\ UNCHANGED <<req, received, parser, is_finished_processing_header, session_status,
                   reply, disk, split>>

\* recv() returns 0 or an error: the peer is gone.
Disconnect ==
    /\ conn = "open"
    /\ IF "Operation-Type" \in headers
       THEN finish_receiving
       ELSE UNCHANGED <<stream, file_status>>
    /\ conn' = "closed"
    /\ UNCHANGED <<req, received, parser, is_finished_processing_header, session_status,
                   reply, disk, split>>

Next ==
    \/ \E n \in 1..BufSize :
        \/ RecvIncompleteHeader(n)
        \/ RecvUnknownRequest(n)
        \/ \E opened \in {"open", "failed"} : RecvStartsFile(n, opened)
        \/ RecvMore(n)
    \/ FinishComplete
    \/ Disconnect

Spec == Init /\ [][Next]_vars

-----------------------------------------------------------------------------
(***************************************************************************)
(* Properties.                                                             *)
(***************************************************************************)

\* Bytes of the body that recv() has returned.
FileBytesIn == received - req.bodyStart

\* No byte of the body is counted twice or skipped, however recv() cut the
\* stream: until a refusal, while the file is received the parser's counter is exactly
\* the number of body bytes received, and short of the declared size.
CountsEveryByte ==
    multi_status = "receiving_file" /\ session_status # "Not_Valid_session" =>
        /\ already_received_content = FileBytesIn
        /\ already_received_content < DeclaredSize

\* Every byte the parser reports as received is accounted for: it went to the
\* disk or to a stream that was not open.  No other byte did.
BytesAccounted == written + foreign + dropped = already_received_content

\* Bytes that are not the file's (the closing boundary, or what follows the
\* buffer's end) reach the disk only through the first-buffer test: when the
\* rest of the file is within 2 * numLines bytes of what has arrived.
ForeignOnlyFromFirstBuffer ==
    foreign > 0 =>
        /\ multi_status = "finished_receiving_file"
        /\ FileBytesIn < DeclaredSize
        /\ DeclaredSize <= FileBytesIn + 2 * req.numLines
        /\ foreign <= DeclaredSize - FileBytesIn

\* Every value the upload needs is somewhere in the request.
HasRequired == Required \subseteq {l.name : l \in req.lines}

\* File bytes are lost only if a recv() ended inside a required header line or
\* in the CRLF before one (so that the file was opened a chunk late or never),
\* or such a line was missing altogether (noticed a chunk late), or open()
\* failed.
DroppedOnlyForCause == dropped > 0 => split \/ ~HasRequired \/ stream = "failed"

\* Nothing reaches the disk for a request whose session and record were not
\* both found: no order of chunks gets a byte written first.
WritesOnlyForValidRequest == written + foreign > 0 => session_status = "Valid_session"

\* The connection never waits for bytes the client will not send: once the
\* whole request is in, it has been answered.
WholeRequestIsAnswered == received = TotalLen => reply # "none" \/ conn = "closed"

\* What an OK to the client guarantees: if no required header line was cut or
\* missing, the file opened, atoi() did not clamp and the first buffer was not within
\* 2 * numLines of the end; then the disk holds the file and nothing else.
OkMeansStored ==
    /\ reply = "OK"
    /\ ~split /\ HasRequired
    /\ stream # "failed"
    /\ req.fileSize <= AtoiMax
    /\ req.fileSize <= FileBytesIn
    => written = req.fileSize /\ foreign = 0

\* A record is marked Success only when the parser finished, or when the peer
\* left before x-file_size was parsed or while nothing was expected.
SuccessOnlyIfComplete ==
    file_status = "Success" =>
        \/ multi_status = "finished_receiving_file"
        \/ ContentLength(headers) = 0

\* The connection implements UploadService: one answer, FAIL leaves the record
\* Pending, and a record answered OK is marked Success and nothing else.
Service ==
    INSTANCE UploadService WITH
        conn <- conn, reply <- reply, file_status <- file_status
ImplementsService == Service!Spec

-----------------------------------------------------------------------------
(***************************************************************************)
(* The inductive invariant behind these properties.                        *)
(***************************************************************************)

\* Where the connection is in its life.
ConnInv ==
    /\ conn = "open" => /\ reply = "none" /\ file_status = "Pending"
                        /\ session_status # "Not_Valid_session"
                        /\ multi_status # "finished_receiving_file"
    /\ conn = "finishing" => /\ reply = "OK" /\ file_status = "Pending"
    /\ reply = "OK" => /\ multi_status = "finished_receiving_file"
                       /\ conn = "closed" /\ "File-OBJID" \in headers
                            => file_status = "Success"
    /\ reply = "FAIL" => conn = "closed" /\ file_status = "Pending"
    /\ SuccessOnlyIfComplete

\* The session is looked up once, with the required headers, and the file is
\* opened only then.
SessionInv ==
    /\ is_finished_processing_header => relevant_info_headers_received(headers)
    /\ session_status = "Valid_session" => is_finished_processing_header
    /\ ~is_finished_processing_header => stream = "unopened"
    /\ stream = "unopened" => written + foreign = 0
    /\ stream # "unopened" => session_status = "Valid_session"
    /\ conn = "open" =>
        (is_finished_processing_header <=> session_status = "Valid_session")
    /\ conn = "open" /\ is_finished_processing_header => stream \in {"open", "failed"}

\* The parser's counter.
CounterInv ==
    /\ BytesAccounted
    /\ multi_status = "receiving_header" =>
        /\ already_received_content = 0
        /\ conn = "open" => received < req.bodyStart
    /\ multi_status # "receiving_header" =>
        /\ "x-file_size" \in headers
        /\ req.bodyStart <= received
    /\ CountsEveryByte
    /\ multi_status = "receiving_file" => already_received_content < DeclaredSize
    /\ multi_status = "finished_receiving_file" => already_received_content = DeclaredSize
    /\ ForeignOnlyFromFirstBuffer

\* With no required line cut so far, each one that has arrived is known.
SplitInv ==
    /\ conn = "open" /\ multi_status = "receiving_header" => LinesWithin(0, received) \subseteq headers
    /\ conn = "open" /\ ~split =>
        \A l \in req.lines : l.name \in Required => ~CutBy(l, received)
    /\ conn = "open" /\ multi_status = "receiving_file" /\ ~split /\ HasRequired =>
        is_finished_processing_header
    /\ DroppedOnlyForCause

IInv == TypeOK /\ ConnInv /\ SessionInv /\ CounterInv /\ SplitInv

-----------------------------------------------------------------------------
(***************************************************************************)
(* What the code's comments say and the code does not do.                  *)
(***************************************************************************)

\* homeCloud_Main.cpp:315 says of the OK branch "file content all received".
OkMeansAllReceived == reply = "OK" => FileBytesIn >= req.fileSize
=============================================================================
