----------------------- MODULE MultipartUploadProofs -----------------------
(***************************************************************************)
(* Proofs about MultipartUpload for every set of requests, every buffer    *)
(* size and every clamp: IInv is inductive, and it implies the invariants. *)
(***************************************************************************)
EXTENDS MultipartUpload, TLAPS

(***************************************************************************)
(* What RequestsAssumption says of the request being received.             *)
(***************************************************************************)

\* Sizes and positions are numbers, and the part header ends before the body.
LEMMA RequestFacts ==
    ASSUME req \in Requests
    PROVE  /\ req.dispEnd \in Nat /\ req.bodyStart \in Nat /\ req.numLines \in Nat
           /\ req.fileSize \in Nat /\ req.trailer \in Nat
           /\ 0 < req.dispEnd /\ req.dispEnd < req.bodyStart
           /\ TotalLen \in Nat
           /\ DeclaredSize \in Nat /\ DeclaredSize <= req.fileSize
           /\ BufSize \in Nat /\ AtoiMax \in Nat
  BY RequestsAssumption DEF TotalLen, DeclaredSize, Least

\* A header line lies in the bytes before dispEnd.
LEMMA LineFacts ==
    ASSUME req \in Requests, NEW l \in req.lines
    PROVE  /\ l.name \in HeaderNames
           /\ l.from \in Nat /\ l.to \in Nat
           /\ 2 <= l.from /\ l.from < l.to /\ l.to <= req.dispEnd
  BY RequestsAssumption

\* LinesWithin yields header names.
LEMMA LinesWithinType ==
    ASSUME req \in Requests, NEW from, NEW to
    PROVE  LinesWithin(from, to) \subseteq HeaderNames
  BY LineFacts DEF LinesWithin

\* So does the chunk pass.
LEMMA ChunkPassType ==
    ASSUME req \in Requests, headers \subseteq HeaderNames, NEW n
    PROVE  headers \subseteq HeadersAfter(n) /\ HeadersAfter(n) \subseteq HeaderNames
<1>1. ASSUME NEW name \in HeadersAfter(n) PROVE name \in HeaderNames
  <2>1. CASE name \in headers
    BY <2>1
  <2>2. CASE name \notin headers
    <3>1. \E l \in req.lines : name = l.name
      BY <1>1, <2>2 DEF HeadersAfter
    <3> QED BY <3>1, LineFacts
  <2> QED BY <2>1, <2>2
<1> QED BY <1>1 DEF HeadersAfter

\* The buffer pass recognises every header once the body has begun: no header
\* line ends after it.
LEMMA LinesBeforeBody ==
    ASSUME req \in Requests, NEW to \in Nat, req.bodyStart <= to
    PROVE  /\ {"Operation-Type", "x-file_size"} \subseteq LinesWithin(0, to)
           /\ HasRequired => Required \subseteq LinesWithin(0, to)
<1>1. \A l \in req.lines : 0 <= l.from /\ l.to <= to
  BY LineFacts, RequestFacts
<1>2. \A l \in req.lines : l.name \in LinesWithin(0, to)
  BY <1>1 DEF LinesWithin
<1>3. /\ \E l \in req.lines : l.name = "Operation-Type"
      /\ \E l \in req.lines : l.name = "x-file_size"
  BY RequestsAssumption
<1> QED BY <1>2, <1>3 DEF HasRequired

\* If no recv() has cut a required line, the required lines of a chunk are the
\* ones that end in it: the chunk pass misses none.
LEMMA ChunkPassComplete ==
    ASSUME IInv, conn = "open", NEW n \in 1..BufSize, Recv(n),
           multi_status = "receiving_header", ~split, HasRequired,
           req.bodyStart <= received'
    PROVE  relevant_info_headers_received(HeadersAfter(n))
<1>1. req \in Requests /\ received \in Nat /\ n \in Nat /\ received' = received + n
  BY RequestFacts DEF IInv, TypeOK, Recv
<1>2. SUFFICES ASSUME NEW l \in req.lines, l.name \in Required,
                      ~relevant_info_headers_received(headers)
               PROVE  l.name \in HeadersAfter(n)
  BY DEF HasRequired, HeadersAfter, relevant_info_headers_received
<1>3. l.from \in Nat /\ l.to \in Nat /\ l.to <= received + n
  BY <1>1, LineFacts, RequestFacts
<1>4. CASE l.to <= received
  <2>1. l.name \in LinesWithin(0, received)
    BY <1>1, <1>3, <1>4 DEF LinesWithin
  <2> QED BY <2>1, <1>2 DEF IInv, SplitInv, HeadersAfter
<1>5. CASE received <= l.from
  <2>1. ~CutBy(l, received)
    BY <1>2 DEF IInv, SplitInv
  <2> QED BY <2>1, <1>2, <1>3, <1>5 DEF HeadersAfter
<1>6. received <= l.from \/ l.to <= received
  <2>1. ~CutBy(l, received)
    BY <1>2 DEF IInv, SplitInv
  <2> QED BY <2>1, <1>1, <1>3 DEF CutBy
<1> QED BY <1>4, <1>5, <1>6

(***************************************************************************)
(* One call of parse_buffer, on a chunk of n bytes.                        *)
(***************************************************************************)

\* What parse_buffer leaves behind when it has not finished the header.
HeaderOutcome ==
    /\ multi_status' = "receiving_header"
    /\ already_received_content' = 0
    /\ received' < req.bodyStart
    /\ LinesWithin(0, received') \subseteq headers'
    /\ UNCHANGED disk

\* ... and when the file has begun.
BodyOutcome(out) ==
    /\ "x-file_size" \in headers'
    /\ req.bodyStart <= received'
    /\ \/ /\ multi_status' = "receiving_file"
          /\ already_received_content' = received' - req.bodyStart
          /\ already_received_content' < DeclaredSize
          /\ foreign' = foreign
          /\ stream' = out
       \/ /\ multi_status' = "finished_receiving_file"
          /\ already_received_content' = DeclaredSize
          /\ \/ foreign' = foreign
             \/ /\ received' - req.bodyStart < DeclaredSize
                /\ DeclaredSize <= received' - req.bodyStart + 2 * req.numLines
                /\ foreign' <= DeclaredSize - (received' - req.bodyStart)
          /\ stream' = Close(out)

\* Bytes go where they should, whatever the case.
DiskOutcome(out) ==
    /\ written' \in Nat /\ foreign' \in Nat /\ dropped' \in Nat
    /\ written' + foreign' + dropped' = already_received_content'
    /\ out = "open" => dropped' = dropped
    /\ out # "open" => written' = written /\ foreign' = foreign

\* Writing len bytes of the file that are all in the buffer adds no other byte.
LEMMA WriteOwn ==
    ASSUME written \in Nat, foreign \in Nat, dropped \in Nat, req.fileSize \in Nat,
           written + foreign + dropped = already_received_content,
           NEW out, NEW off \in Nat, NEW avail \in Nat, NEW len \in Nat,
           len <= avail, off + len <= req.fileSize,
           off = already_received_content, Write(out, off, avail, len),
           already_received_content' = off + len
    PROVE  DiskOutcome(out) /\ foreign' = foreign
<1>1. Least(Least(len, avail), req.fileSize - off) = len
  BY DEF Least
<1>2. CASE out = "open"
  BY <1>1, <1>2 DEF Write, DiskOutcome
<1>3. CASE out # "open"
  BY <1>1, <1>3 DEF Write, DiskOutcome
<1> QED BY <1>2, <1>3

\* parse_buffer adds headers, counts the bytes it passes to the stream, and
\* reaches the file with the size known.
LEMMA ParseStep ==
    ASSUME IInv, conn = "open", NEW n \in 1..BufSize, Recv(n),
           NEW out \in {"unopened", "open", "failed"},
           parse_buffer(n, HeadersAfter(n), out)
    PROVE  /\ HeadersAfter(n) \subseteq headers' /\ headers' \subseteq HeaderNames
           /\ all_header_received' \in BOOLEAN
           /\ DiskOutcome(out)
           /\ (HeaderOutcome /\ stream' = out) \/ BodyOutcome(out)
<1>1. /\ req \in Requests /\ received \in Nat /\ n \in Nat
      /\ received' = received + n /\ received' \in Nat
      /\ headers \subseteq HeaderNames /\ all_header_received \in BOOLEAN
      /\ written \in Nat /\ foreign \in Nat /\ dropped \in Nat
      /\ already_received_content \in Nat
      /\ written + foreign + dropped = already_received_content
  BY RequestFacts DEF IInv, TypeOK, Recv, CounterInv, BytesAccounted
<1>2. /\ req.bodyStart \in Nat /\ req.dispEnd \in Nat /\ req.fileSize \in Nat
      /\ req.numLines \in Nat /\ DeclaredSize \in Nat /\ DeclaredSize <= req.fileSize
  BY <1>1, RequestFacts
<1>3. headers \subseteq HeadersAfter(n) /\ HeadersAfter(n) \subseteq HeaderNames
  BY <1>1, ChunkPassType
<1>4. CASE multi_status = "receiving_header"
  <2> DEFINE all == HeadersAfter(n) \cup LinesWithin(0, received + n)
  <2>1. headers' = all /\ all_header_received' \in BOOLEAN
    BY <1>1, <1>4 DEF parse_buffer
  <2>2. HeadersAfter(n) \subseteq headers' /\ headers' \subseteq HeaderNames
    BY <2>1, <1>1, <1>3, LinesWithinType
  <2>3. all_header_received' \in BOOLEAN
    BY <2>1, <1>1
  <2>4. already_received_content = 0
    BY <1>4 DEF IInv, CounterInv
  <2>5. written = 0 /\ foreign = 0 /\ dropped = 0
    BY <2>4, <1>1
  <2>6. CASE received + n < req.bodyStart
    <3>1. /\ stream' = out
          /\ UNCHANGED <<multi_status, already_received_content, disk>>
      BY <2>6, <1>1, <1>2, <1>4 DEF parse_buffer
    <3>2. HeaderOutcome
      BY <3>1, <2>1, <2>4, <2>6, <1>1, <1>4 DEF HeaderOutcome
    <3>3. DiskOutcome(out)
      BY <3>1, <1>1 DEF DiskOutcome, disk
    <3> QED BY <3>1, <3>2, <3>3, <2>2, <2>3
  <2>7. CASE req.bodyStart <= received + n
    <3> DEFINE k == received + n - req.bodyStart
    <3>1. k \in Nat /\ k = received' - req.bodyStart
      BY <2>7, <1>1, <1>2
    <3>2. "x-file_size" \in all
      BY <2>7, <1>1, LinesBeforeBody
    <3>3. FirstBytes(k, DeclaredSize, out)
      <4>1. FirstBytes(k, ContentLength(all), out)
        BY <2>7, <1>4, <1>1, <1>2 DEF parse_buffer
      <4> QED BY <4>1, <3>2 DEF ContentLength
    <3> HIDE DEF k, all
    <3>4. CASE MoreToCome(k, DeclaredSize)
      <4>1. /\ Write(out, 0, k, k) /\ stream' = out
            /\ already_received_content' = k /\ multi_status' = "receiving_file"
        BY <3>3, <3>4 DEF FirstBytes
      <4>2. k < DeclaredSize /\ k <= req.fileSize
        BY <3>4, <3>1, <1>2 DEF MoreToCome
      <4>3. DiskOutcome(out) /\ foreign' = foreign
        BY <4>1, <4>2, <2>4, <3>1, <1>1, <1>2, WriteOwn
      <4> QED BY <4>1, <4>2, <4>3, <3>1, <3>2, <2>1, <2>2, <2>3, <2>7, <1>1 DEF BodyOutcome
    <3>5. CASE ~MoreToCome(k, DeclaredSize)
      <4>1. /\ Write(out, 0, k, DeclaredSize) /\ stream' = Close(out)
            /\ already_received_content' = DeclaredSize
            /\ multi_status' = "finished_receiving_file"
        BY <3>3, <3>5 DEF FirstBytes
      <4>2. DeclaredSize <= k + 2 * req.numLines
        BY <3>5, <3>1, <1>2 DEF MoreToCome
      <4>3. DiskOutcome(out)
        BY <4>1, <2>5, <3>1, <1>2 DEF DiskOutcome, Write, Least
      <4>4. \/ foreign' = foreign
            \/ k < DeclaredSize /\ foreign' <= DeclaredSize - k
        BY <4>1, <2>5, <3>1, <1>2 DEF Write, Least
      <4> QED BY <4>1, <4>2, <4>3, <4>4, <3>1, <3>2, <2>1, <2>2, <2>3, <2>7, <1>1
              DEF BodyOutcome
    <3> QED BY <3>4, <3>5
  <2> QED BY <2>6, <2>7, <1>1, <1>2
<1>5. CASE multi_status = "receiving_file"
  <2>1. /\ headers' = HeadersAfter(n)
        /\ UNCHANGED all_header_received
        /\ NextBytes(n, ContentLength(HeadersAfter(n)), out)
    BY <1>5 DEF parse_buffer
  <2>2. /\ "x-file_size" \in headers /\ req.bodyStart <= received
        /\ already_received_content = received - req.bodyStart
        /\ already_received_content < DeclaredSize
    BY <1>5 DEF IInv, CounterInv, CountsEveryByte, ConnInv, FileBytesIn
  <2>3. NextBytes(n, DeclaredSize, out)
    BY <2>1, <2>2, <1>3 DEF ContentLength
  <2>4. CASE already_received_content + n >= DeclaredSize
    <3>1. /\ Write(out, already_received_content, n, DeclaredSize - already_received_content)
          /\ already_received_content' = DeclaredSize
          /\ multi_status' = "finished_receiving_file"
          /\ stream' = Close(out)
      BY <2>3, <2>4 DEF NextBytes
    <3>2. LET len == DeclaredSize - already_received_content
          IN  /\ len \in Nat /\ len <= n /\ already_received_content + len <= req.fileSize
              /\ already_received_content + len = DeclaredSize
      BY <2>2, <2>4, <1>1, <1>2
    <3>3. DiskOutcome(out) /\ foreign' = foreign
      BY <3>1, <3>2, <1>1, <1>2, WriteOwn
    <3> QED BY <3>1, <3>3, <2>1, <2>2, <1>1, <1>2, <1>3 DEF BodyOutcome
  <2>5. CASE ~(already_received_content + n >= DeclaredSize)
    <3>1. /\ Write(out, already_received_content, n, n)
          /\ already_received_content' = already_received_content + n
          /\ multi_status' = "receiving_file"
          /\ stream' = out
      BY <2>3, <2>5 DEF NextBytes
    <3>2. n <= n /\ already_received_content + n <= req.fileSize
      BY <2>5, <1>1, <1>2
    <3>3. DiskOutcome(out) /\ foreign' = foreign
      BY <3>1, <3>2, <1>1, <1>2, WriteOwn
    <3> QED BY <3>1, <3>3, <2>1, <2>2, <2>5, <1>1, <1>2, <1>3 DEF BodyOutcome
  <2> QED BY <2>4, <2>5
<1> QED BY <1>4, <1>5 DEF parse_buffer

(***************************************************************************)
(* IInv holds initially and is preserved by every action.                  *)
(***************************************************************************)

LEMMA InitInv == Init => IInv
<1> SUFFICES ASSUME Init PROVE IInv
  OBVIOUS
<1>1. req \in Requests /\ LinesWithin(0, 0) \subseteq {}
  <2>1. req \in Requests
    BY DEF Init
  <2>2. ASSUME NEW name \in LinesWithin(0, 0) PROVE FALSE
    <3>1. PICK l \in req.lines : 0 <= l.from /\ l.to <= 0
      BY <2>2 DEF LinesWithin
    <3>2. l.from \in Nat /\ l.to \in Nat /\ l.from < l.to
      BY <2>1, LineFacts
    <3> QED BY <3>1, <3>2
  <2> QED BY <2>1, <2>2
<1>2. TypeOK
  <2>1. 0 \in 0..TotalLen /\ 0 \in 0..DeclaredSize
    BY <1>1, RequestFacts
  <2> QED BY <1>1, <2>1 DEF Init, TypeOK
<1>3. ConnInv /\ SessionInv
  BY DEF Init, ConnInv, SessionInv, SuccessOnlyIfComplete
<1>4. CounterInv
  BY <1>1, RequestFacts DEF Init, CounterInv, BytesAccounted, CountsEveryByte,
     ForeignOnlyFromFirstBuffer
<1>5. SplitInv
  <2>1. \A l \in req.lines : ~CutBy(l, 0)
    BY <1>1, LineFacts DEF CutBy
  <2> QED BY <1>1, <2>1 DEF Init, SplitInv, DroppedOnlyForCause
<1> QED BY <1>2, <1>3, <1>4, <1>5 DEF IInv

\* What recv() itself changes, and the parts of SplitInv it decides.
LEMMA RecvFacts ==
    ASSUME IInv, NEW n \in 1..BufSize, Recv(n)
    PROVE  /\ req' = req /\ req \in Requests
           /\ received \in Nat /\ received' = received + n /\ n \in Nat /\ 0 < n
           /\ received' \in 0..TotalLen /\ TotalLen' = TotalLen
           /\ DeclaredSize' = DeclaredSize
           /\ split' \in BOOLEAN /\ (split => split')
           /\ conn = "open" /\ ~split' =>
                \A l \in req.lines : l.name \in Required => ~CutBy(l, received')
<1>1. /\ req' = req /\ req \in Requests
      /\ received \in Nat /\ received' = received + n /\ n \in Nat /\ 0 < n
      /\ received + n <= TotalLen /\ split \in BOOLEAN
  BY RequestFacts DEF Recv, IInv, TypeOK
<1>2. received' \in 0..TotalLen /\ TotalLen' = TotalLen /\ DeclaredSize' = DeclaredSize
  BY <1>1, RequestFacts DEF TotalLen, DeclaredSize
<1>3. split' = (split \/ \E l \in req.lines : l.name \in Required /\ CutBy(l, received + n))
  BY DEF Recv
<1>4. split' \in BOOLEAN /\ (split => split')
  BY <1>1, <1>3, Zenon
<1>5. ASSUME ~split', NEW l \in req.lines, l.name \in Required
      PROVE  ~CutBy(l, received')
  <2>1. ~CutBy(l, received + n)
    BY <1>3, <1>5, Zenon
  <2> QED BY <2>1, <1>1
<1> QED BY <1>1, <1>2, <1>4, <1>5

\* A refusal: no byte of the chunk is parsed.
LEMMA RefuseInv ==
    ASSUME IInv, conn = "open", NEW n \in 1..BufSize, Recv(n),
           headers' = HeadersAfter(n), RefuseAndClose,
           is_finished_processing_header' \in BOOLEAN,
           is_finished_processing_header' => relevant_info_headers_received(headers'),
           ~is_finished_processing_header
    PROVE  IInv'
<1> USE RecvFacts
<1>1. headers \subseteq headers' /\ headers' \subseteq HeaderNames
  BY ChunkPassType DEF IInv, TypeOK
<1>2. TypeOK'
  BY <1>1 DEF RefuseAndClose, IInv, TypeOK, disk
<1>3. stream = "unopened" /\ written + foreign = 0
  BY DEF IInv, SessionInv
<1>4. ConnInv' /\ SessionInv'
  BY <1>1, <1>3 DEF RefuseAndClose, ConnInv, SessionInv, IInv, SuccessOnlyIfComplete, disk
<1>5. foreign = 0
  BY <1>3 DEF IInv, TypeOK
<1>6. CounterInv'
  BY <1>1, <1>5, RequestFacts DEF RefuseAndClose, CounterInv, IInv, BytesAccounted, disk,
     CountsEveryByte, ForeignOnlyFromFirstBuffer, TypeOK
<1>7. SplitInv'
  BY DEF RefuseAndClose, SplitInv, IInv, DroppedOnlyForCause, HasRequired, disk
<1> QED BY <1>2, <1>4, <1>6, <1>7 DEF IInv

\* A parsed chunk.  The session is valid, or nothing has been opened; if no
\* required line was cut the file is open by the time its first byte comes.
LEMMA ParsedInv ==
    ASSUME IInv, conn = "open", NEW n \in 1..BufSize, Recv(n),
           NEW out \in {"unopened", "open", "failed"},
           parse_buffer(n, HeadersAfter(n), out), ReplyIfComplete,
           is_finished_processing_header' \in BOOLEAN,
           is_finished_processing_header' <=> relevant_info_headers_received(HeadersAfter(n)),
           is_finished_processing_header => is_finished_processing_header',
           session_status' \in {"Not_Received_yet", "Valid_session"},
           session_status' = "Valid_session" <=> is_finished_processing_header',
           is_finished_processing_header' <=> out # "unopened",
           is_finished_processing_header => out = stream
    PROVE  IInv'
<1> USE RecvFacts
<1>1. /\ HeadersAfter(n) \subseteq headers' /\ headers' \subseteq HeaderNames
      /\ all_header_received' \in BOOLEAN
      /\ DiskOutcome(out)
      /\ (HeaderOutcome /\ stream' = out) \/ BodyOutcome(out)
  BY ParseStep
<1>2. /\ stream' \in {"unopened", "open", "failed", "closed"}
      /\ multi_status' # "finished_receiving_file" => stream' = out
      /\ stream' = "unopened" <=> out = "unopened"
      /\ stream' = "failed" <=> out = "failed"
  BY <1>1 DEF BodyOutcome, Close, HeaderOutcome
<1>3. /\ multi_status' \in {"receiving_header", "receiving_file", "finished_receiving_file"}
      /\ already_received_content' \in 0..DeclaredSize
  BY <1>1, RequestFacts DEF BodyOutcome, HeaderOutcome, DiskOutcome
<1>4. /\ conn' = IF multi_status' = "finished_receiving_file" THEN "finishing" ELSE "open"
      /\ reply' = IF multi_status' = "finished_receiving_file" THEN "OK" ELSE "none"
      /\ file_status' = "Pending"
  BY DEF ReplyIfComplete, IInv, ConnInv
<1>5. TypeOK'
  BY <1>1, <1>2, <1>3, <1>4 DEF TypeOK, DiskOutcome
<1>6. ConnInv'
  BY <1>3, <1>4 DEF ConnInv, SuccessOnlyIfComplete
<1>7. written + foreign = 0 \/ is_finished_processing_header
  BY DEF IInv, SessionInv
<1>8. SessionInv'
  <2>1. stream' = "unopened" => written' + foreign' = 0
    BY <1>1, <1>2, <1>7 DEF DiskOutcome
  <2> QED BY <2>1, <1>1, <1>2, <1>4 DEF SessionInv, relevant_info_headers_received
<1>9. foreign = 0
  BY DEF IInv, CounterInv, ForeignOnlyFromFirstBuffer, ConnInv, TypeOK
<1>10. CounterInv'
  <2>1. BytesAccounted'
    BY <1>1 DEF DiskOutcome, BytesAccounted
  <2>2. CASE HeaderOutcome
    BY <2>1, <2>2, <1>1, <1>9 DEF HeaderOutcome, CounterInv, CountsEveryByte,
       ForeignOnlyFromFirstBuffer, disk
  <2>3. CASE BodyOutcome(out)
    BY <2>1, <2>3, <1>9 DEF BodyOutcome, CounterInv, CountsEveryByte,
       ForeignOnlyFromFirstBuffer, FileBytesIn
  <2> QED BY <2>2, <2>3, <1>1
<1>11. SplitInv'
  <2>1. HasRequired' = HasRequired
    BY DEF HasRequired
  <2>2. ASSUME ~split', HasRequired, multi_status' # "receiving_header"
        PROVE  is_finished_processing_header'
    <3>1. req.bodyStart <= received'
      BY <2>2, <1>1 DEF HeaderOutcome, BodyOutcome
    <3>2. CASE multi_status = "receiving_header"
      BY <2>2, <3>1, <3>2, ChunkPassComplete
    <3>3. CASE multi_status = "receiving_file"
      BY <2>2, <3>3 DEF IInv, SplitInv
    <3> QED BY <3>2, <3>3 DEF IInv, TypeOK, ConnInv
  <2>3. DroppedOnlyForCause'
    <3>1. CASE dropped' = dropped
      <4>1. dropped > 0 => stream' = "failed" \/ split' \/ ~HasRequired
        BY <1>2 DEF IInv, SplitInv, DroppedOnlyForCause, SessionInv
      <4> QED BY <3>1, <4>1, <2>1 DEF DroppedOnlyForCause
    <3>2. CASE dropped' # dropped
      <4>1. out # "open" /\ multi_status' # "receiving_header"
        BY <3>2, <1>1 DEF DiskOutcome, HeaderOutcome, BodyOutcome, disk
      <4> QED BY <4>1, <2>1, <2>2, <1>2 DEF DroppedOnlyForCause
    <3> QED BY <3>1, <3>2
  <2>4. multi_status' = "receiving_header" => (LinesWithin(0, received) \subseteq headers)'
    BY <1>1 DEF HeaderOutcome, BodyOutcome, LinesWithin
  <2> QED BY <2>1, <2>2, <2>3, <2>4, <1>4 DEF SplitInv
<1> QED BY <1>5, <1>6, <1>8, <1>10, <1>11 DEF IInv

\* finish_receiving touches only the stream and the record: Success is
\* written only for a counter equal to the size known so far.
LEMMA FinishInv ==
    ASSUME IInv, conn # "closed", finish_receiving, conn' = "closed",
           UNCHANGED <<req, received, parser, is_finished_processing_header,
                       session_status, reply, disk, split>>
    PROVE  IInv'
<1> USE DEF parser, disk
<1>1. stream' \in {"unopened", "failed", "closed"} /\ (stream' = "closed" => stream # "unopened")
      /\ (stream' = "unopened" <=> stream = "unopened") /\ (stream' = "failed" <=> stream = "failed")
  BY DEF finish_receiving, Close, IInv, TypeOK
<1>2. file_status' \in {"Pending", "Success", "Failed"}
  BY DEF finish_receiving, IInv, TypeOK
<1>3. TypeOK'
  BY <1>1, <1>2 DEF IInv, TypeOK, TotalLen, DeclaredSize
<1>4. ConnInv'
  <2>1. reply # "FAIL"
    BY DEF IInv, ConnInv
  <2>2. file_status = "Pending"
    BY DEF IInv, ConnInv, TypeOK
  <2>3. multi_status = "finished_receiving_file" =>
          already_received_content = ContentLength(headers)
    BY DEF IInv, CounterInv, ContentLength
  <2>4. CASE "File-OBJID" \notin headers
    BY <2>1, <2>2, <2>4 DEF finish_receiving, ConnInv, IInv, SuccessOnlyIfComplete
  <2>5. CASE "File-OBJID" \in headers /\ already_received_content = ContentLength(headers)
    <3>1. multi_status = "finished_receiving_file" \/ ContentLength(headers) = 0
      <4>1. CASE multi_status = "receiving_header"
        BY <2>5, <4>1 DEF IInv, CounterInv
      <4>2. CASE multi_status = "receiving_file"
        <5>1. already_received_content < DeclaredSize /\ ContentLength(headers) = DeclaredSize
          BY <4>2 DEF IInv, CounterInv, ContentLength
        <5> QED BY <2>5, <5>1, RequestFacts DEF IInv, TypeOK
      <4> QED BY <4>1, <4>2 DEF IInv, TypeOK
    <3>2. ContentLength(headers)' = ContentLength(headers)
      BY DEF ContentLength, DeclaredSize
    <3>3. file_status' = "Success"
      BY <2>5 DEF finish_receiving
    <3> QED BY <2>1, <3>1, <3>2, <3>3 DEF ConnInv, IInv, SuccessOnlyIfComplete
  <2>6. CASE "File-OBJID" \in headers /\ already_received_content # ContentLength(headers)
    BY <2>1, <2>3, <2>6 DEF finish_receiving, ConnInv, IInv, SuccessOnlyIfComplete
  <2> QED BY <2>4, <2>5, <2>6
<1>5. SessionInv'
  BY <1>1 DEF SessionInv, IInv
<1>6. CounterInv'
  BY DEF CounterInv, IInv, BytesAccounted, CountsEveryByte, ForeignOnlyFromFirstBuffer,
     FileBytesIn, DeclaredSize
<1>7. SplitInv'
  BY <1>1 DEF SplitInv, IInv, DroppedOnlyForCause, HasRequired
<1> QED BY <1>3, <1>4, <1>5, <1>6, <1>7 DEF IInv

\* Every step of the connection preserves the invariant.
LEMMA NextInv == IInv /\ [Next]_vars => IInv'
<1> SUFFICES ASSUME IInv, [Next]_vars PROVE IInv'
  OBVIOUS
<1>1. ASSUME NEW n \in 1..BufSize, RecvIncompleteHeader(n) PROVE IInv'
  <2>1. /\ conn = "open" /\ Recv(n) /\ headers' = HeadersAfter(n) /\ RefuseAndClose
        /\ is_finished_processing_header' = is_finished_processing_header
        /\ ~relevant_info_headers_received(headers')
    BY <1>1 DEF RecvIncompleteHeader, Recv
  <2>2. ~is_finished_processing_header /\ is_finished_processing_header \in BOOLEAN
    BY <2>1 DEF IInv, TypeOK, SessionInv, relevant_info_headers_received, HeadersAfter
  <2> QED BY <2>1, <2>2, RefuseInv
<1>2. ASSUME NEW n \in 1..BufSize, RecvUnknownRequest(n) PROVE IInv'
  BY <1>2, RefuseInv DEF RecvUnknownRequest, Recv
<1>3. ASSUME NEW n \in 1..BufSize, NEW opened \in {"open", "failed"},
             RecvStartsFile(n, opened)
      PROVE  IInv'
  BY <1>3, ParsedInv DEF RecvStartsFile, Recv
<1>4. ASSUME NEW n \in 1..BufSize, RecvMore(n) PROVE IInv'
  <2>1. /\ conn = "open" /\ Recv(n) /\ parse_buffer(n, HeadersAfter(n), stream)
        /\ ReplyIfComplete
        /\ is_finished_processing_header' = is_finished_processing_header
        /\ session_status' = session_status
        /\ \/ relevant_info_headers_received(HeadersAfter(n)) /\ is_finished_processing_header
           \/ ~relevant_info_headers_received(HeadersAfter(n))
    BY <1>4 DEF RecvMore, Recv
  <2>2. is_finished_processing_header <=> relevant_info_headers_received(HeadersAfter(n))
    BY <2>1 DEF IInv, SessionInv, relevant_info_headers_received, HeadersAfter
  <2>3. /\ is_finished_processing_header \in BOOLEAN
        /\ session_status \in {"Not_Received_yet", "Valid_session"}
        /\ session_status = "Valid_session" <=> is_finished_processing_header
        /\ stream \in {"unopened", "open", "failed"}
        /\ is_finished_processing_header <=> stream # "unopened"
    BY <2>1 DEF IInv, TypeOK, SessionInv, ConnInv
  <2> QED BY <2>1, <2>2, <2>3, ParsedInv
<1>5. CASE FinishComplete
  BY <1>5, FinishInv DEF FinishComplete
<1>6. CASE Disconnect
  <2>1. CASE "Operation-Type" \in headers
    BY <1>6, <2>1, FinishInv DEF Disconnect
  <2>2. CASE "Operation-Type" \notin headers
    <3>1. /\ conn = "open" /\ conn' = "closed"
          /\ UNCHANGED <<stream, file_status>>
          /\ UNCHANGED <<req, received, parser, is_finished_processing_header,
                         session_status, reply, disk, split>>
      BY <1>6, <2>2 DEF Disconnect
    <3> USE DEF parser, disk
    <3>2. TypeOK'
      BY <3>1 DEF IInv, TypeOK, TotalLen, DeclaredSize
    <3>3. ConnInv' /\ SessionInv'
      BY <3>1 DEF IInv, ConnInv, SessionInv, SuccessOnlyIfComplete
    <3>4. CounterInv'
      BY <3>1 DEF CounterInv, IInv, BytesAccounted, CountsEveryByte,
         ForeignOnlyFromFirstBuffer, FileBytesIn, DeclaredSize
    <3>5. SplitInv'
      BY <3>1 DEF SplitInv, IInv, DroppedOnlyForCause, HasRequired
    <3> QED BY <3>2, <3>3, <3>4, <3>5 DEF IInv
  <2> QED BY <2>1, <2>2
<1>7. CASE UNCHANGED vars
  <2> USE DEF vars, parser, socket, disk
  <2>1. TypeOK'
    BY <1>7 DEF IInv, TypeOK, TotalLen, DeclaredSize
  <2>2. ConnInv' /\ SessionInv'
    BY <1>7 DEF IInv, ConnInv, SessionInv, SuccessOnlyIfComplete, ContentLength, DeclaredSize
  <2>3. CounterInv'
    BY <1>7 DEF CounterInv, IInv, BytesAccounted, CountsEveryByte,
       ForeignOnlyFromFirstBuffer, FileBytesIn, DeclaredSize
  <2>4. SplitInv'
    BY <1>7 DEF SplitInv, IInv, DroppedOnlyForCause, HasRequired, LinesWithin
  <2> QED BY <2>1, <2>2, <2>3, <2>4 DEF IInv
<1> QED BY <1>1, <1>2, <1>3, <1>4, <1>5, <1>6, <1>7 DEF Next

(***************************************************************************)
(* The theorems.                                                           *)
(***************************************************************************)

\* The inductive invariant holds in every reachable state.
THEOREM UploadInvariant == Spec => []IInv
<1> QED BY InitInv, NextInv, PTL DEF Spec

\* Type correctness: in particular the parser never counts more than the
\* declared size, whatever the chunks.
THEOREM TypeCorrect == Spec => []TypeOK
<1>1. IInv => TypeOK
  BY DEF IInv
<1> QED BY <1>1, UploadInvariant, PTL

\* No byte of the body is counted twice or skipped by parse_buffer.
THEOREM BytesCounted == Spec => []CountsEveryByte
<1>1. IInv => CountsEveryByte
  BY DEF IInv, CounterInv
<1> QED BY <1>1, UploadInvariant, PTL

\* Every counted byte went to the disk or to a stream that is not open.
THEOREM BytesAreAccounted == Spec => []BytesAccounted
<1>1. IInv => BytesAccounted
  BY DEF IInv, CounterInv
<1> QED BY <1>1, UploadInvariant, PTL

\* Bytes that are not the file's get to the disk only through the test that
\* takes the first buffer for the last, and there are at most two per line.
THEOREM ForeignBounded == Spec => []ForeignOnlyFromFirstBuffer
<1>1. IInv => ForeignOnlyFromFirstBuffer
  BY DEF IInv, CounterInv
<1> QED BY <1>1, UploadInvariant, PTL

\* Bytes of the file are dropped only because a required header line was cut,
\* in its text or in the CRLF before it, or missing, or because of a failed
\* open().
THEOREM DropsExplained == Spec => []DroppedOnlyForCause
<1>1. IInv => DroppedOnlyForCause
  BY DEF IInv, SplitInv
<1> QED BY <1>1, UploadInvariant, PTL

\* Nothing is written for a request that the database did not know.
THEOREM WritesAuthorised == Spec => []WritesOnlyForValidRequest
<1>1. IInv => WritesOnlyForValidRequest
  BY DEF IInv, SessionInv, WritesOnlyForValidRequest, TypeOK
<1> QED BY <1>1, UploadInvariant, PTL

\* No client that has sent its whole request is left waiting.
THEOREM WholeRequestAnswered == Spec => []WholeRequestIsAnswered
<1>1. ASSUME IInv, received = TotalLen, conn = "open" PROVE FALSE
  <2>1. req \in Requests
    BY <1>1 DEF IInv, TypeOK
  <2>2. CASE multi_status = "receiving_header"
    BY <1>1, <2>1, <2>2, RequestFacts DEF IInv, CounterInv, TotalLen
  <2>3. CASE multi_status = "receiving_file"
    BY <1>1, <2>1, <2>3, RequestFacts
       DEF IInv, CounterInv, ConnInv, CountsEveryByte, FileBytesIn, TotalLen
  <2> QED BY <1>1, <2>2, <2>3 DEF IInv, TypeOK, ConnInv
<1>2. IInv => WholeRequestIsAnswered
  BY <1>1 DEF IInv, TypeOK, ConnInv, WholeRequestIsAnswered
<1> QED BY <1>2, UploadInvariant, PTL

\* An OK means that the disk holds the file, under the conditions OkMeansStored
\* names.
THEOREM OkIsStored == Spec => []OkMeansStored
<1>1. IInv => OkMeansStored
  <2> SUFFICES ASSUME IInv, reply = "OK", ~split, HasRequired, stream # "failed",
                      req.fileSize <= AtoiMax, req.fileSize <= FileBytesIn
               PROVE  written = req.fileSize /\ foreign = 0
    BY DEF OkMeansStored
  <2>1. req \in Requests /\ foreign \in Nat /\ dropped \in Nat /\ written \in Nat
    BY DEF IInv, TypeOK
  <2>2. DeclaredSize = req.fileSize
    BY <2>1, RequestFacts DEF DeclaredSize, Least
  <2>3. multi_status = "finished_receiving_file" /\ already_received_content = req.fileSize
    BY <2>2 DEF IInv, ConnInv, CounterInv
  <2>4. dropped = 0
    BY <2>1 DEF IInv, SplitInv, DroppedOnlyForCause
  <2>5. foreign = 0
    BY <2>1, <2>2, RequestFacts DEF IInv, CounterInv, ForeignOnlyFromFirstBuffer, FileBytesIn, TypeOK
  <2> QED BY <2>1, <2>3, <2>4, <2>5 DEF IInv, CounterInv, BytesAccounted
<1> QED BY <1>1, UploadInvariant, PTL

\* Success is never stored for an upload that was cut off after its size was
\* known.
THEOREM SuccessIsComplete == Spec => []SuccessOnlyIfComplete
<1>1. IInv => SuccessOnlyIfComplete
  BY DEF IInv, ConnInv
<1> QED BY <1>1, UploadInvariant, PTL

\* Every upload connection implements the abstract service: FinishComplete
\* writes Success because the parser's counter has reached the declared size.
THEOREM Refinement == Spec => ImplementsService
<1>1. Init => Service!Init
  BY DEF Init, Service!Init
<1>2. IInv /\ [Next]_vars => [Service!Next]_(Service!svars)
  <2> SUFFICES ASSUME IInv, [Next]_vars PROVE [Service!Next]_(Service!svars)
    OBVIOUS
  <2> USE DEF Service!Next, Service!svars
  <2>1. ASSUME NEW n \in 1..BufSize, RecvIncompleteHeader(n) \/ RecvUnknownRequest(n)
        PROVE  Service!Refuse
    BY <2>1 DEF RecvIncompleteHeader, RecvUnknownRequest, Recv, RefuseAndClose, Service!Refuse
  <2>2. ASSUME conn = "open", ReplyIfComplete
        PROVE  Service!Answer \/ UNCHANGED Service!svars
    BY <2>2 DEF ReplyIfComplete, Service!Answer
  <2>3. ASSUME NEW n \in 1..BufSize, NEW opened \in {"open", "failed"},
               RecvStartsFile(n, opened)
        PROVE  Service!Answer \/ UNCHANGED Service!svars
    BY <2>2, <2>3 DEF RecvStartsFile, Recv
  <2>4. ASSUME NEW n \in 1..BufSize, RecvMore(n)
        PROVE  Service!Answer \/ UNCHANGED Service!svars
    BY <2>2, <2>4 DEF RecvMore, Recv
  <2>5. ASSUME FinishComplete PROVE Service!Record
    <3>1. conn = "finishing" /\ conn' = "closed" /\ reply' = reply
      BY <2>5 DEF FinishComplete
    <3>2. already_received_content = ContentLength(headers)
      BY <3>1 DEF IInv, ConnInv, CounterInv, ContentLength
    <3>3. file_status' \in {file_status, "Success"}
      BY <2>5, <3>2 DEF FinishComplete, finish_receiving
    <3> QED BY <3>1, <3>3 DEF Service!Record
  <2>6. ASSUME Disconnect PROVE Service!Abort
    <3>1. conn = "open" /\ conn' = "closed" /\ reply' = reply
      BY <2>6 DEF Disconnect
    <3>2. file_status' \in {"Pending", "Success", "Failed"}
      BY <2>6 DEF Disconnect, finish_receiving, IInv, TypeOK
    <3> QED BY <3>1, <3>2 DEF Service!Abort
  <2>7. ASSUME UNCHANGED vars PROVE UNCHANGED Service!svars
    BY <2>7 DEF vars
  <2> QED BY <2>1, <2>3, <2>4, <2>5, <2>6, <2>7 DEF Next
<1> QED BY <1>1, <1>2, UploadInvariant, PTL DEF Spec, ImplementsService, Service!Spec

=============================================================================
