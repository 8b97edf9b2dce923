---------------------------- MODULE FileRequests ----------------------------
(***************************************************************************)
(* The life of a file request across the three places that know of it: the *)
(* handler of main_server.js, its record in files_table, and the transfer  *)
(* in the storage backend.  All requests here are one user's, for one file *)
(* name and path, so that they compete for the same record and the same    *)
(* file on the drive.                                                      *)
(*                                                                         *)
(* Any two database calls may be separated by steps of other requests, any *)
(* call may fail, clients may leave, and both servers may crash.  How the  *)
(* backend serves several connections is in SocketServer, how it takes an  *)
(* upload apart in MultipartUpload: here the header lines are all known, or *)
(* any of them may be missing when the browser leaves, the file arrives in *)
(* blocks, and of the causes OkMeansStored names there only the open()     *)
(* that fails is kept.                                                     *)
(***************************************************************************)
EXTENDS Naturals, Sequences

CONSTANTS
    Req,        \* requests
    Workloads,  \* what they may ask for: [operation_type, file_size]
    MaxBlocks,  \* largest file, in blocks
    MaxCrashes, \* bound on the crashes explored
    NoReq

Block    == 1..MaxBlocks
FileSize == 0..MaxBlocks

ASSUME FileRequestsAssumption ==
    /\ MaxBlocks \in Nat \ {0} /\ MaxCrashes \in Nat
    /\ NoReq \notin Req
    /\ Workloads \subseteq [operation_type : [Req -> {"Upload", "Download"}],
                            file_size : [Req -> FileSize]]

VARIABLES
    operation_type, file_size,  \* what each request asks for
    handler,        \* where main_server's handler of it is
    gone,           \* requests whose browser left, or whose web server died
    objid,          \* the record the handler got; 0 if none
    files_table,    \* the records, by object id
    backend,        \* where the backend's transfer is
    up,             \* the backend process is running
    received,       \* blocks of the upload that recv() has returned
    flushed,        \* those of them that left the stream's buffer
    stream,         \* the upload's stream: "unopened", "open" or "failed"
    file,           \* on the drive: who wrote each block
    reply,
    crashes

\* History.
VARIABLES
    last,       \* the last upload that truncated the file
    disturbed,  \* uploads that were open while another one was
    raced       \* two requests were between find and insert at once, or a find failed

web     == <<handler, gone, objid>>
storage == <<backend, up, received, flushed, stream, file, last, disturbed>>
vars    == <<operation_type, file_size, web, files_table, storage, reply, crashes, raced>>

TypeOK ==
    /\ operation_type \in [Req -> {"Upload", "Download"}]
    /\ file_size \in [Req -> FileSize]
    /\ handler \in [Req -> {"idle", "insert", "send", "piped", "unanswered", "ended"}]
    /\ gone \subseteq Req /\ disturbed \subseteq Req /\ last \in Req \cup {NoReq}
    /\ files_table \in Seq([operation_type : {"Upload", "Download"},
                            file_status : {"Pending", "Success", "Failed",
                                           "SUCCESS_DOWNLOAD", "FAIL_DOWNLOAD"}])
    /\ objid \in [Req -> 0..Len(files_table)]
    /\ backend \in [Req -> {"none", "connected", "receiving", "finishing", "sending",
                            "sent", "ignored", "closed", "dead"}]
    /\ up \in BOOLEAN /\ raced \in BOOLEAN
    /\ received \in [Req -> 0..MaxBlocks]
    /\ \A r \in Req : flushed[r] \in 0..received[r]
    /\ stream \in [Req -> {"unopened", "open", "failed"}]
    /\ file \in [Block -> Req \cup {NoReq}]
    /\ reply \in [Req -> {"none", "OK", "FAIL", "NOT FOUND", "ERROR"}]
    /\ crashes \in 0..MaxCrashes

Init ==
    /\ \E w \in Workloads : operation_type = w.operation_type /\ file_size = w.file_size
    /\ handler = [r \in Req |-> "idle"]
    /\ gone = {} /\ disturbed = {} /\ last = NoReq
    /\ files_table = <<>>
    /\ objid = [r \in Req |-> 0]
    /\ backend = [r \in Req |-> "none"]
    /\ up = TRUE /\ raced = FALSE
    /\ received = [r \in Req |-> 0] /\ flushed = [r \in Req |-> 0]
    /\ stream = [r \in Req |-> "unopened"]
    /\ file = [b \in Block |-> NoReq]
    /\ reply = [r \in Req |-> "none"]
    /\ crashes = 0

-----------------------------------------------------------------------------
(***************************************************************************)
(* The web server.                                                         *)
(***************************************************************************)

\* The records that r may take over.
PendingFor(r) ==
    {i \in DOMAIN files_table : /\ files_table[i].operation_type = operation_type[r]
                                /\ files_table[i].file_status = "Pending"}

\* The request goes on to insert a record: db_api_validate_if_file_already_exist
\* found none, or failed, which it reports the same way.
Missed(r, failed) ==
    /\ handler' = [handler EXCEPT ![r] = "insert"]
    /\ raced' = (raced \/ failed \/ \E q \in Req : /\ handler[q] = "insert"
                                                   /\ operation_type[q] = operation_type[r])
    /\ UNCHANGED objid

\* Mutation: the look-up is skipped.
FindRecordMutant(r) ==
    /\ handler[r] = "idle"
    /\ Missed(r, FALSE)
    /\ UNCHANGED <<operation_type, file_size, gone, files_table, storage, reply, crashes>>

\* A request whose session was found valid looks for a record to take over.
FindRecord(r) ==
    /\ handler[r] = "idle"
    /\ \/ \E i \in PendingFor(r) :
            /\ handler' = [handler EXCEPT ![r] = "send"]
            /\ objid' = [objid EXCEPT ![r] = i]
            /\ UNCHANGED raced
       \/ PendingFor(r) = {} /\ Missed(r, FALSE)
       \/ Missed(r, TRUE)
    /\ UNCHANGED <<operation_type, file_size, gone, files_table, storage, reply, crashes>>

\* db_api_add_to_files_table.
InsertRecord(r) ==
    /\ handler[r] = "insert"
    /\ files_table' = Append(files_table, [operation_type |-> operation_type[r],
                                           file_status |-> "Pending"])
    /\ objid' = [objid EXCEPT ![r] = Len(files_table')]
    /\ handler' = [handler EXCEPT ![r] = "send"]
    /\ UNCHANGED <<operation_type, file_size, gone, storage, reply, crashes, raced>>

\* The insert fails: an upload is dropped there and then, a download goes on
\* without an object id.
InsertFails(r) ==
    /\ handler[r] = "insert"
    /\ handler' = [handler EXCEPT ![r] =
            IF operation_type[r] = "Upload" THEN "unanswered" ELSE "send"]
    /\ UNCHANGED <<operation_type, file_size, gone, objid, files_table, storage, reply,
                   crashes, raced>>

\* Mutation: the error of a refused connection is not reported.
PipeMutant(r) ==
    /\ handler[r] = "send"
    /\ IF up
       THEN /\ backend' = [backend EXCEPT ![r] = "connected"]
            /\ handler' = [handler EXCEPT ![r] = "piped"]
       ELSE /\ handler' = [handler EXCEPT ![r] = "ended"]
            /\ UNCHANGED backend
    /\ UNCHANGED <<operation_type, file_size, gone, objid, files_table, up, received,
                   flushed, stream, file, last, disturbed, reply, crashes, raced>>

\* send_request_to_logic_layer connects to the backend, or answers 500.
Pipe(r) ==
    /\ handler[r] = "send"
    /\ IF up
       THEN /\ backend' = [backend EXCEPT ![r] = "connected"]
            /\ handler' = [handler EXCEPT ![r] = "piped"]
            /\ UNCHANGED reply
       ELSE /\ reply' = [reply EXCEPT ![r] = "ERROR"]
            /\ handler' = [handler EXCEPT ![r] = "ended"]
            /\ UNCHANGED backend
    /\ UNCHANGED <<operation_type, file_size, gone, objid, files_table, up, received,
                   flushed, stream, file, last, disturbed, crashes, raced>>

\* The pipe breaks: 500, unless the answer is already on its way.
PipeBreaks(r) ==
    /\ handler[r] = "piped" /\ backend[r] = "dead" /\ reply[r] = "none"
    /\ reply' = [reply EXCEPT ![r] = "ERROR"]
    /\ handler' = [handler EXCEPT ![r] = "ended"]
    /\ UNCHANGED <<operation_type, file_size, gone, objid, files_table, storage, crashes, raced>>

\* The browser leaves.  Before the pipe is there nothing looks at it, so that
\* leaving earlier is the same as leaving now.
Leave(r) ==
    /\ handler[r] = "piped" /\ reply[r] = "none"
    /\ gone' = gone \cup {r}
    /\ UNCHANGED <<operation_type, file_size, handler, objid, files_table, storage, reply,
                   crashes, raced>>

\* The web server dies and is started again: its handlers are gone, and with
\* them their clients and connections.
WebCrash ==
    /\ crashes < MaxCrashes
    /\ crashes' = crashes + 1
    /\ handler' = [r \in Req |-> IF handler[r] = "idle" THEN "idle" ELSE "ended"]
    /\ gone' = gone \cup {r \in Req : handler[r] # "idle" /\ reply[r] = "none"}
    /\ UNCHANGED <<operation_type, file_size, objid, files_table, storage, reply, raced>>

-----------------------------------------------------------------------------
(***************************************************************************)
(* The backend.  Its one process does nothing else between the answer to a *)
(* complete upload and the update of the record.                           *)
(***************************************************************************)

Running == up /\ \A r \in Req : backend[r] # "finishing"

SetStatus(r, status) ==
    IF objid[r] = 0 THEN UNCHANGED files_table
    ELSE files_table' = [files_table EXCEPT ![objid[r]].file_status = status]

\* The blocks of r up to n reach the drive.
Flush(r, n) ==
    /\ flushed' = [flushed EXCEPT ![r] = n]
    /\ file' = IF stream[r] # "open" THEN file
               ELSE [b \in Block |-> IF flushed[r] < b /\ b <= n THEN r ELSE file[b]]

\* The session was deleted since the web server looked.
RefuseTransfer(r) ==
    /\ Running /\ backend[r] = "connected"
    /\ operation_type[r] = "Upload" \/ objid[r] # 0
    /\ reply' = [reply EXCEPT ![r] = "FAIL"]
    /\ backend' = [backend EXCEPT ![r] = "closed"]
    /\ UNCHANGED <<operation_type, file_size, web, files_table, up, received, flushed, stream,
                   file, last, disturbed, crashes, raced>>

\* The upload's file is opened and truncated; a failure is not noticed.
OpenUpload(r) ==
    LET others == {q \in Req : backend[q] = "receiving"}
    IN  /\ Running /\ backend[r] = "connected" /\ operation_type[r] = "Upload"
        /\ backend' = [backend EXCEPT ![r] = "receiving"]
        /\ \/ /\ stream' = [stream EXCEPT ![r] = "open"]
              /\ file' = [b \in Block |-> NoReq]
              /\ last' = r
              /\ disturbed' = disturbed \cup others \cup (IF others = {} THEN {} ELSE {r})
           \/ /\ stream' = [stream EXCEPT ![r] = "failed"]
              /\ UNCHANGED <<file, last, disturbed>>
        /\ UNCHANGED <<operation_type, file_size, web, files_table, up, received, flushed,
                       reply, crashes, raced>>

\* Mutation: the last block completes the upload but is not flushed.
ReceiveMutant(r) ==
    /\ Running /\ backend[r] = "receiving"
    /\ received' = [received EXCEPT ![r] = @ + 1]
    /\ Flush(r, received[r])
    /\ IF received'[r] = file_size[r]
       THEN /\ reply' = [reply EXCEPT ![r] = "OK"]
            /\ backend' = [backend EXCEPT ![r] = "finishing"]
       ELSE UNCHANGED <<reply, backend>>
    /\ UNCHANGED <<operation_type, file_size, web, files_table, up, stream, last, disturbed,
                   crashes, raced>>

\* Mutation: the end of the file is noticed one block late.
ReceiveLateMutant(r) ==
    /\ Running /\ backend[r] = "receiving"
    /\ received' = [received EXCEPT ![r] = @ + 1]
    /\ IF received[r] = file_size[r]
       THEN /\ Flush(r, received'[r])
            /\ reply' = [reply EXCEPT ![r] = "OK"]
            /\ backend' = [backend EXCEPT ![r] = "finishing"]
       ELSE /\ \E n \in flushed[r]..received'[r] : Flush(r, n)
            /\ UNCHANGED <<reply, backend>>
    /\ UNCHANGED <<operation_type, file_size, web, files_table, up, stream, last, disturbed,
                   crashes, raced>>

\* A block arrives, or the header of an empty file ends, and the stream's buffer
\* is written as far as it likes; the end of the file closes the stream, which
\* writes all of it, and is answered.
Receive(r) ==
    /\ Running /\ backend[r] = "receiving"
    /\ received' = [received EXCEPT ![r] = IF file_size[r] = 0 THEN 0 ELSE @ + 1]
    /\ IF received'[r] = file_size[r]
       THEN /\ Flush(r, received'[r])
            /\ reply' = [reply EXCEPT ![r] = "OK"]
            /\ backend' = [backend EXCEPT ![r] = "finishing"]
       ELSE /\ \E n \in flushed[r]..received'[r] : Flush(r, n)
            /\ UNCHANGED <<reply, backend>>
    /\ UNCHANGED <<operation_type, file_size, web, files_table, up, stream, last, disturbed,
                   crashes, raced>>

\* Mutation: the update after the answer is missing.
FinishMutant(r) ==
    /\ up /\ backend[r] = "finishing"
    /\ backend' = [backend EXCEPT ![r] = "closed"]
    /\ UNCHANGED <<operation_type, file_size, web, files_table, up, received, flushed, stream,
                   file, last, disturbed, reply, crashes, raced>>

\* The update that follows the answer.
Finish(r) ==
    /\ up /\ backend[r] = "finishing"
    /\ SetStatus(r, "Success")
    /\ backend' = [backend EXCEPT ![r] = "closed"]
    /\ UNCHANGED <<operation_type, file_size, web, up, received, flushed, stream, file, last,
                   disturbed, reply, crashes, raced>>

\* What finish_receiving may write when the peer is gone.  It compares the bytes
\* counted with the size, and both are 0 before their lines are read.
EndStatus(r) ==
    {status \in {"Success", "Failed"} : /\ status = "Success" => received[r] = 0
                                        /\ status = "Failed"  => file_size[r] # 0}

\* Mutation: the bytes are not compared with the size.
HangUpMutant(r) ==
    /\ Running /\ backend[r] \in {"connected", "receiving"} /\ r \in gone
    /\ Flush(r, received[r])
    /\ IF backend[r] = "receiving" THEN SetStatus(r, "Success") ELSE UNCHANGED files_table
    /\ backend' = [backend EXCEPT ![r] = "closed"]
    /\ UNCHANGED <<operation_type, file_size, web, up, received, stream, last, disturbed,
                   reply, crashes, raced>>

\* recv() returns 0: the stream of an upload is closed and its record updated,
\* if the lines with its type and object id have been read.
HangUp(r) ==
    /\ Running /\ backend[r] \in {"connected", "receiving"} /\ r \in gone
    /\ Flush(r, received[r])
    /\ \/ operation_type[r] = "Upload" /\ \E status \in EndStatus(r) : SetStatus(r, status)
       \/ backend[r] = "connected" /\ UNCHANGED files_table
    /\ backend' = [backend EXCEPT ![r] = "closed"]
    /\ UNCHANGED <<operation_type, file_size, web, up, received, stream, last, disturbed,
                   reply, crashes, raced>>

\* A download with its values is given to a child, unless fork() fails, which
\* nothing looks at; one without an object id is neither served nor refused.
TakeDownload(r) ==
    /\ Running /\ backend[r] = "connected" /\ operation_type[r] = "Download"
    /\ \/ objid[r] # 0 /\ backend' = [backend EXCEPT ![r] = "sending"]
       \/ backend' = [backend EXCEPT ![r] = "ignored"]
    /\ UNCHANGED <<operation_type, file_size, web, files_table, up, received, flushed, stream,
                   file, last, disturbed, reply, crashes, raced>>

\* send_file_to_client in the child: no file, or the answer and the bytes.
SendFile(r) ==
    /\ backend[r] = "sending"
    /\ IF last = NoReq
       THEN /\ reply' = [reply EXCEPT ![r] = "NOT FOUND"]
            /\ backend' = [backend EXCEPT ![r] = "closed"]
       ELSE /\ reply' = [reply EXCEPT ![r] = "OK"]
            /\ backend' = [backend EXCEPT ![r] = "sent"]
    /\ UNCHANGED <<operation_type, file_size, web, files_table, up, received, flushed, stream,
                   file, last, disturbed, crashes, raced>>

\* ... and then the record.  send() to a client that left may fail.
FinishDownload(r) ==
    /\ backend[r] = "sent"
    /\ \/ SetStatus(r, "SUCCESS_DOWNLOAD")
       \/ r \in gone /\ SetStatus(r, "FAIL_DOWNLOAD")
    /\ backend' = [backend EXCEPT ![r] = "closed"]
    /\ UNCHANGED <<operation_type, file_size, web, up, received, flushed, stream, file, last,
                   disturbed, reply, crashes, raced>>

\* The backend dies: its connections and what its streams had buffered are
\* lost.  Children are processes of their own and go on.
BackendCrash ==
    /\ up /\ crashes < MaxCrashes
    /\ up' = FALSE
    /\ crashes' = crashes + 1
    /\ backend' = [r \in Req |->
            IF backend[r] \in {"connected", "receiving", "finishing", "ignored"}
            THEN "dead" ELSE backend[r]]
    /\ UNCHANGED <<operation_type, file_size, web, files_table, received, flushed, stream,
                   file, last, disturbed, reply, raced>>

\* The process monitor starts it again.
Restart ==
    /\ ~up /\ up' = TRUE
    /\ UNCHANGED <<operation_type, file_size, web, files_table, backend, received, flushed,
                   stream, file, last, disturbed, reply, crashes, raced>>

Handle(r) == InsertRecord(r) \/ InsertFails(r) \/ Pipe(r) \/ PipeBreaks(r)

Transfer(r) ==
    \/ RefuseTransfer(r) \/ OpenUpload(r) \/ Receive(r) \/ Finish(r) \/ HangUp(r)
    \/ TakeDownload(r) \/ SendFile(r) \/ FinishDownload(r)

Next ==
    \/ \E r \in Req : FindRecord(r) \/ Leave(r) \/ Handle(r) \/ Transfer(r)
    \/ WebCrash \/ BackendCrash \/ Restart

(***************************************************************************)
(* Database calls and processes make progress, and a browser that stays    *)
(* sends the file it was given.  Nothing crashes, leaves or starts by need.*)
(***************************************************************************)
Fairness ==
    /\ \A r \in Req : WF_vars(Handle(r)) /\ WF_vars(Transfer(r))
    /\ WF_vars(Restart)

Spec == Init /\ [][Next]_vars /\ Fairness

-----------------------------------------------------------------------------
(***************************************************************************)
(* Properties.                                                             *)
(***************************************************************************)

\* Requests are matched to Pending records across crashes, refusals and
\* failures without ever leaving two for one operation on the file, unless two
\* requests were between find and insert at once or a find failed.
OnePendingRecord ==
    raced \/ \A i, j \in DOMAIN files_table :
                /\ files_table[i].operation_type = files_table[j].operation_type
                /\ files_table[i].file_status = "Pending"
                /\ files_table[j].file_status = "Pending"
                => i = j

Sharing(r) == \E q \in Req \ {r} : objid[q] = objid[r]

\* An upload that was answered OK is on the drive, whole and alone, until the
\* next one opens the file; unless it could not open the file, or another one
\* was open at the same time.
OkUploadIsStored ==
    \A r \in Req :
        last = r /\ reply[r] = "OK" /\ r \notin disturbed =>
            file = [b \in Block |-> IF b <= file_size[r] THEN r ELSE NoReq]

\* A browser that left before a byte of its file arrived: 0 of 0 bytes.
LeftAtZero(r) == r \in gone /\ backend[r] = "closed" /\ received[r] = 0

\* The record of an upload tells its outcome: Success only if one that uses it
\* was answered OK or left before a byte arrived, Failed only if one was not
\* answered OK, and when only one uses it, OK and its update mean Success for good.
RecordTellsOutcome ==
    /\ \A i \in DOMAIN files_table :
        LET users == {r \in Req : objid[r] = i}
        IN  /\ files_table[i].file_status = "Success" =>
                \E r \in users : reply[r] = "OK" \/ LeftAtZero(r)
            /\ files_table[i].file_status = "Failed" => \E r \in users : reply[r] # "OK"
    /\ \A r \in Req :
        /\ operation_type[r] = "Upload" /\ reply[r] = "OK" /\ backend[r] = "closed"
        /\ ~Sharing(r)
        => files_table[objid[r]].file_status = "Success"

\* A record is still Pending after its transfer has ended only if the transfer
\* was refused, found no file, left before it began, or was ended by a crash.
PendingHasCause ==
    \A r \in Req :
        /\ backend[r] = "closed" /\ objid[r] # 0
        /\ files_table[objid[r]].file_status = "Pending"
        => \/ reply[r] \in {"FAIL", "NOT FOUND"}
           \/ reply[r] = "none" /\ received[r] = 0 /\ stream[r] = "unopened"

\* A request is answered, or its client leaves (as one does whose server dies),
\* or it is one of the two that an insert that failed leaves without an answer,
\* or a download for which there is no child.
EveryRequestEnds ==
    \A r \in Req :
        (handler[r] # "idle") ~> \/ reply[r] # "none" \/ r \in gone
                                 \/ handler[r] = "unanswered" \/ backend[r] = "ignored"

=============================================================================
