---------------------------- MODULE SocketServer ----------------------------
(***************************************************************************)
(* The storage backend as a server of many connections: the select loop of *)
(* homeCloud_Main.cpp, the descriptor map Request_wrapper, the state kept  *)
(* per descriptor (Socket_data), the forked children, and the session      *)
(* table that the web server shares with it through MongoDB.               *)
(*                                                                         *)
(* One process runs the loop.  Between two of its database queries the web *)
(* server can delete a session; between any two steps clients and children *)
(* move.  A request is one chunk (its headers), an upload has a second one *)
(* (the file): MultipartUpload models what happens inside the chunks.      *)
(***************************************************************************)
EXTENDS Integers

CONSTANTS
    Conn,       \* client connections
    FD,         \* descriptor numbers the process may hold for clients
    Session,    \* sessions in the table at the start
    SessionOf,  \* the session each connection's request names
    Kinds,      \* the kinds of request explored
    NoConn, NoEntry

\* Requests one of whose lines recv() cut, so that the operation becomes known
\* without the other values, or after the chunk that had them.  MultipartUpload
\* has the cuts of uploads; a request that is cut and of an unknown operation
\* besides is left out.
CutKinds == {"CutDownload", "CutRename", "CutDelete"}

\* The browser names the operation of an upload, and nothing checks it: a
\* deletion and a "NotExist", any other name, get here that way.
AllKinds == {"Upload", "Download", "DownloadShared", "Rename File", "Delete File",
             "NotExist"} \cup CutKinds

ASSUME ServerAssumption ==
    /\ FD \subseteq Nat
    /\ SessionOf \in [Conn -> Session]
    /\ Kinds \subseteq AllKinds
    /\ NoConn \notin Conn

VARIABLES
    kind,           \* what each connection asks for
    sent, read,     \* chunks sent by the client, and returned by recv()
    backlog,        \* connections accept() has not returned yet
    gone,           \* connections whose client has closed its side
    sessions,       \* sessions_table
    fdConn,         \* the process's descriptor table
    master,         \* descriptors select() watches
    socket_hashmap, \* Request_wrapper
    at,             \* where the loop is: "select", "user" or "finish"
    cur,            \* the descriptor it handles there
    child,          \* the forked child of a connection; "failed": fork() was -1
    reply,          \* what the client was answered
    file_status     \* of the connection's record in files_table

\* History: the connections whose own session was found in the table.
VARIABLE validated

clients == <<kind, sent, read, backlog, gone>>
loop    == <<fdConn, master, socket_hashmap, at, cur>>
vars    == <<clients, sessions, loop, child, reply, file_status, validated>>

operation_type == {"unknown", "Upload", "Download", "DownloadShared", "Rename File",
                   "Delete File", "NotExist"}

\* What the loop keeps of a Socket_data: rec is the connection whose header
\* values (name, session, object id) the parser holds.
Socket_data ==
    [op : operation_type,
     session_status : {"Not_Received_yet", "Valid_session", "Not_Valid_session"},
     is_finished_processing_header : BOOLEAN,
     finished : BOOLEAN,
     rec : Conn \cup {NoConn}]

ASSUME NoEntryAssumption == NoEntry \notin Socket_data

NewSocketData ==
    [op |-> "unknown", session_status |-> "Not_Received_yet",
     is_finished_processing_header |-> FALSE, finished |-> FALSE, rec |-> NoConn]

Chunks(c) == IF kind[c] = "Upload" THEN 2 ELSE 1

OpOf(c) ==
    CASE kind[c] = "CutDownload" -> "Download"
      [] kind[c] = "CutRename"   -> "Rename File"
      [] kind[c] = "CutDelete"   -> "Delete File"
      [] OTHER                   -> kind[c]

TypeOK ==
    /\ kind \in [Conn -> Kinds]
    /\ sent \in [Conn -> 0..2] /\ read \in [Conn -> 0..2]
    /\ \A c \in Conn : read[c] <= sent[c] /\ sent[c] <= Chunks(c)
    /\ backlog \subseteq Conn /\ gone \subseteq Conn /\ validated \subseteq Conn
    /\ sessions \subseteq Session
    /\ fdConn \in [FD -> Conn \cup {NoConn}]
    /\ master \subseteq FD
    /\ socket_hashmap \in [FD -> Socket_data \cup {NoEntry}]
    /\ at \in {"select", "user", "finish"}
    /\ cur \in FD
    /\ child \in [Conn -> {"none", "running", "done", "failed"}]
    /\ reply \in [Conn -> {"none", "OK", "FAIL", "NOT FOUND"}]
    /\ file_status \in [Conn -> {"Pending", "Success", "Failed"}]

Init ==
    /\ kind \in [Conn -> Kinds]
    /\ sent = [c \in Conn |-> 0] /\ read = [c \in Conn |-> 0]
    /\ backlog = {} /\ gone = {} /\ validated = {}
    /\ sessions = Session
    /\ fdConn = [fd \in FD |-> NoConn]
    /\ master = {}
    /\ socket_hashmap = [fd \in FD |-> NoEntry]
    /\ at = "select"
    /\ cur \in FD /\ \A fd \in FD : cur <= fd
    /\ child = [c \in Conn |-> "none"]
    /\ reply = [c \in Conn |-> "none"]
    /\ file_status = [c \in Conn |-> "Pending"]

-----------------------------------------------------------------------------
(***************************************************************************)
(* Clients (the web server's side of each connection) and the session      *)
(* table.                                                                  *)
(***************************************************************************)

\* The web server connects and sends the headers.
Connect(c) ==
    /\ sent[c] = 0
    /\ sent' = [sent EXCEPT ![c] = 1]
    /\ backlog' = backlog \cup {c}
    /\ UNCHANGED <<kind, read, gone, sessions, loop, child, reply, file_status, validated>>

\* The browser's file follows.
SendFile(c) ==
    /\ sent[c] = 1 /\ Chunks(c) = 2 /\ c \notin gone
    /\ sent' = [sent EXCEPT ![c] = 2]
    /\ UNCHANGED <<kind, read, backlog, gone, sessions, loop, child, reply, file_status, validated>>

\* The client closes, at any point after it connected.
Leave(c) ==
    /\ sent[c] > 0 /\ c \notin gone
    /\ gone' = gone \cup {c}
    /\ UNCHANGED <<kind, sent, read, backlog, sessions, loop, child, reply, file_status, validated>>

\* A user logs out: the web server deletes the session.
Logout(s) ==
    /\ s \in sessions
    /\ sessions' = sessions \ {s}
    /\ UNCHANGED <<clients, loop, child, reply, file_status, validated>>

-----------------------------------------------------------------------------
(***************************************************************************)
(* The loop.                                                               *)
(***************************************************************************)

\* accept() returns the lowest free descriptor; queue_socket_opaque makes an
\* entry for it unless the map already has one.
Accept(c) ==
    /\ at = "select" /\ c \in backlog
    /\ \E fd \in FD :
        /\ fdConn[fd] = NoConn /\ \A f \in FD : fdConn[f] = NoConn => fd <= f
        /\ fdConn' = [fdConn EXCEPT ![fd] = c]
        /\ master' = master \cup {fd}
        /\ socket_hashmap' = [socket_hashmap EXCEPT
                ![fd] = IF @ = NoEntry THEN NewSocketData ELSE @]
    /\ backlog' = backlog \ {c}
    /\ UNCHANGED <<kind, sent, read, gone, sessions, at, cur, child, reply, file_status, validated>>

\* Mutation: select()'s readiness is not looked at.
RecvMutant(fd) ==
    /\ at = "select" /\ fd \in master
    /\ read[fdConn[fd]] < 2
    /\ read' = [read EXCEPT ![fdConn[fd]] = @ + 1]
    /\ UNCHANGED <<kind, sent, backlog, gone, sessions>>

\* recv() on fd returns the next chunk of its connection.
Recv(fd) ==
    /\ at = "select" /\ fd \in master
    /\ read[fdConn[fd]] < sent[fdConn[fd]]
    /\ read' = [read EXCEPT ![fdConn[fd]] = @ + 1]
    /\ UNCHANGED <<kind, sent, backlog, gone, sessions>>

\* Mutation: FD_CLR is missing.
CloseFdMutant(fd) ==
    /\ fdConn' = [fdConn EXCEPT ![fd] = NoConn]
    /\ UNCHANGED master

CloseFd(fd) ==
    /\ fdConn' = [fdConn EXCEPT ![fd] = NoConn]
    /\ master' = master \ {fd}

IsRefused(entry) ==
    /\ entry.op # "DownloadShared"
    /\ entry.session_status = "Not_Valid_session" \/ entry.op = "NotExist"

\* The branch for a session that is not valid or an unknown operation: FAIL and
\* close.  The entry stays in the map: dequeue_socket_opaque is commented out.
Refuse(fd, entry) ==
    /\ IsRefused(entry)
    /\ reply' = [reply EXCEPT ![fdConn[fd]] = "FAIL"]
    /\ CloseFd(fd)
    /\ socket_hashmap' = [socket_hashmap EXCEPT ![fd] = entry]
    /\ UNCHANGED child

IsForked(entry) ==
    \/ entry.op = "DownloadShared"
    \/ entry.op \in {"Download", "Rename File"} /\ entry.session_status = "Valid_session"

\* Mutations: the parent goes on watching the descriptor; a shared download
\* waits for a session.
ForkMutant(fd, entry) ==
    /\ IsForked(entry)
    /\ \E pid \in {"running", "failed"} : child' = [child EXCEPT ![fdConn[fd]] = pid]
    /\ socket_hashmap' = [socket_hashmap EXCEPT ![fd] = entry]
    /\ UNCHANGED <<fdConn, master, reply>>


\* The branches that fork: the parent stops watching the descriptor, keeps it
\* open and keeps its entry.  It takes the -1 of a fork() that failed for a
\* child's pid.
Fork(fd, entry) ==
    /\ IsForked(entry)
    /\ \E pid \in {"running", "failed"} : child' = [child EXCEPT ![fdConn[fd]] = pid]
    /\ master' = master \ {fd}
    /\ socket_hashmap' = [socket_hashmap EXCEPT ![fd] = entry]
    /\ UNCHANGED <<fdConn, reply>>

\* The branch for a complete file: answer and close; finish_receiving is next.
Complete(fd, entry) ==
    /\ ~IsRefused(entry) /\ ~IsForked(entry) /\ entry.finished
    /\ reply' = [reply EXCEPT ![fdConn[fd]] = "OK"]
    /\ CloseFd(fd)
    /\ socket_hashmap' = [socket_hashmap EXCEPT ![fd] = entry]
    /\ UNCHANGED child

\* None of them: wait for the next chunk.  For a deletion none will come.
Wait(fd, entry) ==
    /\ ~IsRefused(entry) /\ ~IsForked(entry) /\ ~entry.finished
    /\ socket_hashmap' = [socket_hashmap EXCEPT ![fd] = entry]
    /\ UNCHANGED <<fdConn, master, reply, child>>

AfterChunk(fd, entry) ==
    /\ \/ Refuse(fd, entry) /\ at' = "select"
       \/ Fork(fd, entry) /\ at' = "select"
       \/ Complete(fd, entry) /\ at' = "finish"
       \/ Wait(fd, entry) /\ at' = "select"
    /\ cur' = fd

\* add_data_chunk on a fresh entry: every required header is in the chunk, and
\* validate_session_id looks its session up.
RecvHeaders(fd) ==
    LET c == fdConn[fd]
        entry == [socket_hashmap[fd] EXCEPT !.op = OpOf(c), !.rec = c,
                     !.is_finished_processing_header = TRUE]
    IN  /\ Recv(fd)
        /\ socket_hashmap[fd].op = "unknown"
        /\ kind[c] \notin CutKinds \cup {"DownloadShared"}
        /\ IF SessionOf[c] \in sessions
           THEN /\ at' = "user" /\ cur' = fd
                /\ socket_hashmap' = [socket_hashmap EXCEPT ![fd] = entry]
                /\ validated' = validated \cup {c}
                /\ UNCHANGED <<fdConn, master, child, reply>>
           ELSE /\ AfterChunk(fd, [entry EXCEPT !.session_status = "Not_Valid_session"])
                /\ UNCHANGED validated
        /\ UNCHANGED file_status

\* ... get_user_of_session is a second query.  It returns "" for a session
\* deleted since, and is_valid_filerequest finds no upload of that user.
LookUpUser ==
    LET entry == socket_hashmap[cur]
    IN  /\ at = "user"
        /\ AfterChunk(cur, [entry EXCEPT !.session_status =
                IF entry.op = "Upload" /\ SessionOf[entry.rec] \notin sessions
                THEN "Not_Valid_session" ELSE "Valid_session"])
        /\ UNCHANGED <<clients, sessions, file_status, validated>>

\* A shared download needs no session; that of a cut request is never looked up.
RecvUnchecked(fd) ==
    LET c == fdConn[fd]
    IN  /\ Recv(fd)
        /\ socket_hashmap[fd].op = "unknown"
        /\ kind[c] \in CutKinds \cup {"DownloadShared"}
        /\ AfterChunk(fd, [socket_hashmap[fd] EXCEPT !.op = OpOf(c), !.rec = c])
        /\ UNCHANGED <<file_status, validated>>

\* A chunk for an entry whose headers were processed.  An upload's parser takes
\* the file, or, when the entry was left by another connection, whatever headers
\* the chunk has; for every other operation the chunk is ignored.
RecvMore(fd) ==
    LET c == fdConn[fd]
        entry == socket_hashmap[fd]
    IN  /\ Recv(fd)
        /\ entry.op # "unknown"
        /\ AfterChunk(fd,
             IF entry.op # "Upload" THEN entry
             ELSE IF entry.session_status = "Valid_session" THEN [entry EXCEPT !.finished = TRUE]
             ELSE [entry EXCEPT !.op = OpOf(c), !.rec = c])
        /\ UNCHANGED <<file_status, validated>>

\* Mutation: dequeue_socket_opaque is missing, as in the FAIL branch.
FinishUploadMutant ==
    /\ at = "finish"
    /\ file_status' = [file_status EXCEPT ![socket_hashmap[cur].rec] = "Success"]
    /\ at' = "select"
    /\ UNCHANGED <<clients, sessions, fdConn, master, socket_hashmap, cur, child, reply, validated>>

\* finish_receiving and dequeue_socket_opaque, after the answer and the close.
FinishUpload ==
    /\ at = "finish"
    /\ file_status' = [file_status EXCEPT ![socket_hashmap[cur].rec] = "Success"]
    /\ socket_hashmap' = [socket_hashmap EXCEPT ![cur] = NoEntry]
    /\ at' = "select"
    /\ UNCHANGED <<clients, sessions, fdConn, master, cur, child, reply, validated>>

\* finish_receiving of a connection that ends before its file was read: 0 bytes
\* are all bytes if the file is empty, or if its size was not read either.
StatusAtEnd(entry) == IF entry.finished THEN {"Success"} ELSE {"Success", "Failed"}

\* What follows a recv() that returns 0: an upload's record gets its final
\* status, the entry and the descriptor are released.  For a download the loop
\* does neither.
Release(fd) ==
    LET entry == socket_hashmap[fd]
    IN  /\ entry.op \notin {"Download", "DownloadShared"}
        /\ IF entry.op # "Upload" THEN UNCHANGED file_status
           ELSE \E status \in StatusAtEnd(entry) :
                    file_status' = [file_status EXCEPT ![entry.rec] = status]
        /\ CloseFd(fd)
        /\ socket_hashmap' = [socket_hashmap EXCEPT ![fd] = NoEntry]
        /\ UNCHANGED <<clients, sessions, at, cur, child, reply, validated>>

\* Mutation: a recv() that has nothing yet passes for the end.
HangUpMutant(fd) ==
    /\ at = "select" /\ fd \in master
    /\ read[fdConn[fd]] = sent[fdConn[fd]]
    /\ Release(fd)

HangUp(fd) ==
    /\ at = "select" /\ fd \in master
    /\ fdConn[fd] \in gone /\ read[fdConn[fd]] = sent[fdConn[fd]]
    /\ Release(fd)

\* A child answers, closes its copy of the descriptor and exits.  The parent's
\* copy is not touched.
ChildDone(c) ==
    /\ child[c] = "running"
    /\ child' = [child EXCEPT ![c] = "done"]
    /\ \E answer \in {"OK", "NOT FOUND"} : reply' = [reply EXCEPT ![c] = answer]
    /\ UNCHANGED <<clients, sessions, loop, file_status, validated>>

Serve(fd) == RecvHeaders(fd) \/ RecvUnchecked(fd) \/ RecvMore(fd) \/ HangUp(fd)

Next ==
    \/ \E c \in Conn : Connect(c) \/ SendFile(c) \/ Leave(c) \/ Accept(c) \/ ChildDone(c)
    \/ \E s \in Session : Logout(s)
    \/ \E fd \in FD : Serve(fd)
    \/ LookUpUser
    \/ FinishUpload

(***************************************************************************)
(* The loop serves every ready descriptor of a pass and the database       *)
(* answers; the children are scheduled.  Nothing makes a client connect,   *)
(* send its file or leave, or a user log out.                              *)
(***************************************************************************)
Fairness ==
    /\ \A c \in Conn : WF_vars(Accept(c)) /\ WF_vars(ChildDone(c))
    /\ \A fd \in FD : WF_vars(Serve(fd))
    /\ WF_vars(LookUpUser) /\ WF_vars(FinishUpload)

Spec == Init /\ [][Next]_vars /\ Fairness

-----------------------------------------------------------------------------
(***************************************************************************)
(* Properties.                                                             *)
(***************************************************************************)

\* The loop never dereferences a missing map entry and never hands select() a
\* closed descriptor: three tables that are updated separately agree.
WatchedIsServable ==
    \A fd \in master : fdConn[fd] # NoConn /\ socket_hashmap[fd] # NoEntry

\* Never two answers: a connection is watched by the loop, served by one child
\* or answered, and only one of these.
OneAnswerer ==
    \A fd \in FD : fdConn[fd] # NoConn =>
        LET c == fdConn[fd]
        IN  /\ fd \in master => child[c] = "none" /\ reply[c] = "none"
            /\ fd \notin master => child[c] # "none"
            /\ child[c] = "running" => reply[c] = "none"

\* Map entries outlive their connections, yet no connection runs under another
\* one's valid session, and no child is forked for another one's file; only the
\* entry of an unknown operation is still valid for a later connection, and all
\* it ever does is to refuse.
ActsForItsOwnRequest ==
    \A fd \in FD : fdConn[fd] # NoConn =>
        LET entry == socket_hashmap[fd]
            acts  == \/ entry.session_status = "Valid_session" /\ entry.op # "NotExist"
                     \/ child[fdConn[fd]] # "none"
        IN  acts => entry.rec = fdConn[fd]

\* An upload, a download or a rename succeeds only for a connection whose own
\* session was found, whatever was left in the map by earlier ones.
OkOnlyIfValidated ==
    \A c \in Conn : reply[c] = "OK" /\ kind[c] # "DownloadShared" => c \in validated

\* The stored status agrees with the answer: Success only after OK, or when the
\* client left before its file was read, and an upload answered OK is never
\* marked Failed, not even by the hang-up of a later connection that found this
\* one's values in its entry.
RecordFollowsAnswer ==
    \A c \in Conn :
        /\ file_status[c] = "Success" =>
              reply[c] = "OK" \/ (c \in gone /\ read[c] < Chunks(c))
        /\ file_status[c] = "Failed" => reply[c] # "OK"


-----------------------------------------------------------------------------
(***************************************************************************)
(* What the code's comments say and the code does not do.                  *)
(***************************************************************************)

\* homeCloud_Main.cpp:245 says of the branch that answers FAIL "sesson is not
\* valid!".  Sessions are only ever deleted, so one still in the table was
\* there all along.
FailMeansInvalidSession ==
    \A c \in Conn : reply[c] = "FAIL" => SessionOf[c] \notin sessions

\* homeCloud_Main.cpp:264 says of a download "fork a child that handle the
\* process and then closes the socket".
ServedSocketIsClosed ==
    \A c \in Conn : (child[c] = "done") ~> (\A fd \in FD : fdConn[fd] # c)

=============================================================================
