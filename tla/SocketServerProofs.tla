------------------------- MODULE SocketServerProofs -------------------------
(***************************************************************************)
(* Tables, answers, requests and records of SocketServer, for every number *)
(* of connections, descriptors and sessions.                               *)
(***************************************************************************)
EXTENDS SocketServer, TLAPS

Placed(c) == \E fd \in FD : fdConn[fd] = c

\* A connection that had a descriptor and has none any more.
Past(c) == sent[c] # 0 /\ c \notin backlog /\ ~Placed(c)

\* Before accept() returns a connection nobody does anything for it.
FreshInv ==
    \A c \in Conn :
        /\ c \in backlog => sent[c] # 0
        /\ sent[c] = 0 \/ c \in backlog =>
              ~Placed(c) /\ child[c] = "none" /\ reply[c] = "none" /\ read[c] = 0

SlotInv ==
    \A f, g \in FD : fdConn[f] = fdConn[g] /\ fdConn[f] # NoConn => f = g

\* Where the loop is when it is not in select().
LoopInv ==
    /\ at = "user" =>
          /\ cur \in master
          /\ LET entry == socket_hashmap[cur]
             IN  /\ entry.op \notin {"unknown", "DownloadShared"}
                 /\ entry.rec = fdConn[cur]
                 /\ fdConn[cur] \in validated
    /\ at = "finish" =>
          /\ cur \notin master /\ fdConn[cur] = NoConn
          /\ socket_hashmap[cur] # NoEntry
          /\ socket_hashmap[cur].rec \in Conn
          /\ reply[socket_hashmap[cur].rec] = "OK"

Finishing(fd) == at = "finish" /\ cur = fd

\* What a map entry may hold: as long as its connection is watched, ...
WatchedEntry(entry) ==
    /\ ~entry.finished /\ entry.op # "DownloadShared"
    /\ entry.session_status = "Valid_session" =>
          entry.op \in {"Upload", "Delete File", "NotExist"}

\* ... when its connection was refused, ...
LeftEntry(entry) == IsRefused(entry) /\ ~entry.finished

\* ... and when the values in it are those of an earlier connection.
EntryOK(fd) ==
    LET entry == socket_hashmap[fd]
    IN  /\ entry.op = "unknown" =>
              entry.session_status = "Not_Received_yet" /\ entry.rec = NoConn
        /\ entry.op # "unknown" => entry.rec \in Conn
        /\ fd \in master => WatchedEntry(entry)
        /\ fdConn[fd] = NoConn => LeftEntry(entry) \/ Finishing(fd)
        /\ entry.rec # NoConn /\ entry.rec # fdConn[fd] =>
              \/ Finishing(fd)
              \/ Past(entry.rec) /\ reply[entry.rec] = "FAIL" /\ LeftEntry(entry)
        /\ entry.session_status = "Valid_session" /\ entry.op # "NotExist"
                /\ fdConn[fd] # NoConn =>
              fdConn[fd] \in validated

EntryInv == \A fd \in FD : socket_hashmap[fd] # NoEntry => EntryOK(fd)

\* A watched connection has one chunk read at most, and none as long as its
\* entry is new or an earlier one's.
ReadOK(fd) ==
    LET c == fdConn[fd]
        entry == socket_hashmap[fd]
    IN  /\ read[c] \in {0, 1}
        /\ entry.rec # c => read[c] = 0
        /\ entry.rec = c => entry.op = OpOf(c)
        /\ entry.rec = c /\ entry.op = "Upload" /\ ~(at = "user" /\ cur = fd) =>
              entry.session_status = "Valid_session"

ReadInv == \A fd \in master : ReadOK(fd)

\* The parent keeps the descriptor of every child.
ChildInv ==
    \A c \in Conn : child[c] # "none" =>
        /\ Placed(c)
        /\ \A fd \in master : fdConn[fd] # c
        /\ kind[c] = "DownloadShared" \/ c \in validated

StatusInv ==
    \A c \in Conn :
        file_status[c] = "Failed" \/ (file_status[c] = "Success" /\ reply[c] # "OK") => Past(c)

IInv ==
    /\ TypeOK
    /\ FreshInv /\ SlotInv /\ LoopInv /\ EntryInv /\ ReadInv /\ ChildInv /\ StatusInv
    /\ WatchedIsServable /\ OneAnswerer /\ ActsForItsOwnRequest
    /\ OkOnlyIfValidated /\ RecordFollowsAnswer

USE ServerAssumption, NoEntryAssumption

\* The chunks counted, apart from the rest of TypeOK.
CountsOK ==
    /\ sent \in [Conn -> 0..2] /\ read \in [Conn -> 0..2]
    /\ \A c \in Conn : read[c] <= sent[c] /\ sent[c] <= Chunks(c)

TablesOK ==
    /\ kind \in [Conn -> Kinds]
    /\ backlog \subseteq Conn /\ gone \subseteq Conn /\ validated \subseteq Conn
    /\ sessions \subseteq Session
    /\ fdConn \in [FD -> Conn \cup {NoConn}]
    /\ master \subseteq FD
    /\ socket_hashmap \in [FD -> Socket_data \cup {NoEntry}]
    /\ at \in {"select", "user", "finish"}
    /\ cur \in FD
    /\ child \in [Conn -> {"none", "running", "done", "failed"}]
    /\ reply \in [Conn -> {"none", "OK", "FAIL", "NOT FOUND"}]
    /\ file_status \in [Conn -> {"Pending", "Success", "Failed"}]

LEMMA TypeParts == TypeOK <=> CountsOK /\ TablesOK
BY DEF TypeOK, CountsOK, TablesOK

LEMMA InitInv == Init => IInv
<1> SUFFICES ASSUME Init PROVE IInv
    OBVIOUS
<1>1. TypeOK
    BY DEF Init, TypeOK, Chunks
<1>2. FreshInv /\ SlotInv /\ LoopInv /\ EntryInv /\ ReadInv /\ ChildInv /\ StatusInv
    BY DEF Init, FreshInv, SlotInv, LoopInv, EntryInv, EntryOK, ReadInv, ChildInv, StatusInv, Placed, Finishing
<1>3. WatchedIsServable /\ OneAnswerer /\ ActsForItsOwnRequest
    BY DEF Init, WatchedIsServable, OneAnswerer, ActsForItsOwnRequest
<1>4. OkOnlyIfValidated /\ RecordFollowsAnswer
    BY DEF Init, OkOnlyIfValidated, RecordFollowsAnswer
<1> QED
    BY <1>1, <1>2, <1>3, <1>4 DEF IInv

\* What the invariant says of a watched descriptor and its connection.
LEMMA WatchedFacts ==
    ASSUME IInv, NEW fd \in master
    PROVE  /\ fd \in FD /\ fdConn[fd] \in Conn
           /\ socket_hashmap[fd] \in Socket_data
           /\ child[fdConn[fd]] = "none" /\ reply[fdConn[fd]] = "none"
           /\ sent[fdConn[fd]] # 0 /\ fdConn[fd] \notin backlog
           /\ file_status[fdConn[fd]] = "Pending"
           /\ WatchedEntry(socket_hashmap[fd])
<1>1. fd \in FD /\ fdConn[fd] \in Conn /\ socket_hashmap[fd] \in Socket_data
    BY DEF IInv, TypeOK, WatchedIsServable
<1>2. child[fdConn[fd]] = "none" /\ reply[fdConn[fd]] = "none"
    BY <1>1 DEF IInv, OneAnswerer
<1>3. Placed(fdConn[fd])
    BY <1>1 DEF Placed
<1>4. sent[fdConn[fd]] # 0 /\ fdConn[fd] \notin backlog
    BY <1>1, <1>3 DEF IInv, TypeOK, FreshInv
<1>5. file_status[fdConn[fd]] = "Pending"
    BY <1>1, <1>2, <1>3 DEF IInv, TypeOK, StatusInv, Past
<1>6. WatchedEntry(socket_hashmap[fd])
    BY <1>1 DEF IInv, EntryInv, EntryOK
<1> QED
    BY <1>1, <1>2, <1>4, <1>5, <1>6

\* What operation the parser finds in a request.
LEMMA OpOfFacts ==
    ASSUME IInv, NEW c \in Conn
    PROVE  /\ OpOf(c) \in operation_type \ {"unknown"}
           /\ OpOf(c) = "Upload" <=> kind[c] = "Upload"
           /\ OpOf(c) = "DownloadShared" => kind[c] = "DownloadShared"
           /\ kind[c] \in CutKinds => OpOf(c) # "Upload"
<1>1. kind[c] \in AllKinds
    BY DEF IInv, TypeOK, ServerAssumption
<1>2. CASE kind[c] = "CutDownload"
    BY <1>2 DEF OpOf, operation_type
<1>3. CASE kind[c] = "CutRename"
    BY <1>3 DEF OpOf, operation_type
<1>4. CASE kind[c] = "CutDelete"
    BY <1>4 DEF OpOf, operation_type
<1>5. CASE kind[c] \notin CutKinds
  <2>1. OpOf(c) = kind[c]
    BY <1>5 DEF OpOf, CutKinds
  <2>2. kind[c] \in operation_type \ {"unknown"}
    BY <1>1, <1>5 DEF AllKinds, operation_type
  <2> QED
    BY <2>1, <2>2, <1>5
<1> QED
    BY <1>2, <1>3, <1>4, <1>5 DEF CutKinds

\* Steps that change neither a record nor an answer that was given, nor what
\* was read of a past connection.
LEMMA RecordsKept ==
    ASSUME IInv, UNCHANGED <<kind, file_status>>, gone \subseteq gone',
           \A c \in Conn : Past(c) => Past(c)' /\ read'[c] = read[c] /\ reply'[c] = reply[c],
           \A c \in Conn : reply[c] = "OK" => reply'[c] = "OK"
    PROVE  RecordFollowsAnswer' /\ StatusInv'
<1>1. ASSUME NEW c \in Conn, file_status[c] = "Failed"
      PROVE  reply'[c] # "OK" /\ Past(c)'
    BY <1>1 DEF IInv, StatusInv, RecordFollowsAnswer
<1>2. ASSUME NEW c \in Conn, file_status[c] = "Success", reply'[c] # "OK"
      PROVE  c \in gone' /\ read'[c] < Chunks(c)' /\ Past(c)'
    BY <1>2 DEF IInv, StatusInv, RecordFollowsAnswer, Chunks
<1> QED
    BY <1>1, <1>2 DEF RecordFollowsAnswer, StatusInv

\* Steps that leave a watched descriptor alone.
LEMMA ReadKept ==
    ASSUME IInv, NEW g \in master, UNCHANGED kind,
           fdConn'[g] = fdConn[g], socket_hashmap'[g] = socket_hashmap[g],
           read'[fdConn[g]] = read[fdConn[g]],
           at = "user" /\ cur = g => at' = "user" /\ cur' = g
    PROVE  ReadOK(g)'
BY DEF IInv, ReadInv, ReadOK, OpOf

LEMMA ReadSame ==
    ASSUME IInv, UNCHANGED <<kind, read, loop>>
    PROVE  ReadInv'
BY ReadKept DEF ReadInv, loop

-----------------------------------------------------------------------------
\* The steps of clients and users.
LEMMA ConnectInv ==
    ASSUME IInv, NEW c \in Conn, Connect(c)
    PROVE  IInv'
<1>0. CountsOK /\ TablesOK
    BY TypeParts DEF IInv
<1>1. /\ c \notin backlog /\ sent[c] = 0
      /\ sent' = [sent EXCEPT ![c] = 1] /\ backlog' = backlog \cup {c}
      /\ UNCHANGED <<kind, read, fdConn, child, reply>>
    BY DEF IInv, FreshInv, Connect, loop
<1>2. TypeOK'
  <2>1. CountsOK'
    BY <1>0, <1>1 DEF CountsOK, Chunks
  <2>2. TablesOK'
    BY <1>0 DEF TablesOK, Connect, loop
  <2> QED
    BY <2>1, <2>2, TypeParts, PTL
<1>3. ~Past(c) /\ \A d \in Conn : Past(d) => Past(d)'
    BY <1>0, <1>1 DEF CountsOK, Past, Placed
<1>4. FreshInv'
    BY <1>0, <1>1 DEF IInv, CountsOK, FreshInv, Placed
<1>5. SlotInv' /\ LoopInv'
    BY DEF IInv, SlotInv, LoopInv, Connect, loop
<1>6. EntryInv'
    BY <1>3 DEF IInv, TypeOK, EntryInv, EntryOK, Connect, loop, Finishing, WatchedEntry, LeftEntry, Socket_data
<1>7. ChildInv' /\ ReadInv'
    BY <1>3, ReadSame DEF IInv, ChildInv, Connect, loop, Placed
<1>8. WatchedIsServable' /\ OneAnswerer' /\ ActsForItsOwnRequest'
    BY DEF IInv, WatchedIsServable, OneAnswerer, ActsForItsOwnRequest, Connect, loop
<1>9. OkOnlyIfValidated' /\ RecordFollowsAnswer' /\ StatusInv'
    BY <1>3, RecordsKept DEF IInv, OkOnlyIfValidated, Connect
<1> QED
    BY <1>2, <1>4, <1>5, <1>6, <1>7, <1>8, <1>9 DEF IInv

\* Clients that send their file or leave and users that log out touch nothing
\* that the other parts of the invariant speak of.
LEMMA ClientInv ==
    ASSUME IInv,
           (\E c \in Conn : SendFile(c) \/ Leave(c)) \/ (\E s \in Session : Logout(s))
    PROVE  IInv'
<1>0. CountsOK /\ TablesOK
    BY TypeParts DEF IInv
<1>1. UNCHANGED <<kind, read, backlog, loop, child, reply, file_status, validated>>
    BY DEF SendFile, Leave, Logout, clients
<1>2. \/ UNCHANGED sent
      \/ \E c \in Conn : sent[c] = 1 /\ Chunks(c) = 2 /\ sent' = [sent EXCEPT ![c] = 2]
    BY DEF SendFile, Leave, Logout, clients
<1>3. TypeOK'
  <2>1. CountsOK'
    BY <1>0, <1>1, <1>2 DEF CountsOK, Chunks
  <2>2. gone' \subseteq Conn /\ sessions' \subseteq Session
    BY <1>0 DEF TablesOK, SendFile, Leave, Logout, clients
  <2>3. TablesOK'
    BY <1>0, <1>1, <2>2 DEF TablesOK, loop
  <2> QED
    BY <2>1, <2>3, TypeParts, PTL
<1>4. \A c \in Conn : (sent[c] = 0) = (sent'[c] = 0)
    BY <1>0, <1>2 DEF CountsOK
<1>5. FreshInv'
    BY <1>1, <1>4 DEF IInv, FreshInv, Placed, loop
<1>6. SlotInv' /\ LoopInv'
    BY <1>1 DEF IInv, SlotInv, LoopInv, loop
<1>7. \A c \in Conn : Past(c) => Past(c)'
    BY <1>1, <1>4 DEF Past, Placed, loop
<1>8. EntryInv'
    BY <1>0, <1>1, <1>7
    DEF IInv, TablesOK, Socket_data, EntryInv, EntryOK, WatchedEntry, LeftEntry, Finishing, loop
<1>9. ChildInv' /\ ReadInv'
    BY <1>1, <1>7, ReadSame DEF IInv, ChildInv, Placed, loop
<1>10. WatchedIsServable' /\ OneAnswerer' /\ ActsForItsOwnRequest'
    BY <1>1 DEF IInv, WatchedIsServable, OneAnswerer, ActsForItsOwnRequest, loop
<1>11. OkOnlyIfValidated' /\ RecordFollowsAnswer' /\ StatusInv'
  <2>1. gone \subseteq gone'
    BY DEF SendFile, Leave, Logout, clients
  <2> QED
    BY <1>1, <1>7, <2>1, RecordsKept DEF IInv, OkOnlyIfValidated
<1> QED
    BY <1>3, <1>5, <1>6, <1>8, <1>9, <1>10, <1>11 DEF IInv

-----------------------------------------------------------------------------
\* The steps of the loop.

\* An accepted connection meets a new entry or a refused one.
LEMMA AcceptInv ==
    ASSUME IInv, NEW c \in Conn, Accept(c)
    PROVE  IInv'
<1>0. CountsOK /\ TablesOK
    BY TypeParts DEF IInv
<1>1. PICK fd \in FD :
        /\ fdConn[fd] = NoConn
        /\ fdConn' = [fdConn EXCEPT ![fd] = c]
        /\ master' = master \cup {fd}
        /\ socket_hashmap' = [socket_hashmap EXCEPT
                ![fd] = IF @ = NoEntry THEN NewSocketData ELSE @]
    BY DEF Accept
<1>2. /\ at = "select" /\ c \in backlog /\ backlog' = backlog \ {c}
      /\ UNCHANGED <<kind, sent, read, gone, sessions, at, cur, child, reply,
                     file_status, validated>>
    BY DEF Accept
<1>3. /\ sent[c] # 0 /\ ~Placed(c) /\ child[c] = "none" /\ reply[c] = "none"
      /\ fd \notin master /\ read[c] = 0
    BY <1>0, <1>1, <1>2 DEF IInv, FreshInv, WatchedIsServable
<1>4. NewSocketData \in Socket_data
    BY DEF NewSocketData, Socket_data, operation_type
<1>5. TypeOK'
  <2>1. CountsOK'
    BY <1>0, <1>2 DEF CountsOK, Chunks
  <2>2. TablesOK'
    BY <1>0, <1>1, <1>2, <1>4 DEF TablesOK
  <2> QED
    BY <2>1, <2>2, TypeParts, PTL
<1>6. \A d \in Conn : Placed(d)' = (Placed(d) \/ d = c)
    BY <1>0, <1>1 DEF TablesOK, Placed
<1>7. \A d \in Conn : Past(d) => Past(d)'
    BY <1>2, <1>6 DEF Past
<1>8. FreshInv'
    BY <1>2, <1>6 DEF IInv, FreshInv
<1>9. SlotInv' /\ LoopInv'
    BY <1>0, <1>1, <1>2, <1>3 DEF IInv, TablesOK, SlotInv, LoopInv, Placed
<1>10. EntryInv'
  <2> SUFFICES ASSUME NEW g \in FD, socket_hashmap'[g] # NoEntry
               PROVE  EntryOK(g)'
    BY DEF EntryInv
  <2>1. CASE g # fd
    BY <2>1, <1>0, <1>1, <1>2, <1>7
    DEF IInv, TablesOK, Socket_data, EntryInv, EntryOK, Finishing, WatchedEntry, LeftEntry
  <2>2. CASE g = fd /\ socket_hashmap[fd] = NoEntry
    BY <2>2, <1>0, <1>1 DEF TablesOK, EntryOK, NewSocketData, WatchedEntry
  <2>3. CASE g = fd /\ socket_hashmap[fd] # NoEntry
    <3>1. LeftEntry(socket_hashmap[fd]) /\ socket_hashmap[fd] \in Socket_data
        BY <2>3, <1>0, <1>1, <1>2, ZenonT(30) DEF IInv, TablesOK, EntryInv, EntryOK, Finishing
    <3>2. /\ socket_hashmap'[fd] = socket_hashmap[fd] /\ fdConn'[fd] = c
        BY <2>3, <1>0, <1>1 DEF TablesOK
    <3>3. EntryOK(fd) /\ ~Finishing(fd)
        BY <2>3, <1>2 DEF IInv, EntryInv, Finishing
    <3>4. WatchedEntry(socket_hashmap[fd])
        BY <3>1 DEF WatchedEntry, LeftEntry, IsRefused, Socket_data
    <3>5. socket_hashmap[fd].session_status = "Valid_session" => socket_hashmap[fd].op = "NotExist"
        BY <3>1 DEF LeftEntry, IsRefused
    <3>6. socket_hashmap[fd].rec # NoConn =>
              /\ Past(socket_hashmap[fd].rec)' /\ reply'[socket_hashmap[fd].rec] = "FAIL"
              /\ LeftEntry(socket_hashmap[fd])
        BY <3>1, <3>3, <1>1, <1>2, <1>7 DEF EntryOK, Socket_data
    <3> QED
        BY <2>3, <3>1, <3>2, <3>3, <3>4, <3>5, <3>6 DEF EntryOK
  <2> QED
    BY <2>1, <2>2, <2>3
<1>11. ChildInv' /\ ReadInv'
  <2>1. ChildInv'
    <3>1. \A g \in FD : fdConn'[g] = IF g = fd THEN c ELSE fdConn[g]
        BY <1>0, <1>1 DEF TablesOK
    <3>2. ASSUME NEW d \in Conn, child[d] # "none"
          PROVE  Placed(d)' /\ \A g \in master' : fdConn'[g] # d
        BY <3>1, <3>2, <1>0, <1>1, <1>3, <1>6, ZenonT(30) DEF IInv, TablesOK, ChildInv
    <3> QED
        BY <3>2, <1>2 DEF IInv, ChildInv
  <2>2. \A g \in master : ReadOK(g)'
    BY <1>0, <1>1, <1>2, <1>3, ReadKept DEF TablesOK
  <2>3. ReadOK(fd)'
    <3>1. fdConn'[fd] = c /\ read'[c] = 0
        BY <1>0, <1>1, <1>2, <1>3 DEF TablesOK
    <3>2. socket_hashmap'[fd].rec # c
        BY <1>0, <1>1, <1>2, ZenonT(30)
        DEF IInv, TablesOK, EntryInv, EntryOK, Finishing, NewSocketData, Past
    <3> QED
        BY <3>1, <3>2 DEF ReadOK
  <2> QED
    BY <1>1, <2>1, <2>2, <2>3 DEF ReadInv
<1>12. WatchedIsServable' /\ OneAnswerer'
  <2>1. WatchedIsServable'
    BY <1>0, <1>1, <1>4, ZenonT(30) DEF IInv, TablesOK, WatchedIsServable
  <2>2. OneAnswerer'
    BY <1>0, <1>1, <1>2, <1>3 DEF IInv, TablesOK, OneAnswerer
  <2> QED
    BY <2>1, <2>2
<1>13. ActsForItsOwnRequest'
  <2> SUFFICES ASSUME NEW g \in FD, fdConn'[g] # NoConn
               PROVE  (/\ socket_hashmap'[g].session_status = "Valid_session"
                       /\ socket_hashmap'[g].op # "NotExist")
                        \/ child'[fdConn'[g]] # "none" => socket_hashmap'[g].rec = fdConn'[g]
    BY DEF ActsForItsOwnRequest
  <2>1. CASE g # fd
    BY <2>1, <1>0, <1>1, <1>2 DEF IInv, TablesOK, ActsForItsOwnRequest
  <2>2. CASE g = fd
    <3>1. fdConn'[fd] = c /\ child'[c] = "none"
        BY <1>0, <1>1, <1>2, <1>3 DEF TablesOK
    <3>2. CASE socket_hashmap[fd] = NoEntry
        BY <2>2, <3>1, <3>2, <1>0, <1>1 DEF TablesOK, NewSocketData
    <3>3. CASE socket_hashmap[fd] # NoEntry
      <4>1. LeftEntry(socket_hashmap[fd])
        BY <3>3, <1>0, <1>1, <1>2, ZenonT(30) DEF IInv, EntryInv, EntryOK, Finishing
      <4>2. socket_hashmap'[fd] = socket_hashmap[fd]
        BY <3>3, <1>0, <1>1 DEF TablesOK
      <4> QED
        BY <2>2, <3>1, <4>1, <4>2 DEF LeftEntry, IsRefused
    <3> QED
        BY <3>2, <3>3
  <2> QED
    BY <2>1, <2>2
<1>14. OkOnlyIfValidated' /\ RecordFollowsAnswer' /\ StatusInv'
    BY <1>2, <1>7, RecordsKept DEF IInv, OkOnlyIfValidated
<1> QED
    BY <1>5, <1>8, <1>9, <1>10, <1>11, <1>12, <1>13, <1>14 DEF IInv

\* What add_data_chunk leaves in the entry of the descriptor it was called for.
ChunkOK(fd, entry) ==
    /\ entry \in Socket_data /\ entry.op # "unknown" /\ entry.rec \in Conn
    /\ entry.op = "DownloadShared" =>
          entry.rec = fdConn[fd] /\ kind[fdConn[fd]] = "DownloadShared"
    /\ entry.session_status = "Valid_session" /\ entry.op # "NotExist" =>
          entry.rec = fdConn[fd] /\ fdConn[fd] \in validated'
    /\ entry.rec # fdConn[fd] =>
          Past(entry.rec) /\ reply[entry.rec] = "FAIL" /\ IsRefused(entry)
    /\ entry.rec = fdConn[fd] => entry.op = OpOf(fdConn[fd])
    /\ entry.finished => entry.session_status = "Valid_session" /\ entry.op = "Upload"
    /\ entry.finished \/ read'[fdConn[fd]] \in {0, 1}
    /\ entry.op = "Upload" => entry.session_status # "Not_Received_yet" \/ at' = "user"

\* What every pass of the loop over a chunk keeps.
ChunkFrame(fd) ==
    /\ at \in {"select", "user"} /\ (at = "user" => cur = fd) /\ cur' = fd
    /\ \A d \in Conn \ {fdConn[fd]} : read'[d] = read[d]
    /\ CountsOK' /\ validated \subseteq validated' /\ validated' \subseteq Conn
    /\ UNCHANGED <<kind, sent, backlog, gone, sessions, file_status>>

\* The other descriptors' entries are not disturbed.
LEMMA OthersOK ==
    ASSUME IInv, NEW fd \in master, ChunkFrame(fd),
           master' \subseteq master,
           \A g \in FD \ {fd} : fdConn'[g] = fdConn[g] /\ socket_hashmap'[g] = socket_hashmap[g],
           \A d \in Conn \ {fdConn[fd]} : reply'[d] = reply[d],
           \A d \in Conn : Past(d) => Past(d)'
    PROVE  \A g \in FD \ {fd} : socket_hashmap'[g] # NoEntry => EntryOK(g)'
<1>1. TablesOK /\ fdConn[fd] \in Conn
    BY TypeParts, WatchedFacts DEF IInv
<1>2. \A d \in Conn : Past(d) => d # fdConn[fd]
    BY <1>1 DEF TablesOK, Past, Placed
<1> SUFFICES ASSUME NEW g \in FD \ {fd}, socket_hashmap[g] # NoEntry, EntryOK(g)
             PROVE  EntryOK(g)'
    BY DEF IInv, EntryInv
<1>3. socket_hashmap[g] \in Socket_data /\ ~Finishing(g)
    BY <1>1 DEF TablesOK, ChunkFrame, Finishing
<1>4. /\ socket_hashmap[g].rec # NoConn /\ socket_hashmap[g].rec # fdConn[g] =>
            Past(socket_hashmap[g].rec)' /\ reply'[socket_hashmap[g].rec] = "FAIL"
    BY <1>2, <1>3 DEF EntryOK, Socket_data
<1> QED
    BY <1>1, <1>3, <1>4 DEF EntryOK, ChunkFrame, TablesOK

\* Refuse and Complete: the descriptor is closed after an answer.
LEMMA CloseInv ==
    ASSUME IInv, NEW fd \in master, NEW entry, ChunkFrame(fd), ChunkOK(fd, entry),
           CloseFd(fd), UNCHANGED child,
           socket_hashmap' = [socket_hashmap EXCEPT ![fd] = entry],
           \/ /\ Refuse(fd, entry) /\ at' = "select"
           \/ /\ Complete(fd, entry) /\ at' = "finish"
    PROVE  IInv'
<1> PICK c \in Conn : c = fdConn[fd]
    BY WatchedFacts
<1>0. TablesOK /\ fd \in FD /\ c = fdConn[fd] /\ child[c] = "none" /\ reply[c] = "none"
      /\ sent[c] # 0 /\ c \notin backlog /\ file_status[c] = "Pending"
    BY TypeParts, WatchedFacts DEF IInv
<1>1. PICK answer \in {"OK", "FAIL"} :
        /\ reply' = [reply EXCEPT ![c] = answer]
        /\ answer = "FAIL" => LeftEntry(entry) /\ at' = "select"
        /\ answer = "OK" => /\ entry.finished /\ entry.rec = c /\ at' = "finish"
                            /\ c \in validated'
  <2>1. entry.finished => entry.session_status = "Valid_session" /\ entry.op = "Upload"
    BY DEF ChunkOK
  <2>2. CASE Refuse(fd, entry) /\ at' = "select"
    BY <2>1, <2>2 DEF Refuse, LeftEntry, IsRefused
  <2>3. CASE Complete(fd, entry) /\ at' = "finish"
    BY <2>1, <2>3 DEF Complete, ChunkOK
  <2> QED
    BY <2>2, <2>3
<1>2. /\ fdConn'[fd] = NoConn /\ socket_hashmap'[fd] = entry
      /\ \A g \in FD \ {fd} : fdConn'[g] = fdConn[g] /\ socket_hashmap'[g] = socket_hashmap[g]
      /\ \A g \in FD \ {fd} : fdConn[g] # c
      /\ master' = master \ {fd} /\ entry # NoEntry
  <2>1. /\ fdConn'[fd] = NoConn /\ socket_hashmap'[fd] = entry
        /\ master' = master \ {fd} /\ entry # NoEntry
    BY <1>0 DEF CloseFd, TablesOK, ChunkOK
  <2>2. ASSUME NEW g \in FD \ {fd}
        PROVE  fdConn'[g] = fdConn[g] /\ socket_hashmap'[g] = socket_hashmap[g]
    BY <1>0 DEF CloseFd, TablesOK
  <2>3. ASSUME NEW g \in FD \ {fd}
        PROVE  fdConn[g] # c
    BY <1>0 DEF IInv, SlotInv
  <2> QED
    BY <2>1, <2>2, <2>3
<1>3. /\ \A d \in Conn \ {c} : Placed(d)' = Placed(d)
      /\ ~Placed(c)' /\ Placed(c)
    BY <1>0, <1>2 DEF Placed
<1>4. /\ \A d \in Conn : Past(d) => Past(d)'
      /\ Past(c)'
    BY <1>0, <1>3 DEF Past, ChunkFrame
<1>5. reply'[c] = answer /\ \A d \in Conn \ {c} : reply'[d] = reply[d]
    BY <1>0, <1>1 DEF TablesOK
<1>6. TypeOK'
  <2>1. TablesOK'
    BY <1>0, <1>1, <1>2 DEF TablesOK, ChunkFrame, ChunkOK, CloseFd
  <2> QED
    BY <2>1, TypeParts, PTL DEF ChunkFrame
<1>7. FreshInv'
    BY <1>0, <1>3, <1>5 DEF IInv, FreshInv, ChunkFrame
<1>8. SlotInv'
    BY <1>2 DEF IInv, SlotInv
<1>9. LoopInv'
    BY <1>0, <1>1, <1>2, <1>5 DEF LoopInv, ChunkFrame, ChunkOK
<1>10. EntryInv'
  <2>1. EntryOK(fd)'
    <3>1. entry.rec # NoConn => Past(entry.rec)'
        BY <1>4 DEF ChunkOK
    <3>2. answer = "FAIL" => reply'[entry.rec] = "FAIL"
        BY <1>5 DEF ChunkOK
    <3>3. answer = "FAIL" => LeftEntry(entry)
        BY <1>1
    <3>4. answer = "OK" => Finishing(fd)'
        BY <1>1 DEF Finishing, ChunkFrame
    <3> QED
        BY <3>1, <3>2, <3>3, <3>4, <1>0, <1>2 DEF EntryOK, ChunkOK
  <2> QED
    BY <2>1, <1>2, <1>4, <1>5, OthersOK DEF EntryInv
<1>11. ChildInv'
  <2>1. ASSUME NEW d \in Conn, child[d] # "none"
        PROVE  Placed(d)' /\ \A g \in master' : fdConn'[g] # d
    <3>1. d # c /\ Placed(d) /\ \A g \in master : fdConn[g] # d
        BY <2>1, <1>0 DEF IInv, ChildInv
    <3>2. \A g \in master' : fdConn'[g] = fdConn[g] /\ g \in master
        BY <1>0, <1>2 DEF TablesOK
    <3> QED
        BY <3>1, <3>2, <1>3
  <2> QED
    BY <2>1 DEF IInv, ChildInv, ChunkFrame
<1>12. ReadInv'
  <2>1. \A g \in master' : /\ g \in master \ {fd} /\ fdConn'[g] = fdConn[g]
                           /\ socket_hashmap'[g] = socket_hashmap[g]
                           /\ read'[fdConn[g]] = read[fdConn[g]]
    <3> SUFFICES ASSUME NEW g \in master'
                 PROVE  /\ g \in master \ {fd} /\ fdConn'[g] = fdConn[g]
                        /\ socket_hashmap'[g] = socket_hashmap[g]
                        /\ read'[fdConn[g]] = read[fdConn[g]]
        OBVIOUS
    <3>1. g \in master \ {fd} /\ fdConn[g] \in Conn /\ g \in FD
        BY <1>2, WatchedFacts
    <3> QED
        BY <3>1, <1>2 DEF ChunkFrame
  <2>2. \A g \in master' : at = "user" /\ cur = g => at' = "user" /\ cur' = g
    BY <2>1 DEF ChunkFrame
  <2> QED
    BY <2>1, <2>2, ReadKept DEF ReadInv, ChunkFrame
<1>13. \A g \in FD : fdConn'[g] # NoConn =>
            /\ g # fd /\ fdConn'[g] = fdConn[g] /\ fdConn[g] \in Conn \ {c}
            /\ reply'[fdConn[g]] = reply[fdConn[g]]
            /\ g \in master' <=> g \in master
    BY <1>0, <1>2, <1>5, ZenonT(30) DEF TablesOK
<1>14. WatchedIsServable' /\ OneAnswerer' /\ ActsForItsOwnRequest'
  <2>1. WatchedIsServable'
    BY <1>0, <1>2, ZenonT(30) DEF IInv, TablesOK, WatchedIsServable
  <2>2. OneAnswerer'
    BY <1>13 DEF IInv, OneAnswerer
  <2>3. ActsForItsOwnRequest'
    BY <1>2, <1>13 DEF IInv, ActsForItsOwnRequest
  <2> QED
    BY <2>1, <2>2, <2>3
<1>15. OkOnlyIfValidated'
    BY <1>1, <1>5 DEF IInv, OkOnlyIfValidated, ChunkFrame
<1>16. RecordFollowsAnswer' /\ StatusInv'
  <2>1. \A d \in Conn : Past(d) => d # c
    BY <1>3 DEF Past
  <2> QED
    BY <1>0, <1>4, <1>5, <2>1, RecordsKept DEF ChunkFrame
<1> QED
    BY <1>6, <1>7, <1>8, <1>9, <1>10, <1>11, <1>12, <1>14, <1>15, <1>16 DEF IInv

LEMMA ForkInv ==
    ASSUME IInv, NEW fd \in master, NEW entry, ChunkFrame(fd), ChunkOK(fd, entry),
           Fork(fd, entry), at' = "select"
    PROVE  IInv'
<1> PICK c \in Conn : c = fdConn[fd]
    BY WatchedFacts
<1>0. TablesOK /\ fd \in FD /\ c = fdConn[fd] /\ child[c] = "none" /\ reply[c] = "none"
      /\ sent[c] # 0 /\ c \notin backlog
    BY TypeParts, WatchedFacts DEF IInv
<1>1. PICK pid \in {"running", "failed"} : child' = [child EXCEPT ![c] = pid]
    BY DEF Fork
<1>2. /\ socket_hashmap'[fd] = entry /\ entry # NoEntry /\ entry.rec = c
      /\ \A g \in FD \ {fd} : socket_hashmap'[g] = socket_hashmap[g] /\ fdConn[g] # c
      /\ master' = master \ {fd} /\ UNCHANGED <<fdConn, reply>>
  <2>1. /\ entry.rec = c
        /\ socket_hashmap' = [socket_hashmap EXCEPT ![fd] = entry]
        /\ master' = master \ {fd} /\ UNCHANGED <<fdConn, reply>>
    BY <1>0 DEF Fork, IsForked, ChunkOK
  <2>2. /\ socket_hashmap'[fd] = entry /\ entry # NoEntry
        /\ \A g \in FD \ {fd} : socket_hashmap'[g] = socket_hashmap[g]
    BY <1>0, <2>1 DEF TablesOK, ChunkOK
  <2>3. \A g \in FD \ {fd} : fdConn[g] # c
    BY <1>0 DEF TablesOK, IInv, SlotInv
  <2> QED
    BY <2>1, <2>2, <2>3
<1>3. c \in validated' \/ kind[c] = "DownloadShared"
    BY DEF Fork, IsForked, ChunkOK
<1>4. /\ \A d \in Conn : Placed(d)' = Placed(d) /\ (Past(d) => Past(d)')
      /\ Placed(c)
    BY <1>0, <1>2 DEF Past, Placed, ChunkFrame
<1>5. child'[c] = pid /\ \A d \in Conn \ {c} : child'[d] = child[d]
    BY <1>0, <1>1 DEF TablesOK
<1>6. TypeOK'
  <2>1. socket_hashmap' \in [FD -> Socket_data \cup {NoEntry}]
    BY <1>0 DEF Fork, ChunkOK, TablesOK
  <2>2. TablesOK'
    BY <2>1, <1>0, <1>1, <1>2 DEF TablesOK, ChunkFrame
  <2> QED
    BY <2>2, TypeParts, PTL DEF ChunkFrame
<1>7. FreshInv'
    BY <1>0, <1>2, <1>4, <1>5 DEF IInv, FreshInv, ChunkFrame
<1>8. SlotInv' /\ LoopInv'
    BY <1>2 DEF IInv, SlotInv, LoopInv
<1>9. EntryInv'
  <2>1. EntryOK(fd)'
    BY <1>0, <1>2 DEF EntryOK, ChunkOK
  <2> QED
    BY <2>1, <1>2, <1>4, OthersOK DEF EntryInv
<1>10. ChildInv'
  <2>1. \A g \in master' : g \in FD /\ g # fd /\ g \in master /\ fdConn'[g] = fdConn[g]
    BY <1>0, <1>2 DEF TablesOK
  <2>2. ASSUME NEW d \in Conn, child'[d] # "none"
        PROVE  /\ Placed(d)' /\ \A g \in master' : fdConn'[g] # d
               /\ kind[d] = "DownloadShared" \/ d \in validated'
    <3>1. CASE d = c
        BY <3>1, <2>1, <1>2, <1>3, <1>4
    <3>2. CASE d # c
        BY <3>2, <2>1, <2>2, <1>4, <1>5 DEF IInv, ChildInv, ChunkFrame
    <3> QED
        BY <3>1, <3>2
  <2> QED
    BY <2>2 DEF ChildInv, ChunkFrame
<1>11. ReadInv'
  <2>1. \A g \in master' : /\ g \in master \ {fd} /\ fdConn'[g] = fdConn[g]
                           /\ socket_hashmap'[g] = socket_hashmap[g]
                           /\ read'[fdConn[g]] = read[fdConn[g]]
    BY <1>0, <1>2, WatchedFacts DEF ChunkFrame
  <2>2. \A g \in master' : at = "user" /\ cur = g => at' = "user" /\ cur' = g
    BY <2>1 DEF ChunkFrame
  <2> QED
    BY <2>1, <2>2, ReadKept DEF ReadInv, ChunkFrame
<1>12. \A g \in FD \ {fd} : fdConn[g] # NoConn =>
            /\ fdConn[g] \in Conn \ {c} /\ child'[fdConn[g]] = child[fdConn[g]]
            /\ g \in master' <=> g \in master
    BY <1>2, <1>0, <1>5, ZenonT(30) DEF TablesOK
<1>13. WatchedIsServable' /\ OneAnswerer' /\ ActsForItsOwnRequest'
  <2>1. WatchedIsServable'
    BY <1>0, <1>2 DEF IInv, TablesOK, WatchedIsServable
  <2>2. OneAnswerer'
    BY <1>0, <1>2, <1>5, <1>12 DEF IInv, OneAnswerer
  <2>3. ActsForItsOwnRequest'
    <3> SUFFICES ASSUME NEW g \in FD, fdConn[g] # NoConn,
                        \/ /\ socket_hashmap'[g].session_status = "Valid_session"
                           /\ socket_hashmap'[g].op # "NotExist"
                        \/ child'[fdConn[g]] # "none"
                 PROVE  socket_hashmap'[g].rec = fdConn[g]
        BY <1>2 DEF ActsForItsOwnRequest
    <3>1. CASE g = fd
        BY <3>1, <1>0, <1>2
    <3>2. CASE g # fd
        BY <3>2, <1>2, <1>12 DEF IInv, ActsForItsOwnRequest
    <3> QED
        BY <3>1, <3>2
  <2> QED
    BY <2>1, <2>2, <2>3
<1>14. OkOnlyIfValidated' /\ RecordFollowsAnswer' /\ StatusInv'
  <2>1. \A d \in Conn : Past(d) => d # c
    BY <1>4 DEF Past
  <2> QED
    BY <1>0, <1>2, <1>4, <2>1, RecordsKept DEF IInv, OkOnlyIfValidated, ChunkFrame
<1> QED
    BY <1>6, <1>7, <1>8, <1>9, <1>10, <1>11, <1>13, <1>14 DEF IInv

\* The entry changes and the descriptor stays watched: the loop waits for a
\* chunk or for the second session query.
LEMMA KeepInv ==
    ASSUME IInv, NEW fd \in master, NEW entry, ChunkFrame(fd), ChunkOK(fd, entry),
           WatchedEntry(entry), entry.rec = fdConn[fd],
           socket_hashmap' = [socket_hashmap EXCEPT ![fd] = entry],
           UNCHANGED <<fdConn, master, reply, child>>,
           \/ at' = "select" /\ entry.session_status # "Not_Valid_session"
           \/ /\ at' = "user" /\ entry.op \notin {"unknown", "DownloadShared"}
              /\ fdConn[fd] \in validated'
    PROVE  IInv'
<1>0. TablesOK /\ fd \in FD /\ fdConn[fd] \in Conn /\ child[fdConn[fd]] = "none"
    BY TypeParts, WatchedFacts DEF IInv
<1>1. /\ socket_hashmap'[fd] = entry /\ entry # NoEntry
      /\ \A g \in FD \ {fd} : socket_hashmap'[g] = socket_hashmap[g]
      /\ UNCHANGED <<fdConn, master, reply, child>>
    BY <1>0 DEF TablesOK, ChunkOK
<1>2. \A d \in Conn : Placed(d)' = Placed(d) /\ (Past(d) => Past(d)')
    BY <1>1 DEF Past, Placed, ChunkFrame
<1>3. TypeOK'
  <2>1. TablesOK'
    BY <1>0 DEF TablesOK, ChunkFrame, ChunkOK
  <2> QED
    BY <2>1, TypeParts, PTL DEF ChunkFrame
<1>4. FreshInv' /\ SlotInv' /\ LoopInv'
  <2>1. FreshInv'
    <3>1. sent[fdConn[fd]] # 0 /\ fdConn[fd] \notin backlog
        BY WatchedFacts
    <3> QED
        BY <1>1, <1>2, <3>1 DEF IInv, FreshInv, ChunkFrame
  <2>2. SlotInv'
    BY <1>1, ZenonT(30) DEF IInv, SlotInv
  <2>3. LoopInv'
    BY <1>1 DEF LoopInv, ChunkFrame
  <2> QED
    BY <2>1, <2>2, <2>3
<1>5. EntryInv'
  <2>3. EntryOK(fd)'
    BY <1>0, <1>1 DEF EntryOK, ChunkOK
  <2> QED
    BY <2>3, <1>1, <1>2, OthersOK DEF EntryInv
<1>6. ChildInv' /\ ReadInv'
  <2>1. ChildInv'
    <3> SUFFICES ASSUME NEW d \in Conn, child[d] # "none"
                 PROVE  /\ Placed(d)'
                        /\ \A g \in master : fdConn[g] # d
                        /\ kind[d] = "DownloadShared" \/ d \in validated'
        BY <1>1 DEF ChildInv, ChunkFrame
    <3>1. /\ Placed(d) /\ (\A g \in master : fdConn[g] # d)
          /\ kind[d] = "DownloadShared" \/ d \in validated
        BY DEF IInv, ChildInv
    <3> QED
        BY <3>1, <1>2 DEF ChunkFrame
  <2>2. ReadOK(fd)'
    <3>1. OpOf(fdConn[fd])' = OpOf(fdConn[fd])
        BY <1>1 DEF OpOf, ChunkFrame
    <3>2. read'[fdConn[fd]] \in {0, 1} /\ entry.op = OpOf(fdConn[fd])
        BY DEF ChunkOK, WatchedEntry
    <3>3. entry.op = "Upload" /\ ~(at' = "user" /\ cur' = fd) =>
              entry.session_status = "Valid_session"
        BY DEF ChunkOK, ChunkFrame, Socket_data
    <3> QED
        BY <1>1, <3>1, <3>2, <3>3 DEF ReadOK
  <2>3. \A g \in master \ {fd} : /\ g \in FD /\ fdConn[g] \in Conn \ {fdConn[fd]}
                                 /\ (at = "user" /\ cur = g => at' = "user" /\ cur' = g)
    BY <1>0, WatchedFacts DEF IInv, SlotInv, ChunkFrame
  <2>4. \A g \in master \ {fd} : ReadOK(g)'
    BY <1>1, <2>3, ReadKept DEF ChunkFrame
  <2> QED
    BY <1>1, <2>1, <2>2, <2>4 DEF ReadInv
<1>7. WatchedIsServable' /\ OneAnswerer'
  <2>1. WatchedIsServable'
    BY <1>0, <1>1 DEF IInv, TablesOK, WatchedIsServable
  <2>2. OneAnswerer'
    BY <1>1 DEF IInv, OneAnswerer
  <2> QED
    BY <2>1, <2>2
<1>8. ActsForItsOwnRequest'
    BY <1>0, <1>1 DEF IInv, ActsForItsOwnRequest, ChunkOK
<1>9. OkOnlyIfValidated' /\ RecordFollowsAnswer' /\ StatusInv'
  <2>1. \A d \in Conn : Past(d) => d # fdConn[fd]
    BY <1>0 DEF Past, Placed
  <2> QED
    BY <1>1, <1>2, <2>1, RecordsKept DEF IInv, OkOnlyIfValidated, ChunkFrame
<1> QED
    BY <1>3, <1>4, <1>5, <1>6, <1>7, <1>8, <1>9 DEF IInv

LEMMA ChunkInv ==
    ASSUME IInv, NEW fd \in master, NEW entry, ChunkFrame(fd), ChunkOK(fd, entry),
           AfterChunk(fd, entry)
    PROVE  IInv'
<1>1. CASE Refuse(fd, entry) /\ at' = "select"
    BY <1>1, CloseInv DEF Refuse
<1>2. CASE Complete(fd, entry) /\ at' = "finish"
    BY <1>2, CloseInv DEF Complete
<1>3. CASE Fork(fd, entry) /\ at' = "select"
    BY <1>3, ForkInv
<1>4. CASE Wait(fd, entry) /\ at' = "select"
  <2>1. ~IsRefused(entry) /\ ~IsForked(entry) /\ ~entry.finished
    BY <1>4 DEF Wait
  <2>2. entry.op \in operation_type /\ entry.op # "unknown"
    BY DEF ChunkOK, Socket_data
  <2>3. WatchedEntry(entry) /\ entry.session_status # "Not_Valid_session"
    BY <2>1, <2>2 DEF IsRefused, IsForked, WatchedEntry, operation_type
  <2>4. entry.rec = fdConn[fd]
    BY <2>1 DEF ChunkOK
  <2> QED
    BY <1>4, <2>3, <2>4, KeepInv DEF Wait
<1> QED
    BY <1>1, <1>2, <1>3, <1>4 DEF AfterChunk

\* recv() counts a chunk; a watched connection has no more than its own.
LEMMA RecvFacts ==
    ASSUME IInv, NEW fd \in FD, Recv(fd)
    PROVE  /\ fd \in master /\ at = "select" /\ CountsOK'
           /\ \A d \in Conn \ {fdConn[fd]} : read'[d] = read[d]
           /\ read'[fdConn[fd]] = read[fdConn[fd]] + 1
           /\ read[fdConn[fd]] + 1 <= Chunks(fdConn[fd])
           /\ ReadOK(fd)
           /\ UNCHANGED <<kind, sent, backlog, gone, sessions>>
<1>1. fd \in master /\ at = "select" /\ UNCHANGED <<kind, sent, backlog, gone, sessions>>
    BY DEF Recv
<1>2. fdConn[fd] \in Conn /\ CountsOK /\ ReadOK(fd)
    BY <1>1, WatchedFacts, TypeParts DEF IInv, ReadInv
<1>3. CountsOK'
    BY <1>1, <1>2 DEF Recv, CountsOK, Chunks
<1>4. /\ \A d \in Conn \ {fdConn[fd]} : read'[d] = read[d]
      /\ read'[fdConn[fd]] = read[fdConn[fd]] + 1
    BY <1>2 DEF Recv, CountsOK
<1>5. read[fdConn[fd]] + 1 <= Chunks(fdConn[fd])
  <2>1. /\ read[fdConn[fd]] \in Int /\ sent[fdConn[fd]] \in Int
        /\ Chunks(fdConn[fd]) \in Int /\ sent[fdConn[fd]] <= Chunks(fdConn[fd])
    BY <1>2 DEF CountsOK, Chunks
  <2>2. read[fdConn[fd]] < sent[fdConn[fd]]
    BY DEF Recv
  <2> QED
    BY <2>1, <2>2
<1> QED
    BY <1>1, <1>2, <1>3, <1>4, <1>5

LEMMA RecvHeadersInv ==
    ASSUME IInv, NEW fd \in FD, RecvHeaders(fd)
    PROVE  IInv'
<1> PICK c \in Conn : c = fdConn[fd]
    BY RecvFacts, WatchedFacts DEF RecvHeaders
<1> DEFINE entry == [socket_hashmap[fd] EXCEPT !.op = OpOf(c), !.rec = c,
                         !.is_finished_processing_header = TRUE]
           refused == [entry EXCEPT !.session_status = "Not_Valid_session"]
<1>1. /\ fd \in master /\ at = "select" /\ CountsOK'
      /\ UNCHANGED <<kind, sent, backlog, gone, sessions, file_status>>
      /\ \A d \in Conn \ {fdConn[fd]} : read'[d] = read[d]
    BY RecvFacts DEF RecvHeaders
<1>2. /\ socket_hashmap[fd] \in Socket_data /\ socket_hashmap[fd].op = "unknown"
      /\ ~socket_hashmap[fd].finished
      /\ socket_hashmap[fd].session_status = "Not_Received_yet"
      /\ socket_hashmap[fd].rec = NoConn
    BY <1>1, WatchedFacts DEF RecvHeaders, WatchedEntry, IInv, EntryInv, EntryOK
<1>3. OpOf(c) \in operation_type \ {"unknown", "DownloadShared"} /\ read'[c] = 1
  <2>1. read[c] = 0
    BY <1>2, RecvFacts, ServerAssumption DEF RecvHeaders, ReadOK
  <2> QED
    BY <2>1, RecvFacts, OpOfFacts DEF RecvHeaders
<1>4. /\ entry \in Socket_data /\ entry.op = OpOf(c) /\ entry.rec = c /\ ~entry.finished
      /\ entry.session_status = "Not_Received_yet"
    BY <1>2, <1>3 DEF Socket_data, operation_type
<1>5. /\ refused \in Socket_data /\ refused.op = OpOf(c) /\ refused.rec = c /\ ~refused.finished
      /\ refused.session_status = "Not_Valid_session"
    BY <1>2, <1>3 DEF Socket_data, operation_type
<1>6. validated \subseteq Conn
    BY DEF IInv, TypeOK
<1>7. CASE SessionOf[c] \in sessions
  <2>1. /\ at' = "user" /\ cur' = fd /\ validated' = validated \cup {c}
        /\ socket_hashmap' = [socket_hashmap EXCEPT ![fd] = entry]
        /\ UNCHANGED <<fdConn, master, child, reply>>
    BY <1>7 DEF RecvHeaders
  <2>2. ChunkFrame(fd)
    BY <1>1, <1>6, <2>1 DEF ChunkFrame
  <2>3. ChunkOK(fd, entry) /\ WatchedEntry(entry)
    <3> HIDE DEF entry
    <3> QED
        BY <1>3, <1>4, <2>1 DEF ChunkOK, WatchedEntry
  <2> QED
    BY <1>1, <1>3, <1>4, <2>1, <2>2, <2>3, KeepInv
<1>8. CASE SessionOf[c] \notin sessions
  <2>1. AfterChunk(fd, refused) /\ UNCHANGED validated
    BY <1>8 DEF RecvHeaders
  <2>2. ChunkFrame(fd)
    BY <1>1, <1>6, <2>1 DEF ChunkFrame, AfterChunk
  <2>3. ChunkOK(fd, refused)
    BY <1>3, <1>5 DEF ChunkOK
  <2> QED
    BY <1>1, <2>1, <2>2, <2>3, ChunkInv
<1> QED
    BY <1>7, <1>8

LEMMA LookUpUserInv ==
    ASSUME IInv, LookUpUser
    PROVE  IInv'
<1> DEFINE status == IF socket_hashmap[cur].op = "Upload"
                        /\ SessionOf[socket_hashmap[cur].rec] \notin sessions
                     THEN "Not_Valid_session" ELSE "Valid_session"
           entry == [socket_hashmap[cur] EXCEPT !.session_status = status]
<1>1. /\ at = "user" /\ AfterChunk(cur, entry)
      /\ UNCHANGED <<kind, sent, read, backlog, gone, sessions, file_status, validated>>
    BY DEF LookUpUser, clients
<1>2. /\ cur \in master /\ fdConn[cur] \in validated
      /\ socket_hashmap[cur].op \notin {"unknown", "DownloadShared"}
      /\ socket_hashmap[cur].rec = fdConn[cur]
    BY <1>1 DEF IInv, LoopInv
<1>3. /\ socket_hashmap[cur] \in Socket_data /\ fdConn[cur] \in Conn
      /\ ~socket_hashmap[cur].finished
      /\ socket_hashmap[cur].op = OpOf(fdConn[cur]) /\ read[fdConn[cur]] \in {0, 1}
    BY <1>2, WatchedFacts DEF WatchedEntry, IInv, ReadInv, ReadOK
<1>4. /\ entry \in Socket_data /\ ~entry.finished /\ entry.rec = fdConn[cur]
      /\ entry.op \notin {"unknown", "DownloadShared"}
      /\ entry.op = OpOf(fdConn[cur])
      /\ entry.session_status \in {"Valid_session", "Not_Valid_session"}
    BY <1>2, <1>3 DEF Socket_data
<1>5. CountsOK'
    BY <1>1, TypeParts DEF IInv, CountsOK, Chunks
<1>6. ChunkFrame(cur)
    BY <1>1, <1>5 DEF ChunkFrame, AfterChunk, IInv, TypeOK
<1>7. ChunkOK(cur, entry)
    BY <1>1, <1>2, <1>3, <1>4 DEF ChunkOK
<1> QED
    BY <1>1, <1>2, <1>6, <1>7, ChunkInv

LEMMA RecvUncheckedInv ==
    ASSUME IInv, NEW fd \in FD, RecvUnchecked(fd)
    PROVE  IInv'
<1> PICK c \in Conn : c = fdConn[fd]
    BY RecvFacts, WatchedFacts DEF RecvUnchecked
<1> DEFINE entry == [socket_hashmap[fd] EXCEPT !.op = OpOf(c), !.rec = c]
<1>1. /\ fd \in master /\ at = "select" /\ CountsOK'
      /\ UNCHANGED <<kind, sent, backlog, gone, sessions>>
      /\ \A d \in Conn \ {fdConn[fd]} : read'[d] = read[d]
    BY RecvFacts DEF RecvUnchecked
<1>2. AfterChunk(fd, entry) /\ UNCHANGED <<file_status, validated>>
    BY DEF RecvUnchecked
<1>3. /\ socket_hashmap[fd] \in Socket_data /\ socket_hashmap[fd].op = "unknown"
      /\ ~socket_hashmap[fd].finished
      /\ socket_hashmap[fd].session_status = "Not_Received_yet"
      /\ socket_hashmap[fd].rec = NoConn
    BY <1>1, WatchedFacts DEF RecvUnchecked, WatchedEntry, IInv, EntryInv, EntryOK
<1>4. /\ OpOf(c) \in operation_type \ {"unknown", "Upload"}
      /\ OpOf(c) = "DownloadShared" => kind[c] = "DownloadShared"
      /\ read'[c] = 1
  <2>1. read[c] = 0
    BY <1>3, RecvFacts, ServerAssumption DEF RecvUnchecked, ReadOK
  <2> QED
    BY <2>1, RecvFacts, OpOfFacts DEF RecvUnchecked
<1>5. /\ entry \in Socket_data /\ entry.op = OpOf(c) /\ entry.rec = c /\ ~entry.finished
      /\ entry.session_status = "Not_Received_yet"
    BY <1>3, <1>4 DEF Socket_data, operation_type
<1>6. ChunkFrame(fd)
    BY <1>1, <1>2 DEF ChunkFrame, AfterChunk, IInv, TypeOK
<1>7. ChunkOK(fd, entry)
    BY <1>4, <1>5 DEF ChunkOK
<1> QED
    BY <1>1, <1>2, <1>6, <1>7, ChunkInv

LEMMA RecvMoreInv ==
    ASSUME IInv, NEW fd \in FD, RecvMore(fd)
    PROVE  IInv'
<1> PICK c \in Conn : c = fdConn[fd]
    BY RecvFacts, WatchedFacts DEF RecvMore
<1> DEFINE old == socket_hashmap[fd]
           entry == IF old.op # "Upload" THEN old
                    ELSE IF old.session_status = "Valid_session"
                    THEN [old EXCEPT !.finished = TRUE]
                    ELSE [old EXCEPT !.op = OpOf(c), !.rec = c]
<1>1. /\ fd \in master /\ at = "select" /\ CountsOK'
      /\ UNCHANGED <<kind, sent, backlog, gone, sessions>>
      /\ \A d \in Conn \ {fdConn[fd]} : read'[d] = read[d]
    BY RecvFacts DEF RecvMore
<1>2. AfterChunk(fd, entry) /\ UNCHANGED <<file_status, validated>>
    BY DEF RecvMore
<1>3. ChunkFrame(fd)
    BY <1>1, <1>2 DEF ChunkFrame, AfterChunk, IInv, TypeOK
<1>4. old \in Socket_data /\ WatchedEntry(old) /\ old.op # "unknown" /\ EntryOK(fd)
    BY <1>1, WatchedFacts DEF RecvMore, IInv, EntryInv, TypeOK, WatchedIsServable
<1>5. /\ old.rec \in Conn
      /\ old.rec # c =>
            Past(old.rec) /\ reply[old.rec] = "FAIL" /\ IsRefused(old) /\ ~old.finished
      /\ old.session_status = "Valid_session" /\ old.op # "NotExist" =>
            c \in validated /\ old.rec = c
  <2>1. old.rec \in Conn
    BY <1>4 DEF EntryOK
  <2>2. old.rec # c =>
            Past(old.rec) /\ reply[old.rec] = "FAIL" /\ IsRefused(old) /\ ~old.finished
    BY <1>1, <1>4, <2>1, ServerAssumption DEF EntryOK, Finishing, LeftEntry
  <2>3. old.session_status = "Valid_session" /\ old.op # "NotExist" =>
            c \in validated /\ old.rec = c
    BY <1>4, ServerAssumption DEF EntryOK, IInv, ActsForItsOwnRequest
  <2> QED
    BY <2>1, <2>2, <2>3
<1>6. /\ read[c] \in {0, 1} /\ read'[c] = read[c] + 1
      /\ read[c] + 1 <= Chunks(c)
      /\ old.rec # c => read[c] = 0
      /\ old.rec = c => old.op = OpOf(c)
      /\ old.rec = c /\ old.op = "Upload" => old.session_status = "Valid_session"
    BY <1>1, RecvFacts DEF RecvMore, ReadOK
<1>7. ChunkOK(fd, entry)
  <2>1. CASE old.op # "Upload"
    <3>1. read'[c] = 1
      <4>1. CASE old.rec # c
        BY <4>1, <1>6
      <4>2. CASE old.rec = c
        <5>1. Chunks(c) = 1
            BY <4>2, <2>1, <1>6, OpOfFacts DEF Chunks
        <5> QED
            BY <5>1, <1>6
      <4> QED
        BY <4>1, <4>2
    <3>2. entry = old
        BY <2>1
    <3> HIDE DEF entry
    <3> QED
        BY <1>2, <1>4, <1>5, <1>6, <2>1, <3>1, <3>2 DEF ChunkOK, WatchedEntry
  <2>2. CASE old.op = "Upload" /\ old.session_status = "Valid_session"
    <3>1. /\ entry \in Socket_data /\ entry.op = "Upload" /\ entry.rec = c
          /\ entry.session_status = "Valid_session" /\ entry.finished
        BY <1>4, <1>5, <2>2 DEF Socket_data
    <3>2. OpOf(c) = "Upload"
        BY <1>5, <1>6, <2>2
    <3> HIDE DEF entry
    <3> QED
        BY <1>2, <1>5, <2>2, <3>1, <3>2 DEF ChunkOK
  <2>3. CASE old.op = "Upload" /\ old.session_status # "Valid_session"
    <3>1. /\ OpOf(c) \in operation_type \ {"unknown"}
          /\ OpOf(c) = "DownloadShared" => kind[c] = "DownloadShared"
        BY OpOfFacts
    <3>2. old.rec # c /\ old.session_status = "Not_Valid_session" /\ read'[c] = 1
        BY <2>3, <1>5, <1>6 DEF IsRefused
    <3>3. /\ entry \in Socket_data /\ entry.op = OpOf(c) /\ entry.rec = c
          /\ entry.session_status = "Not_Valid_session" /\ ~entry.finished
        BY <1>4, <2>3, <3>1, <3>2 DEF Socket_data, WatchedEntry
    <3> HIDE DEF entry
    <3> QED
        BY <3>1, <3>2, <3>3 DEF ChunkOK
  <2> QED
    BY <2>1, <2>2, <2>3
<1> QED
    BY <1>1, <1>2, <1>3, <1>7, ChunkInv

LEMMA FinishUploadInv ==
    ASSUME IInv, FinishUpload
    PROVE  IInv'
<1>0. CountsOK /\ TablesOK
    BY TypeParts DEF IInv
<1> PICK c \in Conn : c = socket_hashmap[cur].rec
    BY DEF IInv, LoopInv, FinishUpload
<1>1. /\ at = "finish" /\ cur \notin master /\ fdConn[cur] = NoConn /\ reply[c] = "OK"
      /\ at' = "select" /\ file_status' = [file_status EXCEPT ![c] = "Success"]
      /\ socket_hashmap' = [socket_hashmap EXCEPT ![cur] = NoEntry]
      /\ UNCHANGED <<kind, sent, read, backlog, gone, sessions, fdConn, master, cur, child,
                     reply, validated>>
    BY DEF IInv, LoopInv, FinishUpload, clients
<1>2. /\ socket_hashmap'[cur] = NoEntry
      /\ \A g \in FD \ {cur} : socket_hashmap'[g] = socket_hashmap[g] /\ ~Finishing(g)
      /\ file_status'[c] = "Success"
      /\ \A d \in Conn \ {c} : file_status'[d] = file_status[d]
    BY <1>0, <1>1 DEF TablesOK, Finishing
<1>3. \A d \in Conn : Placed(d)' = Placed(d) /\ (Past(d) => Past(d)')
    BY <1>1 DEF Past, Placed
<1>4. TypeOK'
  <2>1. CountsOK'
    BY <1>0, <1>1 DEF CountsOK, Chunks
  <2>2. TablesOK'
    BY <1>0, <1>1 DEF TablesOK
  <2> QED
    BY <2>1, <2>2, TypeParts, PTL
<1>5. FreshInv' /\ SlotInv' /\ LoopInv'
  <2>1. FreshInv'
    BY <1>1, <1>3 DEF IInv, FreshInv
  <2>2. SlotInv' /\ LoopInv'
    BY <1>1 DEF IInv, SlotInv, LoopInv
  <2> QED
    BY <2>1, <2>2
<1>6. EntryInv'
  <2> SUFFICES ASSUME NEW g \in FD \ {cur}, socket_hashmap[g] # NoEntry, EntryOK(g)
               PROVE  EntryOK(g)'
    BY <1>2 DEF IInv, EntryInv
  <2>1. socket_hashmap[g] \in Socket_data
    BY <1>0 DEF TablesOK
  <2>2. /\ socket_hashmap[g].rec # NoConn /\ socket_hashmap[g].rec # fdConn[g] =>
              Past(socket_hashmap[g].rec)' /\ reply[socket_hashmap[g].rec] = "FAIL"
    BY <1>2, <1>3, <2>1 DEF EntryOK, Socket_data
  <2> QED
    BY <1>1, <1>2, <2>2 DEF EntryOK
<1>7. ChildInv' /\ StatusInv' /\ ReadInv'
  <2>1. ChildInv'
    BY <1>1, <1>3 DEF IInv, ChildInv
  <2>2. StatusInv'
    <3> SUFFICES ASSUME NEW d \in Conn,
                        file_status'[d] = "Failed" \/ (file_status'[d] = "Success" /\ reply'[d] # "OK")
                 PROVE  Past(d)'
        BY DEF StatusInv
    <3>1. d # c /\ reply'[d] = reply[d]
        BY <1>1, <1>2
    <3>2. Past(d)
        BY <3>1, <1>2 DEF IInv, StatusInv
    <3> QED
        BY <3>2, <1>3
  <2>3. \A g \in master : ReadOK(g)'
    BY <1>0, <1>1, <1>2, ReadKept DEF TablesOK
  <2> QED
    BY <2>1, <2>2, <2>3, <1>1 DEF ReadInv
<1>8. WatchedIsServable' /\ OneAnswerer' /\ ActsForItsOwnRequest'
  <2>1. WatchedIsServable'
    BY <1>0, <1>1, <1>2 DEF IInv, TablesOK, WatchedIsServable
  <2>2. OneAnswerer'
    BY <1>1 DEF IInv, OneAnswerer
  <2>3. ActsForItsOwnRequest'
    BY <1>1, <1>2 DEF IInv, ActsForItsOwnRequest
  <2> QED
    BY <2>1, <2>2, <2>3
<1>9. OkOnlyIfValidated'
    BY <1>1 DEF IInv, OkOnlyIfValidated
<1>10. RecordFollowsAnswer'
  <2> SUFFICES ASSUME NEW d \in Conn
               PROVE  /\ file_status'[d] = "Success" =>
                            reply[d] = "OK" \/ (d \in gone /\ read[d] < Chunks(d))
                      /\ file_status'[d] = "Failed" => reply[d] # "OK"
    BY <1>1 DEF RecordFollowsAnswer, Chunks
  <2>1. CASE d = c
    BY <2>1, <1>1, <1>2
  <2>2. CASE d # c
    BY <2>2, <1>2 DEF IInv, RecordFollowsAnswer
  <2> QED
    BY <2>1, <2>2
<1> QED
    BY <1>4, <1>5, <1>6, <1>7, <1>8, <1>9, <1>10 DEF IInv

\* No watched entry is complete, so that what a hang-up marks, Failed or Success,
\* is a record without its file: the connection's own or that of one that was
\* answered FAIL.
LEMMA HangUpInv ==
    ASSUME IInv, NEW fd \in FD, HangUp(fd)
    PROVE  IInv'
<1> PICK c \in Conn : c = fdConn[fd]
    BY WatchedFacts DEF HangUp
<1>a. Release(fd) /\ c \in gone /\ read[c] = sent[c] /\ ReadOK(fd)
    BY DEF HangUp, IInv, ReadInv
<1> DEFINE entry == socket_hashmap[fd]
<1>0. /\ CountsOK /\ TablesOK
      /\ child[c] = "none" /\ reply[c] = "none" /\ sent[c] # 0 /\ c \notin backlog
      /\ entry \in Socket_data /\ ~entry.finished /\ EntryOK(fd)
    BY TypeParts, WatchedFacts DEF IInv, HangUp, EntryInv, WatchedEntry, WatchedIsServable
<1>1. /\ at = "select" /\ fd \in master
      /\ fdConn' = [fdConn EXCEPT ![fd] = NoConn] /\ master' = master \ {fd}
      /\ socket_hashmap' = [socket_hashmap EXCEPT ![fd] = NoEntry]
      /\ UNCHANGED <<kind, sent, read, backlog, gone, sessions, at, cur, child, reply, validated>>
    BY <1>a DEF HangUp, Release, CloseFd, clients
<1>2. /\ fdConn'[fd] = NoConn /\ socket_hashmap'[fd] = NoEntry
      /\ \A g \in FD \ {fd} : fdConn'[g] = fdConn[g] /\ socket_hashmap'[g] = socket_hashmap[g]
      /\ \A g \in FD \ {fd} : fdConn[g] # c
    BY <1>0, <1>1 DEF TablesOK, IInv, SlotInv
<1>3. /\ \A d \in Conn \ {c} : Placed(d)' = Placed(d)
      /\ ~Placed(c)' /\ Placed(c)
    BY <1>2 DEF Placed
<1>4. (\A d \in Conn : Past(d) => Past(d)') /\ Past(c)'
    BY <1>0, <1>1, <1>3 DEF Past
<1>5. /\ file_status' \in [Conn -> {"Pending", "Success", "Failed"}]
      /\ \A d \in Conn : \/ file_status'[d] = file_status[d]
                         \/ /\ Past(d)' /\ reply[d] # "OK"
                            /\ file_status'[d] = "Failed"
                         \/ /\ Past(d)' /\ reply[d] # "OK"
                            /\ d \in gone /\ read[d] < Chunks(d)
                            /\ file_status'[d] = "Success"
  <2>1. CASE entry.op # "Upload"
    <3>1. UNCHANGED file_status
        BY <2>1, <1>a DEF Release
    <3> QED
        BY <3>1, <1>0 DEF TablesOK
  <2>2. CASE entry.op = "Upload"
    <3>1. PICK status \in StatusAtEnd(entry) :
              file_status' = [file_status EXCEPT ![entry.rec] = status]
        BY <2>2, <1>a DEF Release
    <3>2. status \in {"Success", "Failed"}
        BY DEF StatusAtEnd
    <3>3. entry.rec = c
      <4>1. read[c] # 0
        BY <1>0, <1>a
      <4> QED
        BY <4>1, <1>a DEF ReadOK
    <3>4. read[c] < Chunks(c)
      <4>1. Chunks(c) = 2
        BY <2>2, <3>3, <1>a, OpOfFacts DEF ReadOK, Chunks
      <4> QED
        BY <4>1, <1>a DEF ReadOK
    <3>5. /\ file_status'[c] = status
          /\ \A d \in Conn \ {c} : file_status'[d] = file_status[d]
          /\ file_status' \in [Conn -> {"Pending", "Success", "Failed"}]
        BY <3>1, <3>2, <3>3, <1>0 DEF TablesOK
    <3> QED
        BY <3>2, <3>4, <3>5, <1>0, <1>4, <1>a
  <2> QED
    BY <2>1, <2>2
<1>6. TypeOK'
  <2>1. CountsOK'
    BY <1>0, <1>1 DEF CountsOK, Chunks
  <2>2. TablesOK'
    BY <1>0, <1>1, <1>5 DEF TablesOK
  <2> QED
    BY <2>1, <2>2, TypeParts, PTL
<1>7. FreshInv' /\ SlotInv' /\ LoopInv'
  <2>1. FreshInv'
    BY <1>0, <1>1, <1>3 DEF IInv, FreshInv
  <2>2. SlotInv'
    BY <1>2 DEF IInv, SlotInv
  <2>3. LoopInv'
    BY <1>1 DEF LoopInv
  <2> QED
    BY <2>1, <2>2, <2>3
<1>8. EntryInv'
  <2> SUFFICES ASSUME NEW g \in FD \ {fd}, socket_hashmap[g] # NoEntry, EntryOK(g)
               PROVE  EntryOK(g)'
    BY <1>2 DEF IInv, EntryInv
  <2>1. socket_hashmap[g] \in Socket_data
    BY <1>0 DEF TablesOK
  <2>2. /\ socket_hashmap[g].rec # NoConn /\ socket_hashmap[g].rec # fdConn[g] =>
              Past(socket_hashmap[g].rec)' /\ reply[socket_hashmap[g].rec] = "FAIL"
    BY <1>1, <1>4, <2>1 DEF EntryOK, Socket_data, Finishing
  <2> QED
    BY <1>1, <1>2, <2>2 DEF EntryOK, Finishing
<1>9. ChildInv' /\ StatusInv' /\ ReadInv'
  <2>1. ASSUME NEW d \in Conn, child[d] # "none"
        PROVE  Placed(d)' /\ \A g \in master' : fdConn'[g] # d
    <3>1. d # c /\ Placed(d) /\ \A g \in master : fdConn[g] # d
        BY <2>1, <1>0 DEF IInv, ChildInv
    <3>2. \A g \in master' : fdConn'[g] = fdConn[g] /\ g \in master
        BY <1>0, <1>1, <1>2 DEF TablesOK
    <3> QED
        BY <3>1, <3>2, <1>3
  <2>2. ChildInv'
    BY <2>1, <1>1 DEF IInv, ChildInv
  <2>3. StatusInv'
    BY <1>1, <1>4, <1>5 DEF IInv, StatusInv
  <2>4. \A g \in master' : /\ g \in master /\ g # fd /\ fdConn'[g] = fdConn[g]
                           /\ socket_hashmap'[g] = socket_hashmap[g]
    BY <1>0, <1>1, <1>2 DEF TablesOK
  <2>5. ReadInv'
    BY <2>4, <1>1, ReadKept DEF ReadInv
  <2> QED
    BY <2>2, <2>3, <2>5
<1>10. WatchedIsServable' /\ OneAnswerer' /\ ActsForItsOwnRequest'
  <2>1. WatchedIsServable'
    BY <1>0, <1>1, <1>2 DEF IInv, TablesOK, WatchedIsServable
  <2>2. \A g \in FD : fdConn'[g] # NoConn =>
            g # fd /\ fdConn'[g] = fdConn[g] /\ (g \in master' <=> g \in master)
    BY <1>1, <1>2
  <2>3. OneAnswerer'
    BY <1>1, <2>2 DEF IInv, OneAnswerer
  <2>4. ActsForItsOwnRequest'
    <3> SUFFICES ASSUME NEW g \in FD, fdConn'[g] # NoConn,
                        \/ /\ socket_hashmap'[g].session_status = "Valid_session"
                           /\ socket_hashmap'[g].op # "NotExist"
                        \/ child[fdConn'[g]] # "none"
                 PROVE  socket_hashmap'[g].rec = fdConn'[g]
        BY <1>1 DEF ActsForItsOwnRequest
    <3>1. g # fd /\ fdConn'[g] = fdConn[g] /\ socket_hashmap'[g] = socket_hashmap[g]
        BY <1>2, <2>2
    <3> QED
        BY <3>1 DEF IInv, ActsForItsOwnRequest
  <2> QED
    BY <2>1, <2>3, <2>4
<1>11. OkOnlyIfValidated'
    BY <1>1 DEF IInv, OkOnlyIfValidated
<1>12. RecordFollowsAnswer'
  <2> SUFFICES ASSUME NEW d \in Conn
               PROVE  /\ file_status'[d] = "Success" =>
                            reply[d] = "OK" \/ (d \in gone /\ read[d] < Chunks(d))
                      /\ file_status'[d] = "Failed" => reply[d] # "OK"
    BY <1>1 DEF RecordFollowsAnswer, Chunks
  <2>1. /\ file_status[d] = "Success" => reply[d] = "OK" \/ (d \in gone /\ read[d] < Chunks(d))
        /\ file_status[d] = "Failed" => reply[d] # "OK"
    BY DEF IInv, RecordFollowsAnswer
  <2> QED
    BY <2>1, <1>5
<1> QED
    BY <1>6, <1>7, <1>8, <1>9, <1>10, <1>11, <1>12 DEF IInv

\* The connection of a running child is neither watched nor answered yet, and
\* no record is waiting for its answer.
LEMMA ChildDoneInv ==
    ASSUME IInv, NEW c \in Conn, ChildDone(c)
    PROVE  IInv'
<1>0. CountsOK /\ TablesOK
    BY TypeParts DEF IInv
<1> PICK answer \in {"OK", "NOT FOUND"} : reply' = [reply EXCEPT ![c] = answer]
    BY DEF ChildDone
<1>1. /\ child[c] = "running" /\ child' = [child EXCEPT ![c] = "done"]
      /\ UNCHANGED <<kind, sent, read, backlog, gone, sessions, fdConn, master,
                     socket_hashmap, at, cur, file_status, validated>>
    BY DEF ChildDone, clients, loop
<1>2. /\ Placed(c) /\ (\A fd \in master : fdConn[fd] # c)
      /\ kind[c] = "DownloadShared" \/ c \in validated
    BY <1>1 DEF IInv, ChildInv
<1>3. reply[c] = "none" /\ c # NoConn
    BY <1>1, <1>2 DEF IInv, OneAnswerer, Placed, ServerAssumption
<1>4. /\ reply'[c] = answer /\ child'[c] = "done"
      /\ \A d \in Conn \ {c} : reply'[d] = reply[d] /\ child'[d] = child[d]
    BY <1>0, <1>1 DEF TablesOK
<1>5. \A d \in Conn : Placed(d)' = Placed(d) /\ (Past(d) => Past(d)' /\ d # c)
    BY <1>1, <1>2 DEF Past, Placed
<1>6. TypeOK'
  <2>1. CountsOK'
    BY <1>0, <1>1 DEF CountsOK, Chunks
  <2>2. TablesOK'
    BY <1>0, <1>1 DEF TablesOK
  <2> QED
    BY <2>1, <2>2, TypeParts, PTL
<1>7. FreshInv' /\ SlotInv' /\ LoopInv'
  <2>1. FreshInv'
    BY <1>1, <1>2, <1>4, <1>5 DEF IInv, FreshInv
  <2>2. SlotInv'
    BY <1>1 DEF IInv, SlotInv
  <2>3. LoopInv'
    BY <1>1, <1>3, <1>4 DEF IInv, LoopInv
  <2> QED
    BY <2>1, <2>2, <2>3
<1>8. EntryInv'
  <2> SUFFICES ASSUME NEW g \in FD, socket_hashmap[g] # NoEntry, EntryOK(g)
               PROVE  EntryOK(g)'
    BY <1>1 DEF IInv, EntryInv
  <2>1. socket_hashmap[g] \in Socket_data
    BY <1>0 DEF TablesOK
  <2>2. /\ socket_hashmap[g].rec # NoConn /\ socket_hashmap[g].rec # fdConn[g] =>
              \/ Finishing(g)
              \/ Past(socket_hashmap[g].rec)' /\ reply'[socket_hashmap[g].rec] = "FAIL"
    BY <1>1, <1>4, <1>5, <2>1 DEF EntryOK, Socket_data
  <2> QED
    BY <1>1, <2>2 DEF EntryOK, Finishing
<1>9. ChildInv' /\ ReadInv' /\ RecordFollowsAnswer' /\ StatusInv'
  <2>1. ChildInv'
    BY <1>1, <1>2, <1>4, <1>5 DEF IInv, ChildInv
  <2>2. ReadInv'
    BY <1>1, ReadSame DEF loop
  <2>3. \A d \in Conn : reply[d] = "OK" => reply'[d] = "OK"
    BY <1>3, <1>4
  <2>4. RecordFollowsAnswer' /\ StatusInv'
    BY <1>1, <1>4, <1>5, <2>3, RecordsKept
  <2> QED
    BY <2>1, <2>2, <2>4
<1>10. WatchedIsServable' /\ OneAnswerer' /\ ActsForItsOwnRequest'
  <2>1. WatchedIsServable'
    BY <1>1 DEF IInv, WatchedIsServable
  <2> SUFFICES ASSUME NEW g \in FD, fdConn[g] # NoConn
               PROVE  /\ g \in master => child'[fdConn[g]] = "none" /\ reply'[fdConn[g]] = "none"
                      /\ g \notin master => child'[fdConn[g]] # "none"
                      /\ child'[fdConn[g]] = "running" => reply'[fdConn[g]] = "none"
                      /\ child'[fdConn[g]] # "none" <=> child[fdConn[g]] # "none"
    BY <1>1, <2>1, ZenonT(30) DEF IInv, OneAnswerer, ActsForItsOwnRequest
  <2>2. fdConn[g] \in Conn
    BY <1>0 DEF TablesOK
  <2> QED
    BY <2>2, <1>1, <1>2, <1>4 DEF IInv, OneAnswerer
<1>11. OkOnlyIfValidated'
    BY <1>1, <1>2, <1>4 DEF IInv, OkOnlyIfValidated
<1> QED
    BY <1>6, <1>7, <1>8, <1>9, <1>10, <1>11 DEF IInv

-----------------------------------------------------------------------------
LEMMA NextInv == IInv /\ [Next]_vars => IInv'
<1> SUFFICES ASSUME IInv, [Next]_vars PROVE IInv'
    OBVIOUS
<1>1. ASSUME NEW c \in Conn, Connect(c) PROVE IInv'
    BY <1>1, ConnectInv
<1>2. ASSUME NEW c \in Conn, SendFile(c) \/ Leave(c) PROVE IInv'
    BY <1>2, ClientInv
<1>3. ASSUME NEW s \in Session, Logout(s) PROVE IInv'
    BY <1>3, ClientInv
<1>4. ASSUME NEW c \in Conn, Accept(c) PROVE IInv'
    BY <1>4, AcceptInv
<1>5. ASSUME NEW c \in Conn, ChildDone(c) PROVE IInv'
    BY <1>5, ChildDoneInv
<1>6. ASSUME NEW fd \in FD, Serve(fd) PROVE IInv'
    BY <1>6, RecvHeadersInv, RecvUncheckedInv, RecvMoreInv, HangUpInv DEF Serve
<1>7. CASE LookUpUser
    BY <1>7, LookUpUserInv
<1>8. CASE FinishUpload
    BY <1>8, FinishUploadInv
<1>9. CASE UNCHANGED vars
  <2>1. CountsOK' /\ TablesOK'
    BY <1>9, TypeParts DEF IInv, CountsOK, TablesOK, vars, clients, loop, Chunks
  <2>2. TypeOK'
    BY <2>1, TypeParts, PTL
  <2>3. FreshInv' /\ SlotInv' /\ LoopInv' /\ ChildInv'
    BY <1>9 DEF IInv, FreshInv, SlotInv, LoopInv, ChildInv, Placed, vars, clients, loop
  <2>4. EntryInv'
    <3> SUFFICES ASSUME NEW fd \in FD, EntryOK(fd)
                 PROVE  EntryOK(fd)'
        BY <1>9 DEF IInv, EntryInv, vars, loop
    <3> QED
        BY <1>9 DEF EntryOK, Finishing, Placed, Past, vars, clients, loop
  <2>5. WatchedIsServable' /\ OneAnswerer' /\ ActsForItsOwnRequest'
    BY <1>9 DEF IInv, WatchedIsServable, OneAnswerer, ActsForItsOwnRequest, vars, clients, loop
  <2>6. OkOnlyIfValidated'
    BY <1>9 DEF IInv, OkOnlyIfValidated, vars, clients, loop
  <2>7. \A c \in Conn : Past(c) => Past(c)'
    BY <1>9 DEF Past, Placed, vars, clients, loop
  <2>8. RecordFollowsAnswer' /\ StatusInv' /\ ReadInv'
    BY <1>9, <2>7, RecordsKept, ReadSame DEF vars, clients, loop
  <2> QED
    BY <2>2, <2>3, <2>4, <2>5, <2>6, <2>8 DEF IInv
<1> QED
    BY <1>1, <1>2, <1>3, <1>4, <1>5, <1>6, <1>7, <1>8, <1>9 DEF Next

\* The inductive invariant holds in every reachable state: it is what the loop,
\* the map and the children keep for each other.
THEOREM ServerInvariant == Spec => []IInv
    BY InitInv, NextInv, PTL DEF Spec

\* Variables keep their types.
THEOREM TypeCorrect == Spec => []TypeOK
    BY ServerInvariant, PTL DEF IInv

\* Every descriptor handed to select() is open and has a map entry.
THEOREM TablesAgree == Spec => []WatchedIsServable
    BY ServerInvariant, PTL DEF IInv

\* No connection is answered twice, by the loop and a child or by two passes.
THEOREM AnsweredOnce == Spec => []OneAnswerer
    BY ServerInvariant, PTL DEF IInv

\* No connection acts with the session or the file of an earlier one that had
\* its descriptor; what the entry of an unknown operation leaves is refused.
THEOREM OwnRequest == Spec => []ActsForItsOwnRequest
    BY ServerInvariant, PTL DEF IInv

\* Nothing but a shared download succeeds without a session.
THEOREM OkIsValidated == Spec => []OkOnlyIfValidated
    BY ServerInvariant, PTL DEF IInv

\* The stored status of an upload never contradicts its answer, but for the
\* Success of a client that left before its file was read.
THEOREM RecordsCorrect == Spec => []RecordFollowsAnswer
    BY ServerInvariant, PTL DEF IInv
=============================================================================
