------------------------- MODULE FileRequestsProofs -------------------------
(***************************************************************************)
(* The invariants of FileRequests, for every number of requests, sizes of  *)
(* files and crashes.                                                      *)
(***************************************************************************)
EXTENDS FileRequests, TLAPS

FileRecord == [operation_type : {"Upload", "Download"},
               file_status : {"Pending", "Success", "Failed",
                              "SUCCESS_DOWNLOAD", "FAIL_DOWNLOAD"}]

\* A handler has a record from its look-up or insert on, of its own kind; an
\* upload never gets as far as the backend without one.
HandlerOK(r) ==
    /\ handler[r] \in {"idle", "insert", "unanswered"} => objid[r] = 0
    /\ handler[r] \in {"idle", "insert", "unanswered", "send"} =>
          backend[r] = "none" /\ reply[r] = "none"
    /\ handler[r] \in {"send", "piped"} \/ backend[r] # "none" =>
          objid[r] # 0 \/ operation_type[r] = "Download"
    /\ objid[r] # 0 => files_table[objid[r]].operation_type = operation_type[r]

\* What a transfer has received, opened and answered at each place.
TransferOK(r) ==
    /\ backend[r] \in {"none", "connected"} => received[r] = 0 /\ stream[r] = "unopened"
    /\ backend[r] = "none" => reply[r] \in {"none", "ERROR"}
    /\ backend[r] \in {"connected", "receiving", "sending"} => reply[r] = "none"
    /\ backend[r] = "receiving" =>
          received[r] < file_size[r] \/ (received[r] = 0 /\ file_size[r] = 0)
    /\ backend[r] \in {"receiving", "finishing"} => operation_type[r] = "Upload"
    /\ backend[r] = "finishing" => reply[r] = "OK"
    /\ backend[r] \in {"sending", "sent"} => operation_type[r] = "Download" /\ objid[r] # 0
    /\ stream[r] # "unopened" => operation_type[r] = "Upload"
    /\ reply[r] = "OK" /\ operation_type[r] = "Upload" =>
          /\ backend[r] \in {"finishing", "closed", "dead"}
          /\ received[r] = file_size[r] /\ flushed[r] = file_size[r]

\* The file holds what the upload that truncated it last has flushed, and
\* nobody else is writing, unless that upload was disturbed.
FileOK(r) ==
    last = r =>
        /\ stream[r] = "open"
        /\ r \notin disturbed =>
              /\ file = [b \in Block |-> IF b <= flushed[r] THEN r ELSE NoReq]
              /\ \A q \in Req \ {r} : backend[q] = "receiving" => stream[q] = "failed"

\* Without a race, who is about to insert a record is alone and right to do so.
InsertOK(r) ==
    ~raced /\ handler[r] = "insert" =>
        /\ PendingFor(r) = {}
        /\ \A q \in Req \ {r} : handler[q] = "insert" => operation_type[q] # operation_type[r]

\* The witnesses of RecordTellsOutcome: their answers, or leavings, are final.
WitnessOK(i) ==
    /\ files_table[i].file_status = "Success" =>
          \E r \in Req : objid[r] = i /\ (reply[r] = "OK" \/ LeftAtZero(r))
    /\ files_table[i].file_status = "Failed" =>
          \E r \in Req : objid[r] = i /\ backend[r] = "closed" /\ reply[r] = "none"

\* What one upload alone made of its record, and why one is still Pending.
OutcomeOK(r) ==
    /\ /\ operation_type[r] = "Upload" /\ reply[r] = "OK" /\ backend[r] = "closed"
       /\ ~Sharing(r)
       => files_table[objid[r]].file_status = "Success"
    /\ /\ backend[r] = "closed" /\ objid[r] # 0
       /\ files_table[objid[r]].file_status = "Pending"
       => \/ reply[r] \in {"FAIL", "NOT FOUND"}
          \/ reply[r] = "none" /\ received[r] = 0 /\ stream[r] = "unopened"

TypeInv == TypeOK /\ flushed \in [Req -> 0..MaxBlocks]
HandlerInv  == \A r \in Req : HandlerOK(r)
TransferInv == \A r \in Req : TransferOK(r)
FileInv     == \A r \in Req : FileOK(r)
InsertInv   == OnePendingRecord /\ \A r \in Req : InsertOK(r)
StatusInv   == (\A i \in DOMAIN files_table : WitnessOK(i)) /\ \A r \in Req : OutcomeOK(r)

IInv == TypeInv /\ HandlerInv /\ TransferInv /\ FileInv /\ InsertInv /\ StatusInv

USE FileRequestsAssumption

-----------------------------------------------------------------------------
(***************************************************************************)
(* The table of records.                                                   *)
(***************************************************************************)

LEMMA TableType ==
    ASSUME TypeInv
    PROVE  /\ files_table \in Seq(FileRecord) /\ DOMAIN files_table = 1..Len(files_table)
           /\ Len(files_table) \in Nat /\ \A i \in DOMAIN files_table : files_table[i] \in FileRecord
<1>1. files_table \in Seq(FileRecord)
    BY DEF TypeInv, TypeOK, FileRecord
<1> QED
    BY <1>1

\* No step takes a record away, changes its kind or makes it Pending again.
TableKept ==
    /\ files_table' \in Seq(FileRecord) /\ Len(files_table) <= Len(files_table')
    /\ \A i \in DOMAIN files_table :
          /\ i \in DOMAIN files_table'
          /\ files_table'[i].operation_type = files_table[i].operation_type
          /\ files_table'[i].file_status = "Pending" => files_table[i].file_status = "Pending"

LEMMA SameTable ==
    ASSUME TypeInv, UNCHANGED files_table
    PROVE  TableKept
BY TableType DEF TableKept

\* SetStatus changes the status of the request's record and nothing else.
LEMMA StatusSet ==
    ASSUME TypeInv, NEW r \in Req, objid[r] # 0,
           NEW status \in {"Success", "Failed", "SUCCESS_DOWNLOAD", "FAIL_DOWNLOAD"},
           SetStatus(r, status)
    PROVE  /\ TableKept /\ DOMAIN files_table' = DOMAIN files_table
           /\ objid[r] \in DOMAIN files_table /\ files_table'[objid[r]].file_status = status
           /\ \A i \in DOMAIN files_table \ {objid[r]} : files_table'[i] = files_table[i]
<1> DEFINE old == files_table[objid[r]]
           new == [old EXCEPT !.file_status = status]
<1>1. objid[r] \in DOMAIN files_table /\ objid[r] \in 1..Len(files_table)
  <2>1. objid[r] \in 0..Len(files_table)
    BY DEF TypeInv, TypeOK
  <2> QED
    BY <2>1, TableType
<1>2. files_table' = [files_table EXCEPT ![objid[r]] = new]
    BY DEF SetStatus
<1>3. old \in FileRecord
    BY <1>1, TableType
<1>4. new \in FileRecord /\ new.operation_type = old.operation_type /\ new.file_status = status
    BY <1>3 DEF FileRecord
<1> HIDE DEF new, old
<1>5. /\ files_table' \in Seq(FileRecord) /\ Len(files_table') = Len(files_table)
      /\ DOMAIN files_table' = DOMAIN files_table
    BY <1>1, <1>2, <1>4, TableType
<1>6. /\ files_table'[objid[r]] = new
      /\ \A i \in DOMAIN files_table \ {objid[r]} : files_table'[i] = files_table[i]
    BY <1>1, <1>2, TableType
<1>7. TableKept
    BY <1>4, <1>5, <1>6, TableType DEF TableKept, old
<1> QED
    BY <1>1, <1>4, <1>5, <1>6, <1>7

\* InsertRecord adds one record, and leaves the others alone.
LEMMA RecordAdded ==
    ASSUME TypeInv, NEW op \in {"Upload", "Download"},
           files_table' = Append(files_table, [operation_type |-> op, file_status |-> "Pending"])
    PROVE  /\ TableKept
           /\ Len(files_table') = Len(files_table) + 1
           /\ DOMAIN files_table' = DOMAIN files_table \cup {Len(files_table')}
           /\ Len(files_table') \notin DOMAIN files_table
           /\ files_table'[Len(files_table')] = [operation_type |-> op, file_status |-> "Pending"]
           /\ \A i \in DOMAIN files_table : files_table'[i] = files_table[i]
<1> DEFINE new == [operation_type |-> op, file_status |-> "Pending"]
<1>1. new \in FileRecord
    BY DEF FileRecord
<1> HIDE DEF new
<1>2. files_table' = Append(files_table, new)
    BY DEF new
<1>3. /\ files_table' \in Seq(FileRecord) /\ Len(files_table') = Len(files_table) + 1
      /\ files_table'[Len(files_table')] = new
      /\ \A i \in 1..Len(files_table) : files_table'[i] = files_table[i]
    BY <1>1, <1>2, TableType
<1>4. DOMAIN files_table' = 1..Len(files_table) + 1 /\ DOMAIN files_table = 1..Len(files_table)
    BY <1>3, TableType
<1>5. TableKept
    BY <1>3, <1>4, TableType DEF TableKept
<1> QED
    BY <1>3, <1>4, <1>5, TableType DEF new

-----------------------------------------------------------------------------
(***************************************************************************)
(* Steps of one request.                                                   *)
(***************************************************************************)

Same(q) ==
    /\ handler'[q] = handler[q] /\ objid'[q] = objid[q] /\ backend'[q] = backend[q]
    /\ reply'[q] = reply[q] /\ received'[q] = received[q]
    /\ flushed'[q] = flushed[q] /\ stream'[q] = stream[q]

\* A step of r leaves the other requests alone; r keeps its record and an
\* answer that was given, and so does a transfer that has ended the lack of one.
StepOf(r) ==
    /\ UNCHANGED <<operation_type, file_size>> /\ TableKept
    /\ \A q \in Req \ {r} : Same(q)
    /\ objid[r] # 0 => objid'[r] = objid[r]
    /\ reply[r] # "none" => reply'[r] = reply[r]
    /\ backend[r] = "closed" => /\ backend'[r] = "closed" /\ reply'[r] = reply[r]
                                /\ received'[r] = received[r]
    /\ gone \subseteq gone'
    /\ \A i \in DOMAIN files_table :
          files_table'[i].file_status = files_table[i].file_status \/ i = objid[r]

LEMMA HasRecord ==
    ASSUME IInv, NEW r \in Req
    PROVE  /\ objid[r] # 0 => objid[r] \in DOMAIN files_table
           /\ operation_type[r] = "Upload" /\ backend[r] # "none" => objid[r] # 0
<1>1. objid[r] \in 0..Len(files_table)
    BY DEF IInv, TypeInv, TypeOK
<1>2. DOMAIN files_table = 1..Len(files_table) /\ Len(files_table) \in Nat
    BY TableType DEF IInv
<1>3. HandlerOK(r)
    BY DEF IInv, HandlerInv
<1> QED
    BY <1>1, <1>2, <1>3 DEF HandlerOK

LEMMA OthersOK ==
    ASSUME IInv, NEW r \in Req, StepOf(r), NEW q \in Req \ {r}
    PROVE  HandlerOK(q)' /\ TransferOK(q)' /\ OutcomeOK(q)'
<1>1. HandlerOK(q) /\ TransferOK(q) /\ OutcomeOK(q)
    BY DEF IInv, HandlerInv, TransferInv, StatusInv
<1>2. Same(q) /\ operation_type' = operation_type /\ file_size' = file_size
    BY DEF StepOf
<1>3. TransferOK(q)'
    BY <1>1, <1>2 DEF TransferOK, Same
<1>4. objid[q] # 0 => /\ objid[q] \in DOMAIN files_table
                      /\ files_table'[objid[q]].operation_type = files_table[objid[q]].operation_type
                      /\ files_table'[objid[q]].file_status = "Pending" =>
                            files_table[objid[q]].file_status = "Pending"
    BY HasRecord DEF StepOf, TableKept
<1>5. HandlerOK(q)'
    BY <1>1, <1>2, <1>4 DEF HandlerOK, Same
<1>6. ASSUME objid[q] # 0, ~Sharing(q)'
      PROVE  ~Sharing(q) /\ files_table'[objid[q]].file_status = files_table[objid[q]].file_status
  <2>1. \A p \in Req \ {q} : objid'[p] # objid[q]
    BY <1>2, <1>6 DEF Sharing, Same
  <2>2. objid[r] # objid[q] /\ \A p \in Req \ {q} : objid[p] # objid[q]
    BY <2>1, <1>6 DEF StepOf, Same
  <2> QED
    BY <2>2, <1>4, <1>6 DEF StepOf, Sharing
<1>7. OutcomeOK(q)'
    BY <1>1, <1>2, <1>4, <1>6, HasRecord DEF OutcomeOK, Same
<1> QED
    BY <1>3, <1>5, <1>7

\* The answers that explain a record do not change.
LEMMA WitnessesKept ==
    ASSUME IInv, NEW r \in Req, StepOf(r), NEW i \in DOMAIN files_table,
           files_table'[i].file_status = files_table[i].file_status
    PROVE  WitnessOK(i)'
<1>1. WitnessOK(i)
    BY DEF IInv, StatusInv
<1>2. i # 0
    BY TableType DEF IInv
<1>3. ASSUME NEW q \in Req, objid[q] = i
      PROVE  /\ objid'[q] = i /\ (reply[q] = "OK" => reply'[q] = "OK")
             /\ backend[q] = "closed" => /\ backend'[q] = "closed" /\ reply'[q] = reply[q]
                                         /\ received'[q] = received[q]
    BY <1>2, <1>3 DEF StepOf, Same
<1>4. gone \subseteq gone'
    BY DEF StepOf
<1>5. ASSUME NEW q \in Req, objid[q] = i, LeftAtZero(q) PROVE LeftAtZero(q)'
    BY <1>3, <1>4, <1>5 DEF LeftAtZero
<1> QED
    BY <1>1, <1>3, <1>5 DEF WitnessOK

LEMMA FileKept ==
    ASSUME IInv, UNCHANGED <<last, disturbed, file, stream, flushed>>,
           \A q \in Req : backend'[q] = "receiving" => backend[q] = "receiving"
    PROVE  FileInv'
BY DEF IInv, FileInv, FileOK

LEMMA InsertKept ==
    ASSUME IInv, TableKept, DOMAIN files_table' = DOMAIN files_table,
           UNCHANGED <<operation_type, raced>>,
           \A q \in Req : handler'[q] = "insert" => handler[q] = "insert"
    PROVE  InsertInv'
<1>1. \A q \in Req : PendingFor(q)' \subseteq PendingFor(q)
    BY DEF TableKept, PendingFor
<1>2. OnePendingRecord'
    BY DEF IInv, InsertInv, OnePendingRecord, TableKept
<1>3. ASSUME NEW q \in Req PROVE InsertOK(q)'
    BY <1>1 DEF IInv, InsertInv, InsertOK
<1> QED
    BY <1>2, <1>3 DEF InsertInv

LEMMA StepInv ==
    ASSUME IInv, NEW r \in Req, StepOf(r), TypeInv', HandlerOK(r)', TransferOK(r)',
           OutcomeOK(r)', FileInv', InsertInv', \A i \in DOMAIN files_table' : WitnessOK(i)'
    PROVE  IInv'
<1>1. ASSUME NEW q \in Req PROVE HandlerOK(q)' /\ TransferOK(q)' /\ OutcomeOK(q)'
    BY OthersOK
<1> QED
    BY <1>1 DEF IInv, HandlerInv, TransferInv, StatusInv

-----------------------------------------------------------------------------
(***************************************************************************)
(* The web server's steps.                                                 *)
(***************************************************************************)

\* The look-up: the invariant that can break is the one about inserts.
LEMMA FindRecordInv ==
    ASSUME IInv, NEW r \in Req, FindRecord(r)
    PROVE  IInv'
<1>1. /\ handler[r] = "idle"
      /\ UNCHANGED <<operation_type, file_size, gone, files_table, storage, reply, crashes>>
    BY DEF FindRecord
<1>2. TableKept /\ TypeInv
    BY <1>1, SameTable DEF IInv
<1>3. HandlerOK(r) /\ TransferOK(r) /\ objid[r] = 0 /\ backend[r] = "none"
    BY <1>1 DEF IInv, HandlerInv, TransferInv, HandlerOK
<1>4. FileInv'
    BY <1>1, FileKept DEF storage
<1>5. CASE \E i \in PendingFor(r) :
              /\ handler' = [handler EXCEPT ![r] = "send"]
              /\ objid' = [objid EXCEPT ![r] = i]
              /\ UNCHANGED raced
  <2>1. PICK i \in PendingFor(r) :
            /\ handler' = [handler EXCEPT ![r] = "send"]
            /\ objid' = [objid EXCEPT ![r] = i]
            /\ UNCHANGED raced
    BY <1>5
  <2>2. /\ handler'[r] = "send" /\ objid'[r] = i
        /\ \A q \in Req \ {r} : handler'[q] = handler[q] /\ objid'[q] = objid[q]
    BY <2>1, <1>2 DEF TypeInv, TypeOK
  <2>3. StepOf(r)
    BY <1>1, <1>2, <1>3, <2>2 DEF StepOf, Same, storage
  <2>4. i \in 1..Len(files_table) /\ files_table[i].operation_type = operation_type[r]
    BY <1>2, TableType DEF PendingFor
  <2>5. TypeInv'
    <3>1. objid' \in [Req -> 0..Len(files_table)]
      <4>1. objid \in [Req -> 0..Len(files_table)] /\ Len(files_table) \in Nat
        BY <1>2, TableType DEF TypeInv, TypeOK
      <4>2. i \in 0..Len(files_table)
        BY <2>4, <4>1
      <4> QED
        BY <2>1, <4>1, <4>2
    <3> QED
      BY <1>1, <1>2, <2>1, <3>1 DEF TypeInv, TypeOK, storage
  <2>6. HandlerOK(r)' /\ TransferOK(r)' /\ OutcomeOK(r)'
    BY <1>1, <1>3, <2>2, <2>4, TableType, <1>2 DEF HandlerOK, TransferOK, OutcomeOK, storage
  <2>7. InsertInv'
    BY <1>1, <1>2, <2>1, <2>2, InsertKept
  <2>8. \A k \in DOMAIN files_table' : WitnessOK(k)'
    BY <1>1, <2>3, WitnessesKept
  <2> QED
    BY <1>4, <2>3, <2>5, <2>6, <2>7, <2>8, StepInv
<1>6. CASE \E failed \in BOOLEAN : (PendingFor(r) = {} \/ failed) /\ Missed(r, failed)
  <2>1. PICK failed \in BOOLEAN : (PendingFor(r) = {} \/ failed) /\ Missed(r, failed)
    BY <1>6
  <2>2. /\ handler' = [handler EXCEPT ![r] = "insert"] /\ objid' = objid
        /\ raced' = (raced \/ failed \/ \E q \in Req : /\ handler[q] = "insert"
                                                       /\ operation_type[q] = operation_type[r])
    BY <2>1 DEF Missed
  <2>3. handler'[r] = "insert" /\ \A q \in Req \ {r} : handler'[q] = handler[q]
    BY <2>2, <1>2 DEF TypeInv, TypeOK
  <2>4. StepOf(r)
    BY <1>1, <1>2, <1>3, <2>2, <2>3 DEF StepOf, Same, storage
  <2>5. TypeInv'
    <3>1. raced' \in BOOLEAN
      BY <2>2
    <3> QED
      BY <1>1, <1>2, <2>2, <3>1 DEF TypeInv, TypeOK, storage
  <2>6. HandlerOK(r)' /\ TransferOK(r)' /\ OutcomeOK(r)'
    BY <1>1, <1>3, <2>2, <2>3 DEF HandlerOK, TransferOK, OutcomeOK, storage
  <2>7. InsertInv'
    <3>1. OnePendingRecord'
      BY <1>1, <2>2 DEF IInv, InsertInv, OnePendingRecord
    <3>2. ASSUME ~raced', NEW q \in Req, handler'[q] = "insert"
          PROVE  /\ PendingFor(q)' = {}
                 /\ \A p \in Req \ {q} : handler'[p] = "insert" =>
                       operation_type[p] # operation_type[q]
      <4>1. /\ ~raced /\ ~failed /\ PendingFor(r) = {}
            /\ \A p \in Req : handler[p] = "insert" => operation_type[p] # operation_type[r]
        BY <2>1, <2>2, <3>2
      <4>2. PendingFor(q)' = PendingFor(q)
        BY <1>1 DEF PendingFor
      <4>3. q # r => InsertOK(q)
        BY DEF IInv, InsertInv
      <4> QED
        BY <2>3, <3>2, <4>1, <4>2, <4>3 DEF InsertOK
    <3>3. ASSUME NEW q \in Req PROVE InsertOK(q)'
      BY <1>1, <3>2 DEF InsertOK
    <3> QED
      BY <3>1, <3>3 DEF InsertInv
  <2>8. \A k \in DOMAIN files_table' : WitnessOK(k)'
    BY <1>1, <2>4, WitnessesKept
  <2> QED
    BY <1>4, <2>4, <2>5, <2>6, <2>7, <2>8, StepInv
<1> QED
    BY <1>5, <1>6 DEF FindRecord

LEMMA InsertRecordInv ==
    ASSUME IInv, NEW r \in Req, InsertRecord(r)
    PROVE  IInv'
<1> DEFINE n == Len(files_table')
           op == operation_type[r]
<1>1. /\ handler[r] = "insert" /\ handler' = [handler EXCEPT ![r] = "send"]
      /\ files_table' = Append(files_table, [operation_type |-> op, file_status |-> "Pending"])
      /\ objid' = [objid EXCEPT ![r] = n]
      /\ UNCHANGED <<operation_type, file_size, gone, storage, reply, crashes, raced>>
    BY DEF InsertRecord
<1>2. op \in {"Upload", "Download"} /\ TypeInv
    BY DEF IInv, TypeInv, TypeOK
<1>3. /\ TableKept /\ n = Len(files_table) + 1
      /\ DOMAIN files_table' = DOMAIN files_table \cup {n} /\ n \notin DOMAIN files_table
      /\ files_table'[n] = [operation_type |-> op, file_status |-> "Pending"]
      /\ \A i \in DOMAIN files_table : files_table'[i] = files_table[i]
    BY <1>1, <1>2, RecordAdded
<1> HIDE DEF op
<1>4. HandlerOK(r) /\ TransferOK(r) /\ objid[r] = 0 /\ backend[r] = "none"
    BY <1>1 DEF IInv, HandlerInv, TransferInv, HandlerOK
<1>5. /\ handler'[r] = "send" /\ objid'[r] = n
      /\ \A q \in Req \ {r} : handler'[q] = handler[q] /\ objid'[q] = objid[q]
    BY <1>1, <1>2 DEF TypeInv, TypeOK
<1>6. StepOf(r)
    BY <1>1, <1>3, <1>4, <1>5 DEF StepOf, Same, storage
<1>7. TypeInv'
  <2>1. Len(files_table) \in Nat /\ n \in Nat /\ n # 0
    BY <1>2, <1>3, TableType
  <2>2. objid' \in [Req -> 0..n]
    <3>1. objid \in [Req -> 0..Len(files_table)]
      BY <1>2 DEF TypeInv, TypeOK
    <3>2. n \in 0..n /\ 0..Len(files_table) \subseteq 0..n
      BY <1>3, <2>1
    <3> HIDE DEF n
    <3> QED
      BY <1>1, <3>1, <3>2
  <2>3. files_table' \in Seq(FileRecord)
    BY <1>3 DEF TableKept
  <2>4. handler' \in [Req -> {"idle", "insert", "send", "piped", "unanswered", "ended"}]
    BY <1>1, <1>2 DEF TypeInv, TypeOK
  <2> QED
    BY <1>1, <1>2, <2>2, <2>3, <2>4 DEF TypeInv, TypeOK, storage, FileRecord
<1>8. HandlerOK(r)' /\ TransferOK(r)' /\ OutcomeOK(r)'
  <2>1. n # 0
    BY <1>2, <1>3, TableType
  <2> QED
    BY <1>1, <1>3, <1>4, <1>5, <2>1 DEF HandlerOK, TransferOK, OutcomeOK, storage, op
<1>9. InsertInv'
  <2>1. raced \/ PendingFor(r) = {}
    BY <1>1 DEF IInv, InsertInv, InsertOK
  <2>2. OnePendingRecord'
    BY <1>1, <1>3, <2>1 DEF IInv, InsertInv, OnePendingRecord, PendingFor, op
  <2>3. ASSUME NEW q \in Req, ~raced, handler'[q] = "insert"
        PROVE  InsertOK(q)'
    <3>1. q # r /\ handler[q] = "insert" /\ op # operation_type[q]
      BY <1>1, <1>5, <2>3 DEF IInv, InsertInv, InsertOK, op
    <3>2. PendingFor(q)' = PendingFor(q)
      BY <1>1, <1>3, <3>1 DEF PendingFor
    <3> QED
      BY <1>1, <1>5, <2>3, <3>1, <3>2 DEF IInv, InsertInv, InsertOK
  <2>4. ASSUME NEW q \in Req PROVE InsertOK(q)'
    BY <1>1, <2>3 DEF InsertOK
  <2> QED
    BY <2>2, <2>4 DEF InsertInv
<1>10. ASSUME NEW i \in DOMAIN files_table' PROVE WitnessOK(i)'
  <2>1. CASE i = n
    BY <1>3, <2>1 DEF WitnessOK
  <2>2. CASE i \in DOMAIN files_table
    BY <1>3, <1>6, <2>2, WitnessesKept
  <2> QED
    BY <1>3, <2>1, <2>2
<1>11. FileInv'
    BY <1>1, FileKept DEF storage
<1> QED
    BY <1>6, <1>7, <1>8, <1>9, <1>10, <1>11, StepInv

\* Steps of the handler that leave the table alone and neither look up nor insert.
LEMMA HandlerStepInv ==
    ASSUME IInv, NEW r \in Req,
           UNCHANGED <<files_table, operation_type, file_size, raced, crashes, objid, up, received,
                       flushed, stream, file, last, disturbed>>,
           gone \subseteq gone', gone' \subseteq Req,
           NEW h \in {"send", "piped", "unanswered", "ended"}, handler' = [handler EXCEPT ![r] = h],
           NEW b \in {"none", "connected", "dead"}, backend' = [backend EXCEPT ![r] = b],
           NEW a \in {"none", "ERROR"}, reply' = [reply EXCEPT ![r] = a],
           reply[r] = "none", backend[r] # "closed",
           HandlerOK(r)', TransferOK(r)'
    PROVE  IInv'
<1>1. TypeInv /\ TableKept
    BY SameTable DEF IInv
<1>2. /\ handler'[r] = h /\ backend'[r] = b /\ reply'[r] = a
      /\ \A q \in Req \ {r} : /\ handler'[q] = handler[q] /\ backend'[q] = backend[q]
                              /\ reply'[q] = reply[q]
    BY <1>1 DEF TypeInv, TypeOK
<1>3. StepOf(r)
    BY <1>1, <1>2 DEF StepOf, Same
<1>4. TypeInv'
    BY <1>1 DEF TypeInv, TypeOK
<1>5. OutcomeOK(r)'
    BY <1>2 DEF OutcomeOK
<1>6. FileInv' /\ InsertInv'
    BY <1>1, <1>2, FileKept, InsertKept
<1>7. \A i \in DOMAIN files_table' : WitnessOK(i)'
    BY <1>3, WitnessesKept
<1> QED
    BY <1>3, <1>4, <1>5, <1>6, <1>7, StepInv

LEMMA HandleInv ==
    ASSUME IInv, NEW r \in Req, InsertFails(r) \/ Pipe(r) \/ PipeBreaks(r)
    PROVE  IInv'
<1>1. HandlerOK(r) /\ TransferOK(r) /\ TypeInv
    BY DEF IInv, HandlerInv, TransferInv
<1>2. gone \subseteq Req /\ backend \in [Req -> {"none", "connected", "receiving", "finishing",
          "sending", "sent", "ignored", "closed", "dead"}]
      /\ handler \in [Req -> {"idle", "insert", "send", "piped", "unanswered", "ended"}]
      /\ reply \in [Req -> {"none", "OK", "FAIL", "NOT FOUND", "ERROR"}]
      /\ operation_type \in [Req -> {"Upload", "Download"}]
    BY <1>1 DEF TypeInv, TypeOK
<1>3. CASE InsertFails(r)
  <2> DEFINE h == IF operation_type[r] = "Upload" THEN "unanswered" ELSE "send"
  <2>1. /\ handler[r] = "insert" /\ handler' = [handler EXCEPT ![r] = h]
        /\ UNCHANGED <<operation_type, file_size, gone, objid, files_table, storage, reply,
                       crashes, raced>>
    BY <1>3 DEF InsertFails
  <2>2. handler'[r] = h /\ h \in {"send", "unanswered"}
    BY <1>2, <2>1
  <2>3. /\ reply[r] = "none" /\ backend[r] = "none" /\ objid[r] = 0
        /\ reply' = [reply EXCEPT ![r] = "none"] /\ backend' = [backend EXCEPT ![r] = "none"]
    BY <1>1, <1>2, <2>1 DEF HandlerOK, storage
  <2>4. HandlerOK(r)' /\ TransferOK(r)'
    BY <1>1, <1>2, <2>1, <2>2, <2>3 DEF HandlerOK, TransferOK, storage
  <2> HIDE DEF h
  <2> QED
    BY <1>2, <2>1, <2>2, <2>3, <2>4, HandlerStepInv DEF storage
<1>4. CASE Pipe(r) /\ up
  <2>1. /\ handler[r] = "send" /\ handler' = [handler EXCEPT ![r] = "piped"]
        /\ backend' = [backend EXCEPT ![r] = "connected"] /\ UNCHANGED reply
        /\ UNCHANGED <<operation_type, file_size, gone, objid, files_table, up, received,
                       flushed, stream, file, last, disturbed, crashes, raced>>
    BY <1>4 DEF Pipe
  <2>2. reply[r] = "none" /\ backend[r] = "none" /\ reply' = [reply EXCEPT ![r] = "none"]
    BY <1>1, <1>2, <2>1 DEF HandlerOK
  <2>3. handler'[r] = "piped" /\ backend'[r] = "connected"
    BY <1>2, <2>1
  <2>4. HandlerOK(r)' /\ TransferOK(r)'
    BY <1>1, <2>1, <2>2, <2>3 DEF HandlerOK, TransferOK
  <2> QED
    BY <1>2, <2>1, <2>2, <2>4, HandlerStepInv
<1>5. CASE Pipe(r) /\ ~up
  <2>1. /\ handler[r] = "send" /\ handler' = [handler EXCEPT ![r] = "ended"]
        /\ reply' = [reply EXCEPT ![r] = "ERROR"] /\ UNCHANGED backend
        /\ UNCHANGED <<operation_type, file_size, gone, objid, files_table, up, received,
                       flushed, stream, file, last, disturbed, crashes, raced>>
    BY <1>5 DEF Pipe
  <2>2. reply[r] = "none" /\ backend[r] = "none" /\ backend' = [backend EXCEPT ![r] = "none"]
    BY <1>1, <1>2, <2>1 DEF HandlerOK
  <2>3. handler'[r] = "ended" /\ reply'[r] = "ERROR"
    BY <1>2, <2>1
  <2>4. HandlerOK(r)' /\ TransferOK(r)'
    BY <1>1, <2>1, <2>2, <2>3 DEF HandlerOK, TransferOK
  <2> QED
    BY <1>2, <2>1, <2>2, <2>4, HandlerStepInv
<1>6. CASE PipeBreaks(r)
  <2>1. /\ handler[r] = "piped" /\ backend[r] = "dead" /\ reply[r] = "none"
        /\ handler' = [handler EXCEPT ![r] = "ended"] /\ reply' = [reply EXCEPT ![r] = "ERROR"]
        /\ UNCHANGED <<operation_type, file_size, gone, objid, files_table, storage, crashes, raced>>
    BY <1>6 DEF PipeBreaks
  <2>2. /\ handler'[r] = "ended" /\ reply'[r] = "ERROR"
        /\ backend' = [backend EXCEPT ![r] = "dead"]
    BY <1>2, <2>1 DEF storage
  <2>3. HandlerOK(r)' /\ TransferOK(r)'
    BY <1>1, <2>1, <2>2 DEF HandlerOK, TransferOK, storage
  <2> QED
    BY <1>2, <2>1, <2>2, <2>3, HandlerStepInv DEF storage
<1> QED
    BY <1>3, <1>4, <1>5, <1>6

-----------------------------------------------------------------------------
(***************************************************************************)
(* The backend's steps.                                                    *)
(***************************************************************************)

Place == {"connected", "receiving", "finishing", "sending", "sent", "ignored", "closed"}

\* An answer is given once.
Replies(r) ==
    \/ reply' = reply
    \/ reply[r] = "none" /\ \E a \in {"OK", "FAIL", "NOT FOUND"} : reply' = [reply EXCEPT ![r] = a]

\* What the steps of a transfer have in common.
TransferStep(r) ==
    /\ UNCHANGED <<operation_type, file_size, web, up, crashes, raced>>
    /\ TableKept /\ DOMAIN files_table' = DOMAIN files_table
    /\ \A i \in DOMAIN files_table :
          files_table'[i].file_status = files_table[i].file_status \/ i = objid[r]
    /\ \E b \in Place : backend' = [backend EXCEPT ![r] = b]
    /\ backend[r] \in {"connected", "receiving", "finishing", "sending", "sent"}
    /\ Replies(r)

\* The part of the state that only uploads change.
UploadKept == UNCHANGED <<received, flushed, stream, file, last, disturbed>>

UploadTypeOK ==
    /\ received \in [Req -> 0..MaxBlocks] /\ flushed \in [Req -> 0..MaxBlocks]
    /\ \A q \in Req : flushed[q] \in 0..received[q]
    /\ stream \in [Req -> {"unopened", "open", "failed"}]
    /\ file \in [Block -> Req \cup {NoReq}]
    /\ last \in Req \cup {NoReq} /\ disturbed \subseteq Req

LEMMA UploadTypeKept ==
    ASSUME IInv, UploadKept
    PROVE  UploadTypeOK'
BY DEF IInv, TypeInv, TypeOK, UploadTypeOK, UploadKept

\* The step of a transfer, from what it does to its own request and its record.
LEMMA TransferStepInv ==
    ASSUME IInv, NEW r \in Req, TransferStep(r), UploadTypeOK',
           \A q \in Req \ {r} : received'[q] = received[q] /\ flushed'[q] = flushed[q]
                                /\ stream'[q] = stream[q],
           TransferOK(r)', OutcomeOK(r)', FileInv',
           \A i \in DOMAIN files_table' : WitnessOK(i)' \/ files_table'[i] = files_table[i]
    PROVE  IInv'
<1>1. TypeInv /\ HandlerOK(r)
    BY DEF IInv, HandlerInv
<1>2. PICK b \in Place : backend' = [backend EXCEPT ![r] = b]
    BY DEF TransferStep
<1>3. /\ backend \in [Req -> Place \cup {"none", "dead"}]
      /\ reply \in [Req -> {"none", "OK", "FAIL", "NOT FOUND", "ERROR"}]
    BY <1>1 DEF TypeInv, TypeOK, Place
<1>4. backend'[r] = b /\ \A q \in Req \ {r} : backend'[q] = backend[q] /\ reply'[q] = reply[q]
    BY <1>2, <1>3 DEF TransferStep, Replies
<1>5. StepOf(r)
  <2>1. reply[r] # "none" => reply'[r] = reply[r]
    BY DEF TransferStep, Replies
  <2> QED
    BY <1>4, <2>1 DEF TransferStep, Replies, StepOf, Same, web
<1>6. TypeInv'
  <2>1. reply' \in [Req -> {"none", "OK", "FAIL", "NOT FOUND", "ERROR"}]
    BY <1>3, ZenonT(30) DEF TransferStep, Replies
  <2>2. backend' \in [Req -> Place \cup {"none", "dead"}]
    BY <1>2, <1>3
  <2>3. files_table' \in Seq(FileRecord) /\ Len(files_table) <= Len(files_table')
    BY DEF TransferStep, TableKept
  <2>4. objid' \in [Req -> 0..Len(files_table')]
    <3>1. objid \in [Req -> 0..Len(files_table)] /\ objid' = objid
      BY <1>1 DEF TypeInv, TypeOK, TransferStep, web
    <3>2. Len(files_table) \in Nat /\ Len(files_table') \in Nat
      BY <1>1, <2>3, TableType
    <3>3. 0..Len(files_table) \subseteq 0..Len(files_table')
      BY <2>3, <3>2
    <3> QED
      BY <3>1, <3>3
  <2>5. /\ operation_type' \in [Req -> {"Upload", "Download"}] /\ file_size' \in [Req -> FileSize]
        /\ handler' \in [Req -> {"idle", "insert", "send", "piped", "unanswered", "ended"}]
        /\ gone' \subseteq Req /\ up' \in BOOLEAN /\ raced' \in BOOLEAN
        /\ crashes' \in 0..MaxCrashes
    BY <1>1 DEF TypeInv, TypeOK, TransferStep, web
  <2> QED
    BY <2>1, <2>2, <2>3, <2>4, <2>5 DEF TypeInv, TypeOK, UploadTypeOK, Place, FileRecord
<1>7. HandlerOK(r)'
  <2>1. objid[r] # 0 => files_table'[objid[r]].operation_type = files_table[objid[r]].operation_type
    BY HasRecord DEF TransferStep, TableKept
  <2>2. backend[r] # "none" /\ handler'[r] = handler[r] /\ objid'[r] = objid[r]
    BY DEF TransferStep, web
  <2> QED
    BY <1>1, <2>1, <2>2 DEF HandlerOK, TransferStep
<1>8. InsertInv'
    BY InsertKept DEF TransferStep, web
<1>9. \A i \in DOMAIN files_table' : WitnessOK(i)'
    BY <1>5, WitnessesKept DEF TransferStep
<1> QED
    BY <1>5, <1>6, <1>7, <1>8, <1>9, StepInv

\* A step that leaves the table alone.
LEMMA QuietTransfer ==
    ASSUME TypeInv, NEW r \in Req, NEW b \in Place, backend' = [backend EXCEPT ![r] = b],
           UNCHANGED <<operation_type, file_size, web, up, crashes, raced, files_table>>,
           backend[r] \in {"connected", "receiving", "sending"}, Replies(r)
    PROVE  TransferStep(r)
<1>1. /\ TableKept /\ DOMAIN files_table' = DOMAIN files_table
      /\ \A i \in DOMAIN files_table : files_table'[i].file_status = files_table[i].file_status
    BY SameTable
<1> QED
    BY <1>1 DEF TransferStep

\* Steps that neither take blocks nor touch the record.
LEMMA QuietStepInv ==
    ASSUME IInv, NEW r \in Req, RefuseTransfer(r) \/ TakeDownload(r) \/ SendFile(r)
    PROVE  IInv'
<1>1. TransferOK(r) /\ TypeInv
    BY DEF IInv, TransferInv
<1>2. /\ backend \in [Req -> Place \cup {"none", "dead"}]
      /\ reply \in [Req -> {"none", "OK", "FAIL", "NOT FOUND", "ERROR"}]
      /\ operation_type[r] \in {"Upload", "Download"}
    BY <1>1 DEF TypeInv, TypeOK, Place
<1>3. UploadKept /\ UNCHANGED <<operation_type, file_size, web, up, crashes, raced, files_table>>
    BY DEF RefuseTransfer, TakeDownload, SendFile, UploadKept
<1>4. /\ TransferStep(r) /\ backend'[r] # "receiving"
      /\ TransferOK(r)' /\ OutcomeOK(r)'
  <2>2. CASE RefuseTransfer(r)
    <3>1. /\ backend[r] = "connected" /\ backend' = [backend EXCEPT ![r] = "closed"]
          /\ reply' = [reply EXCEPT ![r] = "FAIL"] /\ reply[r] = "none"
      BY <1>1, <2>2 DEF RefuseTransfer, TransferOK
    <3>2. TransferStep(r)
      BY <1>1, <1>3, <3>1, QuietTransfer DEF Place, Replies
    <3>3. backend'[r] = "closed" /\ reply'[r] = "FAIL"
      BY <1>2, <3>1
    <3> QED
      BY <1>1, <1>3, <3>1, <3>2, <3>3 DEF TransferOK, OutcomeOK, UploadKept
  <2>3. CASE TakeDownload(r)
    <3>1. PICK b \in {"ignored", "sending"} :
             /\ backend[r] = "connected" /\ operation_type[r] = "Download" /\ UNCHANGED reply
             /\ backend' = [backend EXCEPT ![r] = b] /\ (b = "sending" => objid[r] # 0)
      BY <2>3 DEF TakeDownload
    <3>2. TransferStep(r)
      <4>1. b \in Place /\ Replies(r) /\ backend[r] \in {"connected", "receiving", "sending"}
        BY <3>1 DEF Place, Replies
      <4> QED
        BY <1>1, <1>3, <3>1, <4>1, QuietTransfer
    <3>3. backend'[r] = b /\ reply'[r] = reply[r] /\ reply[r] = "none" /\ objid'[r] = objid[r]
      BY <1>1, <1>2, <1>3, <3>1 DEF TransferOK, web
    <3>4. TransferOK(r)'
      BY <1>1, <1>3, <3>1, <3>3 DEF TransferOK, UploadKept
    <3> QED
      BY <3>1, <3>2, <3>3, <3>4 DEF OutcomeOK
  <2>4. CASE SendFile(r)
    <3>1. PICK b \in {"sent", "closed"}, a \in {"OK", "NOT FOUND"} :
             /\ backend[r] = "sending" /\ (b = "closed" => a = "NOT FOUND")
             /\ backend' = [backend EXCEPT ![r] = b] /\ reply' = [reply EXCEPT ![r] = a]
      BY <2>4 DEF SendFile
    <3>2. reply[r] = "none" /\ operation_type[r] = "Download" /\ objid[r] # 0
      BY <1>1, <3>1 DEF TransferOK
    <3>3. TransferStep(r)
      BY <1>1, <1>3, <3>1, <3>2, QuietTransfer DEF Place, Replies
    <3>4. /\ backend'[r] = b /\ reply'[r] = a /\ objid'[r] = objid[r]
          /\ operation_type'[r] = "Download"
      BY <1>2, <1>3, <3>1, <3>2 DEF web
    <3>5. TransferOK(r)'
      BY <1>1, <1>3, <3>1, <3>2, <3>4 DEF TransferOK, UploadKept
    <3> QED
      BY <3>1, <3>3, <3>4, <3>5 DEF OutcomeOK
  <2> QED
    BY <2>2, <2>3, <2>4
<1>5. FileInv'
  <2>1. \A q \in Req : backend'[q] = "receiving" => backend[q] = "receiving"
    BY <1>2, <1>4 DEF TransferStep
  <2> QED
    BY <1>3, <2>1, FileKept DEF UploadKept
<1>6. UploadTypeOK'
    BY <1>3, UploadTypeKept
<1> QED
    BY <1>3, <1>4, <1>5, <1>6, TransferStepInv DEF UploadKept

\* The upload that truncates the file is alone, or disturbed from the start.
LEMMA OpenUploadInv ==
    ASSUME IInv, NEW r \in Req, OpenUpload(r)
    PROVE  IInv'
<1> DEFINE others == {q \in Req : backend[q] = "receiving"}
<1>1. TransferOK(r) /\ TypeInv /\ UploadTypeOK
    BY DEF IInv, TransferInv, TypeInv, TypeOK, UploadTypeOK
<1>2. backend \in [Req -> Place \cup {"none", "dead"}] /\ file_size[r] \in FileSize
    BY <1>1 DEF TypeInv, TypeOK, Place
<1>3. /\ backend[r] = "connected" /\ operation_type[r] = "Upload"
      /\ backend' = [backend EXCEPT ![r] = "receiving"]
      /\ UNCHANGED <<operation_type, file_size, web, files_table, up, received, flushed,
                     reply, crashes, raced>>
    BY DEF OpenUpload
<1>4. PICK opened \in {"open", "failed"} :
        /\ stream' = [stream EXCEPT ![r] = opened]
        /\ opened = "open" => /\ file' = [b \in Block |-> NoReq] /\ last' = r
                              /\ disturbed' = disturbed \cup others
                                                \cup (IF others = {} THEN {} ELSE {r})
        /\ opened = "failed" => UNCHANGED <<file, last, disturbed>>
    BY DEF OpenUpload
<1>5. /\ backend'[r] = "receiving" /\ stream'[r] = opened
      /\ \A q \in Req \ {r} : backend'[q] = backend[q] /\ stream'[q] = stream[q]
    BY <1>1, <1>2, <1>3, <1>4 DEF UploadTypeOK
<1>6. received[r] = 0 /\ flushed[r] = 0 /\ stream[r] = "unopened" /\ reply[r] = "none"
    BY <1>1, <1>3 DEF TransferOK, UploadTypeOK
<1>7. TransferStep(r)
  <2>1. /\ "receiving" \in Place /\ Replies(r)
        /\ backend[r] \in {"connected", "receiving", "sending"}
        /\ UNCHANGED <<operation_type, file_size, web, up, crashes, raced, files_table>>
    BY <1>3 DEF Place, Replies
  <2> QED
    BY <1>1, <1>3, <2>1, QuietTransfer
<1>8. TransferOK(r)' /\ OutcomeOK(r)'
  <2>1. received'[r] < file_size'[r] \/ (received'[r] = 0 /\ file_size'[r] = 0)
    <3>1. file_size[r] \in 0..MaxBlocks /\ MaxBlocks \in Nat
      BY <1>2 DEF FileSize
    <3>2. received'[r] = 0 /\ file_size'[r] = file_size[r]
      BY <1>3, <1>6
    <3> QED
      BY <3>1, <3>2
  <2> QED
    BY <1>1, <1>3, <1>5, <1>6, <2>1 DEF TransferOK, OutcomeOK
<1>9. UploadTypeOK'
    BY <1>1, <1>3, <1>4 DEF UploadTypeOK
<1>10. FileInv'
  <2>1. CASE opened = "open"
    <3>1. last' = r /\ stream'[r] = "open" /\ file' = [b \in Block |-> NoReq]
      BY <1>4, <1>5, <2>1
    <3>2. r \notin disturbed' => others = {}
      BY <1>4, <2>1
    <3>3. [b \in Block |-> NoReq] = [b \in Block |-> IF b <= flushed[r] THEN r ELSE NoReq]
      BY <1>6 DEF Block
    <3>4. \A q \in Req \ {r} : others = {} => backend'[q] # "receiving"
      BY <1>5
    <3> QED
      BY <1>3, <3>1, <3>2, <3>3, <3>4 DEF FileInv, FileOK
  <2>2. CASE opened = "failed"
    <3>1. last # r
      BY <1>6 DEF IInv, FileInv, FileOK
    <3>2. /\ UNCHANGED <<file, last, disturbed, flushed>>
          /\ \A q \in Req \ {r} : stream'[q] = stream[q] /\ backend'[q] = backend[q]
          /\ stream'[r] = "failed"
      BY <1>3, <1>4, <1>5, <2>2
    <3> QED
      BY <3>1, <3>2 DEF IInv, FileInv, FileOK
  <2> QED
    BY <2>1, <2>2
<1> QED
    BY <1>3, <1>5, <1>7, <1>8, <1>9, <1>10, TransferStepInv

\* What a flush up to block n does to the file.
LEMMA FlushInv ==
    ASSUME IInv, NEW r \in Req, backend[r] \in {"connected", "receiving"},
           NEW n \in 0..MaxBlocks, flushed[r] <= n, Flush(r, n),
           UNCHANGED <<last, disturbed, stream>>,
           \A q \in Req : backend'[q] = "receiving" => backend[q] = "receiving"
    PROVE  /\ FileInv' /\ file' \in [Block -> Req \cup {NoReq}]
           /\ flushed' \in [Req -> 0..MaxBlocks] /\ flushed'[r] = n
           /\ \A q \in Req \ {r} : flushed'[q] = flushed[q]
<1>1. UploadTypeOK /\ TransferOK(r)
    BY DEF IInv, TypeInv, TypeOK, UploadTypeOK, TransferInv
<1>2. /\ flushed' = [flushed EXCEPT ![r] = n]
      /\ file' = IF stream[r] # "open" THEN file
                 ELSE [b \in Block |-> IF flushed[r] < b /\ b <= n THEN r ELSE file[b]]
    BY DEF Flush
<1>3. /\ flushed' \in [Req -> 0..MaxBlocks] /\ flushed'[r] = n
      /\ \A q \in Req \ {r} : flushed'[q] = flushed[q]
    BY <1>1, <1>2 DEF UploadTypeOK
<1>4. file' \in [Block -> Req \cup {NoReq}]
    BY <1>1, <1>2 DEF UploadTypeOK
<1>5. ASSUME last = r, r \notin disturbed
      PROVE  file' = [b \in Block |-> IF b <= n THEN r ELSE NoReq]
  <2>1. stream[r] = "open" /\ file = [b \in Block |-> IF b <= flushed[r] THEN r ELSE NoReq]
    BY <1>5 DEF IInv, FileInv, FileOK
  <2>2. \A b \in Block : (IF flushed[r] < b /\ b <= n THEN r ELSE file[b])
                            = (IF b <= n THEN r ELSE NoReq)
    BY <1>1, <2>1 DEF Block, UploadTypeOK
  <2> QED
    BY <1>2, <2>1, <2>2
<1>6. ASSUME NEW q \in Req \ {r}, last = q, q \notin disturbed
      PROVE  file' = file
  <2>1. stream[r] # "open"
    BY <1>1, <1>6 DEF IInv, FileInv, FileOK, TransferOK
  <2> QED
    BY <1>2, <2>1
<1>7. ASSUME NEW q \in Req PROVE FileOK(q)'
  <2>1. FileOK(q)
    BY DEF IInv, FileInv
  <2>2. CASE q = r
    BY <1>3, <1>5, <2>1, <2>2 DEF FileOK
  <2>3. CASE q # r
    BY <1>3, <1>6, <2>1, <2>3 DEF FileOK
  <2> QED
    BY <2>2, <2>3
<1> QED
    BY <1>3, <1>4, <1>7 DEF FileInv

LEMMA ReceiveInv ==
    ASSUME IInv, NEW r \in Req, Receive(r)
    PROVE  IInv'
<1>1. TransferOK(r) /\ TypeInv /\ UploadTypeOK
    BY DEF IInv, TransferInv, TypeInv, TypeOK, UploadTypeOK
<1>2. /\ backend \in [Req -> Place \cup {"none", "dead"}] /\ file_size[r] \in FileSize
      /\ reply \in [Req -> {"none", "OK", "FAIL", "NOT FOUND", "ERROR"}]
    BY <1>1 DEF TypeInv, TypeOK, Place
<1>3. /\ backend[r] = "receiving"
      /\ received' = [received EXCEPT ![r] = IF file_size[r] = 0 THEN 0 ELSE received[r] + 1]
      /\ UNCHANGED <<operation_type, file_size, web, files_table, up, stream, last, disturbed,
                     crashes, raced>>
    BY DEF Receive
<1>4. /\ received'[r] \in Nat /\ received[r] \in Nat /\ received[r] <= received'[r]
      /\ received'[r] <= file_size[r]
      /\ file_size[r] \in Nat /\ file_size[r] <= MaxBlocks /\ MaxBlocks \in Nat
      /\ flushed[r] <= received[r] /\ flushed[r] \in Nat
      /\ \A q \in Req \ {r} : received'[q] = received[q]
  <2>1. /\ received'[r] = IF file_size[r] = 0 THEN 0 ELSE received[r] + 1
        /\ \A q \in Req \ {r} : received'[q] = received[q]
        /\ received[r] \in 0..MaxBlocks /\ flushed[r] \in 0..received[r]
    BY <1>1, <1>3 DEF UploadTypeOK
  <2>2. received[r] < file_size[r] \/ (received[r] = 0 /\ file_size[r] = 0)
    BY <1>1, <1>3 DEF TransferOK
  <2>3. file_size[r] \in 0..MaxBlocks /\ MaxBlocks \in Nat
    BY <1>2 DEF FileSize
  <2> QED
    BY <2>1, <2>2, <2>3
<1>5. PICK n \in flushed[r]..received'[r], b \in {"receiving", "finishing"} :
        /\ Flush(r, n)
        /\ backend' = [backend EXCEPT ![r] = b]
        /\ b = "finishing" => /\ received'[r] = file_size[r] /\ n = file_size[r]
                              /\ reply' = [reply EXCEPT ![r] = "OK"]
        /\ b = "receiving" => received'[r] # file_size[r] /\ reply' = reply
  <2>1. CASE received'[r] = file_size[r]
    BY <1>4, <2>1 DEF Receive
  <2>2. CASE received'[r] # file_size[r]
    <3>1. (\E n \in flushed[r]..received'[r] : Flush(r, n)) /\ UNCHANGED <<reply, backend>>
      BY <2>2 DEF Receive
    <3>2. backend' = [backend EXCEPT ![r] = "receiving"]
      BY <1>2, <1>3, <3>1
    <3> QED
      BY <2>2, <3>1, <3>2
  <2> QED
    BY <2>1, <2>2
<1>6. /\ backend'[r] = b /\ (b = "finishing" => reply'[r] = "OK")
      /\ \A q \in Req \ {r} : backend'[q] = backend[q]
    BY <1>2, <1>5
<1>7. n \in 0..MaxBlocks /\ flushed[r] <= n /\ n <= received'[r]
  <2>1. n \in flushed[r]..received'[r]
    OBVIOUS
  <2> QED
    BY <1>4, <2>1
<1>8. /\ FileInv' /\ file' \in [Block -> Req \cup {NoReq}]
      /\ flushed' \in [Req -> 0..MaxBlocks] /\ flushed'[r] = n
      /\ \A q \in Req \ {r} : flushed'[q] = flushed[q]
    BY <1>3, <1>5, <1>6, <1>7, FlushInv
<1>9. TransferStep(r)
  <2>1. reply[r] = "none"
    BY <1>1, <1>3 DEF TransferOK
  <2>2. Replies(r) /\ b \in Place
    BY <1>5, <2>1 DEF Replies, Place
  <2> QED
    BY <1>1, <1>3, <1>5, <2>2, QuietTransfer
<1>10. UploadTypeOK'
  <2>1. received' \in [Req -> 0..MaxBlocks]
    <3> DEFINE new == IF file_size[r] = 0 THEN 0 ELSE received[r] + 1
    <3>1. received'[r] = new /\ received' = [received EXCEPT ![r] = new]
      BY <1>1, <1>3 DEF UploadTypeOK
    <3>2. new \in 0..MaxBlocks
      BY <1>4, <3>1
    <3> HIDE DEF new
    <3> QED
      BY <1>1, <3>1, <3>2 DEF UploadTypeOK
  <2>2. \A q \in Req : flushed'[q] \in 0..received'[q]
    BY <1>1, <1>4, <1>7, <1>8 DEF UploadTypeOK
  <2> QED
    BY <1>1, <1>3, <1>8, <2>1, <2>2 DEF UploadTypeOK
<1>11. TransferOK(r)' /\ OutcomeOK(r)'
  <2>1. operation_type'[r] = operation_type[r] /\ file_size'[r] = file_size[r]
        /\ stream'[r] = stream[r]
    BY <1>3
  <2>2. received'[r] # file_size[r] => received'[r] < file_size[r]
    BY <1>4
  <2> QED
    BY <1>1, <1>3, <1>5, <1>6, <1>8, <2>1, <2>2 DEF TransferOK, OutcomeOK
<1>12. \A i \in DOMAIN files_table' : files_table'[i] = files_table[i]
    BY <1>3
<1> QED
    BY <1>3, <1>4, <1>8, <1>9, <1>10, <1>11, <1>12, TransferStepInv

\* A step that sets the record's status.
LEMMA StatusTransfer ==
    ASSUME TypeInv, NEW r \in Req, objid[r] # 0, backend' = [backend EXCEPT ![r] = "closed"],
           UNCHANGED <<operation_type, file_size, web, up, crashes, raced, reply>>,
           backend[r] \in {"connected", "receiving", "finishing", "sent"},
           NEW status \in {"Success", "Failed", "SUCCESS_DOWNLOAD", "FAIL_DOWNLOAD"},
           SetStatus(r, status)
    PROVE  /\ TransferStep(r) /\ files_table'[objid[r]].file_status = status
           /\ \A i \in DOMAIN files_table' \ {objid[r]} : files_table'[i] = files_table[i]
<1>1. /\ TableKept /\ DOMAIN files_table' = DOMAIN files_table
      /\ files_table'[objid[r]].file_status = status
      /\ \A i \in DOMAIN files_table \ {objid[r]} : files_table'[i] = files_table[i]
    BY StatusSet
<1> QED
    BY <1>1 DEF TransferStep, Place, Replies

\* The ends of a transfer that reached its record.
LEMMA FinishInv ==
    ASSUME IInv, NEW r \in Req, Finish(r) \/ FinishDownload(r)
    PROVE  IInv'
<1>1. TransferOK(r) /\ TypeInv /\ HandlerOK(r)
    BY DEF IInv, TransferInv, HandlerInv
<1>2. /\ backend \in [Req -> Place \cup {"none", "dead"}]
      /\ operation_type[r] \in {"Upload", "Download"}
    BY <1>1 DEF TypeInv, TypeOK, Place
<1>3. PICK status \in {"Success", "SUCCESS_DOWNLOAD", "FAIL_DOWNLOAD"} :
        /\ SetStatus(r, status)
        /\ backend[r] = IF status = "Success" THEN "finishing" ELSE "sent"
        /\ backend' = [backend EXCEPT ![r] = "closed"]
        /\ UNCHANGED <<operation_type, file_size, web, up, received, flushed, stream, file, last,
                       disturbed, reply, crashes, raced>>
    BY DEF Finish, FinishDownload
<1>4. /\ objid[r] # 0 /\ (status = "Success" => reply[r] = "OK")
      /\ (status # "Success" => operation_type[r] = "Download")
    BY <1>1, <1>2, <1>3, HasRecord DEF TransferOK
<1>5. /\ TransferStep(r) /\ files_table'[objid[r]].file_status = status
      /\ \A i \in DOMAIN files_table' \ {objid[r]} : files_table'[i] = files_table[i]
    BY <1>1, <1>3, <1>4, StatusTransfer
<1>6. /\ backend'[r] = "closed" /\ objid'[r] = objid[r] /\ reply'[r] = reply[r]
      /\ \A q \in Req : backend'[q] = "receiving" => backend[q] = "receiving"
    BY <1>2, <1>3 DEF web
<1>7. UploadKept
    BY <1>3 DEF UploadKept
<1>8. FileInv' /\ UploadTypeOK'
    BY <1>6, <1>7, FileKept, UploadTypeKept DEF UploadKept
<1>9. TransferOK(r)'
    BY <1>1, <1>3, <1>6 DEF TransferOK
<1>10. OutcomeOK(r)'
  <2>1. operation_type'[r] = "Upload" => status = "Success"
    BY <1>3, <1>4
  <2> QED
    BY <1>5, <1>6, <2>1 DEF OutcomeOK
<1>11. \A i \in DOMAIN files_table' : WitnessOK(i)' \/ files_table'[i] = files_table[i]
    BY <1>4, <1>5, <1>6 DEF WitnessOK
<1> QED
    BY <1>3, <1>5, <1>8, <1>9, <1>10, <1>11, TransferStepInv

LEMMA HangUpInv ==
    ASSUME IInv, NEW r \in Req, HangUp(r)
    PROVE  IInv'
<1>1. TransferOK(r) /\ TypeInv /\ UploadTypeOK
    BY DEF IInv, TransferInv, TypeInv, TypeOK, UploadTypeOK
<1>2. /\ backend \in [Req -> Place \cup {"none", "dead"}]
      /\ reply[r] = "none"
    BY <1>1 DEF TypeInv, TypeOK, Place, HangUp, TransferOK
<1>3. /\ backend[r] \in {"connected", "receiving"} /\ Flush(r, received[r])
      /\ backend' = [backend EXCEPT ![r] = "closed"]
      /\ UNCHANGED <<operation_type, file_size, web, up, received, stream, last, disturbed,
                     reply, crashes, raced>>
    BY DEF HangUp
<1>4. /\ backend'[r] = "closed" /\ objid'[r] = objid[r] /\ reply'[r] = "none"
      /\ \A q \in Req : backend'[q] = "receiving" => backend[q] = "receiving"
    BY <1>2, <1>3 DEF web
<1>5. received[r] \in 0..MaxBlocks /\ flushed[r] <= received[r]
    BY <1>1 DEF UploadTypeOK
<1>6. /\ FileInv' /\ file' \in [Block -> Req \cup {NoReq}]
      /\ flushed' \in [Req -> 0..MaxBlocks] /\ flushed'[r] = received[r]
      /\ \A q \in Req \ {r} : flushed'[q] = flushed[q]
    BY <1>3, <1>4, <1>5, FlushInv
<1>7. UploadTypeOK'
  <2>1. \A q \in Req : flushed'[q] \in 0..received'[q]
    BY <1>1, <1>3, <1>5, <1>6 DEF UploadTypeOK
  <2> QED
    BY <1>1, <1>3, <1>6, <2>1 DEF UploadTypeOK
<1>8. TransferOK(r)'
    BY <1>1, <1>3, <1>4 DEF TransferOK
<1>9. CASE operation_type[r] = "Upload" /\ \E status \in EndStatus(r) : SetStatus(r, status)
  <2>1. PICK status \in {"Success", "Failed"} :
          SetStatus(r, status) /\ (status = "Success" => received[r] = 0)
    BY <1>9 DEF EndStatus
  <2>2. objid[r] # 0
    BY <1>3, <1>9, HasRecord
  <2>3. /\ TransferStep(r) /\ files_table'[objid[r]].file_status = status
        /\ \A i \in DOMAIN files_table' \ {objid[r]} : files_table'[i] = files_table[i]
    BY <1>1, <1>3, <2>1, <2>2, StatusTransfer
  <2>4. OutcomeOK(r)'
    BY <1>4, <2>1, <2>3 DEF OutcomeOK
  <2>5. status = "Success" => LeftAtZero(r)'
    BY <1>3, <1>4, <2>1 DEF LeftAtZero, HangUp, web
  <2>6. WitnessOK(objid[r])'
    BY <1>4, <2>1, <2>3, <2>5 DEF WitnessOK
  <2>7. \A i \in DOMAIN files_table' : WitnessOK(i)' \/ files_table'[i] = files_table[i]
    BY <1>4, <2>3, <2>6
  <2> QED
    BY <1>3, <1>6, <1>7, <1>8, <2>3, <2>4, <2>7, TransferStepInv
<1>10. CASE backend[r] = "connected" /\ UNCHANGED files_table
  <2>1. TransferStep(r)
    <3>1. "closed" \in Place /\ Replies(r)
      BY <1>3 DEF Place, Replies
    <3> QED
      BY <1>1, <1>3, <1>10, <3>1, QuietTransfer
  <2>2. OutcomeOK(r)'
    BY <1>1, <1>3, <1>4, <1>10 DEF OutcomeOK, TransferOK
  <2> QED
    BY <1>3, <1>6, <1>7, <1>8, <1>10, <2>1, <2>2, TransferStepInv
<1> QED
    BY <1>9, <1>10 DEF HangUp

-----------------------------------------------------------------------------
(***************************************************************************)
(* Clients that leave, crashes and restarts.                               *)
(***************************************************************************)

LEMMA CrashInv ==
    ASSUME IInv, WebCrash \/ BackendCrash \/ Restart \/ \E r \in Req : Leave(r)
    PROVE  IInv'
<1>1. TypeInv /\ TableKept /\ UNCHANGED files_table
    BY SameTable DEF IInv, WebCrash, BackendCrash, Restart, Leave
<1>2. UNCHANGED <<operation_type, file_size, objid, received, flushed, stream, file, last,
                  disturbed, reply, raced>>
    BY DEF WebCrash, BackendCrash, Restart, Leave, storage, web
<1>3. /\ handler \in [Req -> {"idle", "insert", "send", "piped", "unanswered", "ended"}]
      /\ backend \in [Req -> Place \cup {"none", "dead"}]
      /\ gone \subseteq Req /\ crashes \in 0..MaxCrashes /\ up \in BOOLEAN
    BY <1>1 DEF TypeInv, TypeOK, Place
<1>4. /\ handler' \in [Req -> {"idle", "insert", "send", "piped", "unanswered", "ended"}]
      /\ \A r \in Req : handler'[r] \in {handler[r], "ended"} /\ (handler[r] = "idle" => handler'[r] = "idle")
    BY <1>3 DEF WebCrash, BackendCrash, Restart, Leave, web
<1>5. /\ backend' \in [Req -> Place \cup {"none", "dead"}]
      /\ \A r \in Req : \/ backend'[r] = backend[r]
                        \/ /\ backend'[r] = "dead"
                           /\ backend[r] \in {"connected", "receiving", "finishing", "ignored"}
    BY <1>3 DEF WebCrash, BackendCrash, Restart, Leave, storage
<1>6. TypeInv'
  <2>1. gone' \subseteq Req /\ up' \in BOOLEAN
    BY <1>3 DEF WebCrash, BackendCrash, Restart, Leave, storage, web
  <2>2. crashes' \in 0..MaxCrashes
    BY <1>3 DEF WebCrash, BackendCrash, Restart, Leave
  <2> QED
    BY <1>1, <1>2, <1>4, <1>5, <2>1, <2>2 DEF TypeInv, TypeOK, Place
<1>7. ASSUME NEW r \in Req PROVE HandlerOK(r)' /\ TransferOK(r)' /\ OutcomeOK(r)'
  <2>1. HandlerOK(r) /\ TransferOK(r) /\ OutcomeOK(r)
    BY DEF IInv, HandlerInv, TransferInv, StatusInv
  <2>2. HandlerOK(r)'
    BY <1>1, <1>2, <1>3, <1>4, <1>5, <2>1 DEF HandlerOK
  <2>3. TransferOK(r)'
    BY <1>2, <1>5, <2>1 DEF TransferOK
  <2>4. OutcomeOK(r)'
    BY <1>1, <1>2, <1>5, <2>1 DEF OutcomeOK, Sharing
  <2> QED
    BY <2>2, <2>3, <2>4
<1>8. FileInv'
    BY <1>2, <1>5, FileKept
<1>9. InsertInv'
  <2>1. \A q \in Req : handler'[q] = "insert" => handler[q] = "insert"
    BY <1>4
  <2> QED
    BY <1>1, <1>2, <2>1, InsertKept
<1>10. ASSUME NEW i \in DOMAIN files_table' PROVE WitnessOK(i)'
  <2>1. WitnessOK(i)
    BY <1>1 DEF IInv, StatusInv
  <2>2. gone \subseteq gone'
    BY DEF WebCrash, BackendCrash, Restart, Leave, web
  <2>3. \A r \in Req : LeftAtZero(r) => LeftAtZero(r)'
    BY <1>2, <1>5, <2>2 DEF LeftAtZero
  <2> QED
    BY <1>1, <1>2, <1>5, <2>1, <2>3 DEF WitnessOK
<1> QED
    BY <1>6, <1>7, <1>8, <1>9, <1>10 DEF IInv, HandlerInv, TransferInv, StatusInv

-----------------------------------------------------------------------------
(***************************************************************************)
(* The theorems.                                                           *)
(***************************************************************************)

LEMMA InitInv == Init => IInv
<1> SUFFICES ASSUME Init PROVE IInv
    OBVIOUS
<1>1. PICK w \in Workloads : operation_type = w.operation_type /\ file_size = w.file_size
    BY DEF Init
<1>2. /\ operation_type \in [Req -> {"Upload", "Download"}]
      /\ file_size \in [Req -> FileSize] /\ MaxBlocks \in Nat /\ MaxCrashes \in Nat
    BY <1>1
<1>3. files_table = <<>> /\ Len(files_table) = 0 /\ DOMAIN files_table = {}
    BY DEF Init
<1>4. TypeInv
  <2>1. files_table \in Seq(FileRecord)
    BY <1>3
  <2>2. objid \in [Req -> 0..Len(files_table)]
    BY <1>3 DEF Init
  <2>3. /\ received \in [Req -> 0..MaxBlocks] /\ flushed \in [Req -> 0..MaxBlocks]
        /\ \A r \in Req : flushed[r] \in 0..received[r]
        /\ crashes \in 0..MaxCrashes
    BY <1>2 DEF Init
  <2> QED
    BY <1>2, <2>1, <2>2, <2>3 DEF Init, TypeInv, TypeOK, FileRecord
<1>5. HandlerInv /\ TransferInv
    BY DEF Init, HandlerInv, HandlerOK, TransferInv, TransferOK
<1>6. FileInv
    BY DEF Init, FileInv, FileOK
<1>7. InsertInv
    BY <1>3 DEF Init, InsertInv, OnePendingRecord, InsertOK
<1>8. StatusInv
    BY <1>3 DEF Init, StatusInv, OutcomeOK
<1> QED
    BY <1>4, <1>5, <1>6, <1>7, <1>8 DEF IInv

LEMMA NextInv == IInv /\ [Next]_vars => IInv'
<1> SUFFICES ASSUME IInv, [Next]_vars PROVE IInv'
    OBVIOUS
<1>1. CASE UNCHANGED vars
  <2>1. UNCHANGED <<operation_type, file_size, handler, gone, objid, files_table, backend, up,
                    received, flushed, stream, file, last, disturbed, reply, crashes, raced>>
    BY <1>1 DEF vars, web, storage
  <2>2. UNCHANGED <<TypeInv, HandlerInv, TransferInv>>
    BY <2>1 DEF TypeInv, TypeOK, HandlerInv, HandlerOK, TransferInv, TransferOK
  <2>3. UNCHANGED <<FileInv, InsertInv, StatusInv>>
    BY <2>1 DEF FileInv, FileOK, InsertInv, OnePendingRecord, InsertOK, PendingFor,
                StatusInv, WitnessOK, LeftAtZero, OutcomeOK, Sharing
  <2> QED
    BY <2>2, <2>3 DEF IInv
<1>2. CASE \E r \in Req : FindRecord(r)
    BY <1>2, FindRecordInv
<1>3. CASE \E r \in Req : Handle(r)
    BY <1>3, InsertRecordInv, HandleInv DEF Handle
<1>4. CASE \E r \in Req : Transfer(r)
    BY <1>4, QuietStepInv, OpenUploadInv, ReceiveInv, FinishInv, HangUpInv DEF Transfer
<1>5. CASE WebCrash \/ BackendCrash \/ Restart \/ \E r \in Req : Leave(r)
    BY <1>5, CrashInv
<1> QED
    BY <1>1, <1>2, <1>3, <1>4, <1>5 DEF Next

\* However requests race, break off and are retried, and whatever crashes: the
\* inductive invariant of records, transfers and the file.
THEOREM RequestsInvariant == Spec => []IInv
<1> QED
    BY InitInv, NextInv, PTL DEF Spec

\* Every variable keeps its type: an object id names a record, and no more is
\* flushed than was received.
THEOREM TypeCorrect == Spec => []TypeOK
<1>1. IInv => TypeOK
    BY DEF IInv, TypeInv
<1> QED
    BY <1>1, RequestsInvariant, PTL

\* db_api_validate_if_file_already_exist and db_api_add_to_files_table keep one
\* Pending record for each operation, unless two requests race or a find fails.
THEOREM OneRecord == Spec => []OnePendingRecord
<1>1. IInv => OnePendingRecord
    BY DEF IInv, InsertInv
<1> QED
    BY <1>1, RequestsInvariant, PTL

\* An upload that was answered OK and was not disturbed is on the drive.
THEOREM OkIsStored == Spec => []OkUploadIsStored
<1>1. IInv => OkUploadIsStored
  <2> SUFFICES ASSUME IInv, NEW r \in Req, last = r, reply[r] = "OK", r \notin disturbed
               PROVE  file = [b \in Block |-> IF b <= file_size[r] THEN r ELSE NoReq]
    BY DEF OkUploadIsStored
  <2>1. stream[r] = "open" /\ file = [b \in Block |-> IF b <= flushed[r] THEN r ELSE NoReq]
    BY DEF IInv, FileInv, FileOK
  <2>2. flushed[r] = file_size[r]
    BY <2>1 DEF IInv, TransferInv, TransferOK
  <2> QED
    BY <2>1, <2>2
<1> QED
    BY <1>1, RequestsInvariant, PTL

\* update_file_status, called by whichever transfer ends, makes the record agree
\* with an answer of a request that uses it.
THEOREM OutcomesTold == Spec => []RecordTellsOutcome
<1>1. IInv => RecordTellsOutcome
  <2> SUFFICES ASSUME IInv PROVE RecordTellsOutcome
    OBVIOUS
  <2>1. ASSUME NEW i \in DOMAIN files_table
        PROVE  LET users == {r \in Req : objid[r] = i}
               IN  /\ files_table[i].file_status = "Success" =>
                        \E r \in users : reply[r] = "OK" \/ LeftAtZero(r)
                   /\ files_table[i].file_status = "Failed" => \E r \in users : reply[r] # "OK"
    <3>1. WitnessOK(i)
      BY DEF IInv, StatusInv
    <3>2. \A r \in Req : reply[r] = "none" => reply[r] # "OK"
      OBVIOUS
    <3> QED
      BY <3>1, <3>2 DEF WitnessOK
  <2>2. \A r \in Req : OutcomeOK(r)
    BY DEF IInv, StatusInv
  <2> QED
    BY <2>1, <2>2 DEF OutcomeOK, RecordTellsOutcome
<1> QED
    BY <1>1, RequestsInvariant, PTL

\* A record is left Pending only by a refusal, a missing file, or an early end.
THEOREM PendingExplained == Spec => []PendingHasCause
<1>1. IInv => PendingHasCause
    BY DEF IInv, StatusInv, OutcomeOK, PendingHasCause
<1> QED
    BY <1>1, RequestsInvariant, PTL
=============================================================================
