-------------------------- MODULE UploadQueueProofs --------------------------
(***************************************************************************)
(* UploadQueue, for every number of files and of directories and every     *)
(* UnitsPerPush: what is stored is shown where it was stored, the icon     *)
(* tells the uploads, and the queue implements UploadPool.                 *)
(***************************************************************************)
EXTENDS UploadQueue, SequenceTheorems, FiniteSetTheorems, TLAPS

Started(f) == upload[f] \in {"sending", "stored", "error"}

\* What waits is queued, and nothing else is.
QueueInv == ToSet(files_to_send_queue) = {f \in File : upload[f] = "queued"}

\* What is sent in the directory the page shows goes where it shows it.
PlaceInv == \A f \in Sending : f \in moved \/ sent_to[f] = curr_dir

LoadedInv ==
    \A f \in File :
        /\ ~Started(f) => loaded[f] = 0
        /\ upload[f] = "stored" => Sent(f)
        /\ identifier[f] <= now

\* The record of an upload that shares it with none is the upload's progress, or
\* that rounded by a tick since, and a record has an upload.
RecordInv ==
    /\ \A f \in File : Started(f) /\ Alone(f) =>
           op_percentage[identifier[f]] \in {loaded[f], Rounded(loaded[f])}
    /\ \A t \in 0..MaxClock : op_percentage[t] # NoRecord =>
           \E f \in File : Started(f) /\ identifier[f] = t

IInv == TypeOK /\ QueueInv /\ PlaceInv /\ LoadedInv /\ RecordInv /\ ShownWhereStored

\* What Send does, in terms of the set of the files it sends.
Starting(fs, queue, were) ==
    /\ files_to_send_queue' \in Seq(File) /\ IsInjective(files_to_send_queue')
    /\ ToSet(files_to_send_queue') = ToSet(queue) \ fs
    /\ upload' = [f \in File |-> IF f \in fs THEN "sending"
                                 ELSE IF f \in ToSet(queue) THEN "queued" ELSE were[f]]
    /\ sent_to' = [f \in File |-> IF f \in fs THEN curr_dir ELSE sent_to[f]]
    /\ now' \in 0..MaxClock /\ now <= now'
    /\ identifier' \in [File -> 0..MaxClock]
    /\ \A f \in fs : identifier'[f] \in now..now'
    /\ \A f \in File \ fs : identifier'[f] = identifier[f]
    /\ op_percentage' = [t \in 0..MaxClock |-> IF \E f \in fs : identifier'[f] = t THEN 0
                                               ELSE op_percentage[t]]
    /\ icon' \in {icon, "red"}

USE UploadQueueAssumption

\* Rounding: it keeps what is rounded, and turns into 100 what is 99.5 or more.
LEMMA Rounding ==
    ASSUME NEW p \in Permille
    PROVE  /\ Rounded(p) \in Permille /\ Rounded(Rounded(p)) = Rounded(p)
           /\ Rounded(p) < 1000 <=> p < 995
    BY DEF Rounded, Permille

\* What there is to tell of an upload, and no record is.
LEMMA PermilleType ==
    /\ 0 \in Permille /\ 1000 \in Permille /\ NoRecord \notin Permille /\ Percentage \subseteq Permille
    /\ \A p \in Permille : p \in Int /\ (p < 1000 \/ p = 1000)
    BY PercentageAssumption DEF Permille, NoRecord

-----------------------------------------------------------------------------
(***************************************************************************)
(* Queues as sets.                                                         *)
(***************************************************************************)

\* A selection is some files, in some order, each of them once.
LEMMA SelectionType ==
    ASSUME NEW chosen \in Selections
    PROVE  /\ chosen \in Seq(File) /\ Len(chosen) \in Nat
           /\ IsInjective(chosen)
<1>1. PICK fs \in SUBSET File : chosen \in SetToSeqs(fs)
    BY DEF Selections
<1>2. IsFiniteSet(fs) /\ Cardinality(fs) \in Nat
    BY FS_Subset, FS_CardinalityType
<1>3. /\ chosen \in [1..Cardinality(fs) -> fs]
      /\ \A i, j \in 1..Cardinality(fs) : i # j => chosen[i] # chosen[j]
    BY <1>1 DEF SetToSeqs
<1>4. chosen \in Seq(File) /\ Len(chosen) = Cardinality(fs)
    BY <1>2, <1>3
<1> QED
    BY <1>2, <1>3, <1>4 DEF IsInjective

\* The last n elements of a queue and the rest of it.
LEMMA Split ==
    ASSUME NEW queue \in Seq(File), IsInjective(queue), NEW n \in 0..Len(queue)
    PROVE  LET rest == SubSeq(queue, 1, Len(queue) - n)
               fs == {queue[k] : k \in Len(queue) - n + 1 .. Len(queue)}
           IN  /\ rest \in Seq(File) /\ IsInjective(rest)
               /\ fs \subseteq ToSet(queue) /\ ToSet(rest) = ToSet(queue) \ fs
               /\ IsFiniteSet(fs) /\ Cardinality(fs) = n
<1> DEFINE size == Len(queue)
           rest == SubSeq(queue, 1, size - n)
           last == size - n + 1 .. size
           fs == {queue[k] : k \in last}
<1>1. size \in Nat /\ queue \in [1..size -> File] /\ DOMAIN queue = 1..size
    BY LenProperties
<1>2. rest \in Seq(File) /\ Len(rest) = size - n /\ \A k \in 1..size - n : rest[k] = queue[k]
  <2>1. \A k \in 1..size - n : queue[k] \in File
    BY <1>1
  <2>2. 1 \in Int /\ size - n \in Int /\ size - n >= 0
    BY <1>1
  <2> HIDE DEF size
  <2> QED
    BY <2>1, <2>2
<1>3. DOMAIN rest = 1..size - n
    BY <1>2, LenProperties
<1>4. IsInjective(rest)
  <2>1. \A j, k \in 1..size : queue[j] = queue[k] => j = k
    BY <1>1 DEF IsInjective
  <2>2. 1..size - n \subseteq 1..size
    BY <1>1
  <2>3. \A j, k \in 1..size - n : rest[j] = rest[k] => j = k
    BY <1>2, <2>1, <2>2
  <2> HIDE DEF rest, size
  <2> QED
    BY <1>3, <2>3 DEF IsInjective
<1>5. 1..size = (1..size - n) \cup last /\ (1..size - n) \cap last = {}
    BY <1>1
<1>6. fs \subseteq ToSet(queue)
    BY <1>1 DEF ToSet
<1>7. ToSet(rest) = ToSet(queue) \ fs
  <2>1. ToSet(rest) = {queue[k] : k \in 1..size - n}
    BY <1>2, <1>3 DEF ToSet
  <2>2. ToSet(queue) = {queue[k] : k \in 1..size}
    BY <1>1 DEF ToSet
  <2>3. \A j, k \in 1..size : queue[j] = queue[k] => j = k
    BY <1>1 DEF IsInjective
  <2> HIDE DEF last
  <2> QED
    BY <2>1, <2>2, <2>3, <1>5
<1>8. IsFiniteSet(last) /\ Cardinality(last) = n
  <2>1. size - n + 1 \in Int /\ size \in Int
    BY <1>1
  <2>2. IsFiniteSet(last)
           /\ Cardinality(last) = IF size - n + 1 > size THEN 0 ELSE size - (size - n + 1) + 1
    BY <2>1, FS_Interval
  <2> QED
    BY <1>1, <2>2
<1>9. ExistsBijection(last, fs)
  <2> DEFINE g == [k \in last |-> queue[k]]
  <2>1. g \in [last -> fs] /\ \A j, k \in last : g[j] = g[k] => j = k
    BY <1>1, <1>5 DEF IsInjective
  <2>2. \A f \in fs : \E k \in last : g[k] = f
    OBVIOUS
  <2>3. DOMAIN g = last
    OBVIOUS
  <2> HIDE DEF g, last, fs
  <2>4. g \in Injection(last, fs)
    BY <2>1, <2>3 DEF Injection, IsInjective
  <2>5. g \in Surjection(last, fs)
    BY <2>1, <2>2 DEF Surjection
  <2> QED
    BY <2>4, <2>5 DEF ExistsBijection, Bijection
<1> QED
    BY <1>2, <1>4, <1>6, <1>7, <1>8, <1>9, FS_Bijection

\* Send starts n files of the queue, the last one among them.
LEMMA SendStarts ==
    ASSUME TypeOK, NEW queue \in Seq(File), IsInjective(queue), NEW n \in 0..Len(queue),
           NEW were, Send(n, queue, were)
    PROVE  \E fs \in SUBSET ToSet(queue) :
               /\ Starting(fs, queue, were)
               /\ IsFiniteSet(fs) /\ Cardinality(fs) = n
               /\ n # 0 => queue[Len(queue)] \in fs
<1> DEFINE size == Len(queue)
           rest == SubSeq(queue, 1, size - n)
           nth(f) == size + 1 - CHOOSE k \in DOMAIN queue : queue[k] = f
           last == size - n + 1 .. size
           fs == {queue[k] : k \in last}
<1>1. size \in Nat /\ n \in Nat /\ n <= size /\ queue \in [1..size -> File] /\ DOMAIN queue = 1..size
    BY LenProperties
<1>2. /\ rest \in Seq(File) /\ IsInjective(rest)
      /\ fs \subseteq ToSet(queue) /\ ToSet(rest) = ToSet(queue) \ fs
      /\ IsFiniteSet(fs) /\ Cardinality(fs) = n
    BY Split
<1>3. /\ files_to_send_queue' = rest
      /\ upload' = [f \in File |-> IF f \in fs THEN "sending"
                                   ELSE IF f \in ToSet(rest) THEN "queued" ELSE were[f]]
      /\ sent_to' = [f \in File |-> IF f \in fs THEN curr_dir ELSE sent_to[f]]
      /\ icon' = IF n = 0 THEN icon ELSE "red"
    BY DEF Send
<1>4. PICK time \in [1..n -> now..MaxClock] :
          /\ \A j, k \in 1..n : j < k => time[j] <= time[k]
          /\ now' = IF n = 0 THEN now ELSE time[n]
          /\ identifier' = [f \in File |-> IF f \in fs THEN time[nth(f)] ELSE identifier[f]]
          /\ op_percentage' = [t \in 0..MaxClock |->
                 IF \E k \in 1..n : time[k] = t THEN 0 ELSE op_percentage[t]]
    BY DEF Send
<1>5. \A k \in last : nth(queue[k]) = size + 1 - k
  <2>1. \A j, k \in 1..size : queue[j] = queue[k] => j = k
    BY <1>1 DEF IsInjective
  <2>2. ASSUME NEW k \in last PROVE (CHOOSE j \in DOMAIN queue : queue[j] = queue[k]) = k
    BY <1>1, <2>1
  <2> QED
    BY <2>2
<1>6. \A k \in last : size + 1 - k \in 1..n
    BY <1>1
<1>7. \A k \in 1..n : size + 1 - k \in last /\ size + 1 - (size + 1 - k) = k
    BY <1>1
<1> HIDE DEF nth
<1>8. \A f \in fs : nth(f) \in 1..n /\ f \in File
    BY <1>1, <1>5, <1>6
<1>9. \A k \in 1..n : \E f \in fs : nth(f) = k
    BY <1>5, <1>7, ZenonT(30)
<1> HIDE DEF size, rest, last, fs
<1>10. now \in 0..MaxClock /\ identifier \in [File -> 0..MaxClock]
    BY DEF TypeOK
<1>11. \A f \in fs : identifier'[f] = time[nth(f)] /\ f \in File
    BY <1>4, <1>8
<1>12. \A k \in 1..n : time[k] \in Nat /\ now <= time[k] /\ time[k] <= MaxClock /\ time[k] <= now'
  <2>1. \A k \in 1..n : time[k] \in now..MaxClock
    BY <1>4
  <2>2. ASSUME NEW k \in 1..n PROVE time[k] <= now'
    <3>1. n # 0 /\ n \in 1..n /\ now' = time[n] /\ time[k] \in Int /\ (k = n \/ k < n)
        BY <1>1, <1>4, <1>10, <2>1
    <3> QED
        BY <1>4, <3>1
  <2> QED
    BY <1>10, <2>1, <2>2
<1>13. now' \in 0..MaxClock /\ now <= now'
  <2>1. CASE n = 0
    BY <1>4, <1>10, <2>1
  <2>2. CASE n # 0
    BY <1>1, <1>4, <1>10, <1>12, <2>2
  <2> QED
    BY <2>1, <2>2
<1>14. \A f \in fs : identifier'[f] \in now..now' /\ identifier'[f] \in 0..MaxClock
    BY <1>8, <1>10, <1>11, <1>12, <1>13
<1>15. identifier' \in [File -> 0..MaxClock] /\ \A f \in File \ fs : identifier'[f] = identifier[f]
    BY <1>4, <1>10, <1>14
<1>16. \A t : (\E k \in 1..n : time[k] = t) <=> (\E f \in fs : identifier'[f] = t)
    BY <1>8, <1>9, <1>11
<1>17. op_percentage' = [t \in 0..MaxClock |-> IF \E f \in fs : identifier'[f] = t THEN 0
                                               ELSE op_percentage[t]]
    BY <1>4, <1>16
<1>18. upload' = [f \in File |-> IF f \in fs THEN "sending"
                                 ELSE IF f \in ToSet(queue) THEN "queued" ELSE were[f]]
    BY <1>2, <1>3
<1>19. Starting(fs, queue, were)
    BY <1>2, <1>3, <1>13, <1>14, <1>15, <1>17, <1>18 DEF Starting
<1>20. n # 0 => queue[size] \in fs
    BY <1>1 DEF fs, last
<1> QED
    BY <1>2, <1>19, <1>20 DEF size

-----------------------------------------------------------------------------
(***************************************************************************)
(* The invariant.                                                          *)
(***************************************************************************)
State == {"new", "queued", "sending", "stored", "error"}

LEMMA InitInv == Init => IInv
<1> SUFFICES ASSUME Init PROVE IInv
    OBVIOUS
<1>1. TypeOK
  <2>1. files_to_send_queue \in Seq(File)
    BY DEF Init
  <2>2. IsInjective(files_to_send_queue)
    BY DEF Init, IsInjective
  <2>3. icon \in {"red", "plain"}
    BY DEF Init
  <2>4. now \in 0..MaxClock
    BY DEF Init
  <2> QED
    BY <2>1, <2>2, <2>3, <2>4 DEF Init, TypeOK
<1>2. QueueInv
    BY DEF Init, QueueInv, ToSet
<1>3. RecordInv
    BY DEF Init, RecordInv, Started
<1> QED
    BY <1>1, <1>2, <1>3 DEF Init, IInv, PlaceInv, LoadedInv, ShownWhereStored, Sending, Started

\* What a step does to the uploads it does not start: one may end, in the
\* directory the page shows.
Ending(queue, were) ==
    /\ were \in [File -> State]
    /\ \A f \in ToSet(queue) : f \in File /\ ~Started(f)
    /\ \A f \in File \ ToSet(queue) : upload[f] # "queued"
    /\ \A f \in File :
          /\ were[f] = upload[f] \/ (upload[f] = "sending" /\ were[f] \in {"stored", "error"})
          /\ were[f] = "stored" /\ upload[f] # "stored" =>
                Sent(f) /\ [at |-> curr_dir, file |-> f] \in file_sys_repo'

LEMMA StartingInv ==
    ASSUME IInv, NEW queue \in Seq(File), NEW fs \in SUBSET ToSet(queue), NEW were,
           Starting(fs, queue, were), Ending(queue, were),
           UNCHANGED <<loaded, curr_dir, moved>>,
           file_sys_repo \subseteq file_sys_repo', file_sys_repo' \subseteq [at : Place, file : File]
    PROVE  IInv'
<1>1. /\ upload \in [File -> State] /\ sent_to \in [File -> Place] /\ curr_dir \in Place
      /\ identifier \in [File -> 0..MaxClock] /\ now \in 0..MaxClock
      /\ loaded \in [File -> Percentage] /\ moved \subseteq File /\ icon \in {"red", "plain"}
      /\ op_percentage \in [0..MaxClock -> Permille \cup {NoRecord}]
    BY DEF IInv, TypeOK, State
<1>2. /\ were \in [File -> State] /\ fs \subseteq File /\ ToSet(queue) \subseteq File
      /\ \A f \in fs : ~Started(f) /\ upload'[f] = "sending" /\ sent_to'[f] = curr_dir
    BY DEF Starting, Ending
<1>3. \A f \in ToSet(queue) \ fs : ~Started(f) /\ upload'[f] = "queued" /\ sent_to'[f] = sent_to[f]
    BY <1>2 DEF Starting, Ending
<1>4. \A f \in File \ ToSet(queue) : upload'[f] = were[f] /\ sent_to'[f] = sent_to[f]
                                      /\ were[f] # "queued"
  <2>1. \A f \in File \ ToSet(queue) : upload'[f] = were[f] /\ sent_to'[f] = sent_to[f]
    BY <1>2 DEF Starting
  <2>2. \A f \in File \ ToSet(queue) : were[f] # "queued"
    BY ZenonT(30) DEF Ending
  <2> QED
    BY <2>1, <2>2
<1>5. \A f \in File \ fs : identifier'[f] = identifier[f]
    BY DEF Starting
<1>6. TypeOK'
  <2>1. upload' \in [File -> State] /\ sent_to' \in [File -> Place]
    BY <1>1, <1>2 DEF Starting, State
  <2>2. op_percentage' \in [0..MaxClock -> Permille \cup {NoRecord}]
    BY <1>1, PermilleType DEF Starting
  <2>3. /\ files_to_send_queue' \in Seq(File) /\ IsInjective(files_to_send_queue')
        /\ identifier' \in [File -> 0..MaxClock] /\ now' \in 0..MaxClock /\ icon' \in {"red", "plain"}
    BY <1>1 DEF Starting
  <2> QED
    BY <1>1, <2>1, <2>2, <2>3 DEF TypeOK, State
<1>7. QueueInv'
  <2>1. ToSet(files_to_send_queue') = ToSet(queue) \ fs
    BY DEF Starting
  <2> QED
    BY <1>2, <1>3, <1>4, <2>1 DEF QueueInv
<1>8. PlaceInv'
  <2> SUFFICES ASSUME NEW f \in File, upload'[f] = "sending"
               PROVE  f \in moved \/ sent_to'[f] = curr_dir
    BY DEF PlaceInv, Sending
  <2>1. CASE f \in fs
    BY <1>2, <2>1
  <2>2. CASE f \notin fs
    <3>1. were[f] = "sending" /\ sent_to'[f] = sent_to[f]
        BY <1>3, <1>4, <2>2
    <3>2. f \in Sending
        BY <3>1 DEF Ending, Sending
    <3> QED
        BY <3>1, <3>2 DEF IInv, PlaceInv
  <2> QED
    BY <2>1, <2>2
\* Nothing is unsent again, and only what is sent starts.
<1>9. \A f \in File : Started(f)' <=> Started(f) \/ f \in fs
  <2> SUFFICES ASSUME NEW f \in File PROVE Started(f)' <=> Started(f) \/ f \in fs
    OBVIOUS
  <2>1. CASE f \in fs
    BY <1>2, <2>1 DEF Started
  <2>2. CASE f \in ToSet(queue) \ fs
    BY <1>3, <2>2 DEF Started
  <2>3. CASE f \in File \ ToSet(queue)
    <3>1. upload'[f] = were[f] /\ f \notin fs
        BY <1>4, <2>3
    <3>2. were[f] = upload[f] \/ (upload[f] = "sending" /\ were[f] \in {"stored", "error"})
        BY DEF Ending
    <3> QED
        BY <3>1, <3>2 DEF Started
  <2> QED
    BY <2>1, <2>2, <2>3
<1>10. LoadedInv'
  <2>1. now \in Int /\ now' \in Int /\ now <= now'
    BY <1>1 DEF Starting
  <2>2. \A f \in fs : identifier'[f] \in Int /\ identifier'[f] <= now'
    BY <2>1 DEF Starting
  <2>3. \A f \in File \ fs : identifier'[f] \in Int /\ identifier'[f] <= now'
    BY <1>1, <1>5, <2>1 DEF IInv, LoadedInv
  <2>4. \A f \in File : upload'[f] = "stored" => Sent(f)
    <3> SUFFICES ASSUME NEW f \in File, upload'[f] = "stored" PROVE Sent(f)
        OBVIOUS
    <3>1. f \notin fs
        BY <1>2
    <3>2. f \notin ToSet(queue)
        BY <1>3, <3>1
    <3>3. were[f] = "stored"
        BY <1>4, <3>2
    <3>4. CASE upload[f] = "stored"
        BY <3>4 DEF IInv, LoadedInv
    <3>5. CASE upload[f] # "stored"
        BY <3>3, <3>5 DEF Ending
    <3> QED
        BY <3>4, <3>5
  <2> QED
    BY <1>9, <2>2, <2>3, <2>4 DEF IInv, LoadedInv, Sent
<1>11. RecordInv'
  <2>1. op_percentage' = [t \in 0..MaxClock |-> IF \E f \in fs : identifier'[f] = t THEN 0
                                                ELSE op_percentage[t]]
    BY DEF Starting
  <2>2. ASSUME NEW f \in File, Started(f)', Alone(f)'
        PROVE  op_percentage'[identifier'[f]] \in {loaded'[f], Rounded(loaded'[f])}
    <3>1. CASE f \in fs
      <4>1. identifier'[f] \in 0..MaxClock /\ loaded'[f] = 0
        BY <1>1, <1>2, <3>1 DEF IInv, LoadedInv, Starting
      <4> QED
        BY <2>1, <3>1, <4>1
    <3>2. CASE f \notin fs
      <4>1. Started(f) /\ identifier'[f] = identifier[f] /\ identifier[f] \in 0..MaxClock
        BY <1>1, <1>5, <1>9, <2>2, <3>2
      <4>2. ASSUME NEW g \in fs PROVE identifier'[g] # identifier[f]
        BY <1>2, <2>2, <3>2, <4>1 DEF Alone
      <4>3. Alone(f)
        <5>1. ASSUME NEW g \in File \ {f}, Started(g) PROVE identifier[g] # identifier[f]
          <6>1. g \notin fs /\ Started(g)'
            BY <1>2, <1>9, <5>1
          <6> QED
            BY <1>5, <2>2, <4>1, <6>1 DEF Alone, Started
        <5> QED
          BY <1>1, <5>1 DEF Alone, Started, State
      <4> QED
        BY <2>1, <4>1, <4>2, <4>3 DEF IInv, RecordInv
    <3> QED
        BY <3>1, <3>2
  <2>3. ASSUME NEW t \in 0..MaxClock, op_percentage'[t] # NoRecord
        PROVE  \E f \in File : Started(f)' /\ identifier'[f] = t
    <3>1. CASE \E f \in fs : identifier'[f] = t
        BY <1>2, <1>9, <3>1
    <3>2. CASE ~\E f \in fs : identifier'[f] = t
      <4>1. op_percentage[t] # NoRecord
        BY <2>1, <2>3, <3>2
      <4>2. PICK f \in File : Started(f) /\ identifier[f] = t
        BY <4>1 DEF IInv, RecordInv
      <4> QED
        BY <1>2, <1>5, <1>9, <4>2
    <3> QED
        BY <3>1, <3>2
  <2> QED
    BY <2>2, <2>3 DEF RecordInv
<1>12. ShownWhereStored'
  <2> SUFFICES ASSUME NEW f \in File, upload'[f] = "stored"
               PROVE  \/ [at |-> sent_to'[f], file |-> f] \in file_sys_repo' /\ sent_to'[f].slash
                      \/ f \in moved'
                      \/ ~sent_to'[f].slash
    BY DEF ShownWhereStored
  <2>1. were[f] = "stored" /\ sent_to'[f] = sent_to[f]
    BY <1>2, <1>3, <1>4
  <2>2. CASE upload[f] = "stored"
    BY <2>1, <2>2 DEF IInv, ShownWhereStored
  <2>3. CASE upload[f] # "stored"
    <3>1. upload[f] = "sending" /\ [at |-> curr_dir, file |-> f] \in file_sys_repo'
        BY <2>1, <2>3 DEF Ending
    <3> QED
        BY <2>1, <3>1 DEF IInv, PlaceInv, Sending
  <2> QED
    BY <2>2, <2>3
<1> QED
    BY <1>6, <1>7, <1>8, <1>10, <1>11, <1>12 DEF IInv

\* The files selected go behind those that wait.
LEMMA QueueSelected ==
    ASSUME TypeOK, QueueInv, NEW chosen \in Selections,
           files_to_send_queue \o chosen # <<>>,
           \A k \in DOMAIN chosen : upload[chosen[k]] = "new"
    PROVE  LET queue == files_to_send_queue \o chosen
           IN  /\ queue \in Seq(File) /\ IsInjective(queue) /\ Len(queue) \in Nat \ {0}
               /\ ToSet(queue) = ToSet(files_to_send_queue) \cup ToSet(chosen)
<1> DEFINE q == files_to_send_queue
           queue == q \o chosen
<1>1. /\ chosen \in Seq(File) /\ Len(chosen) \in Nat /\ IsInjective(chosen)
      /\ q \in Seq(File) /\ IsInjective(q)
    BY SelectionType DEF TypeOK
<1>2. /\ Len(q) \in Nat /\ DOMAIN q = 1..Len(q)
      /\ Len(chosen) \in Nat /\ DOMAIN chosen = 1..Len(chosen)
    BY <1>1, LenProperties
<1>3. /\ queue \in Seq(File) /\ Len(queue) = Len(q) + Len(chosen)
      /\ \A k \in 1..Len(q) + Len(chosen) :
             queue[k] = IF k <= Len(q) THEN q[k] ELSE chosen[k - Len(q)]
    BY <1>1, ConcatProperties
<1>4. DOMAIN queue = 1..Len(q) + Len(chosen)
    BY <1>3, LenProperties
<1> HIDE DEF queue
<1>5. \A k \in 1..Len(q) : queue[k] = q[k] /\ upload[q[k]] = "queued"
    BY <1>2, <1>3 DEF QueueInv, ToSet
<1>6. \A k \in 1..Len(chosen) : queue[Len(q) + k] = chosen[k] /\ upload[chosen[k]] = "new"
    BY <1>2, <1>3
<1>7. \A k \in DOMAIN queue : k \in 1..Len(q) \/ \E j \in 1..Len(chosen) : k = Len(q) + j
  <2>1. ASSUME NEW k \in DOMAIN queue, k \notin 1..Len(q)
        PROVE  k - Len(q) \in 1..Len(chosen) /\ k = Len(q) + (k - Len(q))
    BY <1>2, <1>4, <2>1
  <2> QED
    BY <2>1
<1>8. IsInjective(queue)
  <2> SUFFICES ASSUME NEW j \in DOMAIN queue, NEW k \in DOMAIN queue, queue[j] = queue[k]
               PROVE  j = k
    BY DEF IsInjective
  <2>1. \A a, b \in 1..Len(q) : q[a] = q[b] => a = b
    BY <1>1, <1>2 DEF IsInjective
  <2>2. \A a, b \in 1..Len(chosen) : chosen[a] = chosen[b] => a = b
    BY <1>1, <1>2 DEF IsInjective
  <2>3. CASE j \in 1..Len(q) /\ k \in 1..Len(q)
    BY <1>5, <2>1, <2>3
  <2>4. CASE j \notin 1..Len(q) /\ k \notin 1..Len(q)
    <3>1. PICK a \in 1..Len(chosen) : j = Len(q) + a
        BY <1>7, <2>4
    <3>2. PICK b \in 1..Len(chosen) : k = Len(q) + b
        BY <1>7, <2>4
    <3>3. queue[j] = chosen[a] /\ queue[k] = chosen[b]
        BY <1>6, <3>1, <3>2
    <3>4. chosen[a] = chosen[b]
        BY <3>3
    <3>5. a = b
        BY <2>2, <3>4
    <3> QED
        BY <3>1, <3>2, <3>5
  <2>5. ASSUME NEW a \in 1..Len(q), NEW b \in DOMAIN queue, b \notin 1..Len(q)
        PROVE  queue[a] # queue[b]
    <3>1. PICK c \in 1..Len(chosen) : b = Len(q) + c
        BY <1>7, <2>5
    <3> QED
        BY <1>5, <1>6, <3>1
  <2> QED
    BY <2>3, <2>4, <2>5
<1>9. ToSet(queue) = ToSet(q) \cup ToSet(chosen)
  <2>1. (1..Len(q)) \subseteq DOMAIN queue /\ \A k \in 1..Len(chosen) : Len(q) + k \in DOMAIN queue
    BY <1>2, <1>4
  <2>2. ToSet(q) = {q[k] : k \in 1..Len(q)} /\ ToSet(chosen) = {chosen[k] : k \in 1..Len(chosen)}
    BY <1>2 DEF ToSet
  <2>3. ToSet(queue) \subseteq ToSet(q) \cup ToSet(chosen)
    <3> SUFFICES ASSUME NEW b \in DOMAIN queue PROVE queue[b] \in ToSet(q) \cup ToSet(chosen)
        BY DEF ToSet
    <3>1. CASE b \in 1..Len(q)
        BY <1>5, <2>2, <3>1
    <3>2. CASE b \notin 1..Len(q)
      <4>1. PICK c \in 1..Len(chosen) : b = Len(q) + c
        BY <1>7, <3>2
      <4> QED
        BY <1>6, <2>2, <4>1
    <3> QED
        BY <3>1, <3>2
  <2> HIDE DEF q, queue
  <2>4. \A k \in 1..Len(q) : k \in DOMAIN queue /\ queue[k] = q[k]
    BY <1>5, <2>1
  <2>5. ToSet(q) \subseteq ToSet(queue)
    BY <2>2, <2>4 DEF ToSet
  <2>6. ToSet(chosen) \subseteq ToSet(queue)
    BY <1>6, <2>1, <2>2 DEF ToSet
  <2> QED
    BY <2>3, <2>5, <2>6
<1>10. Len(queue) \in Nat \ {0}
  <2>1. queue # <<>>
    BY DEF queue
  <2> QED
    BY <1>3, <2>1, EmptySeq
<1> QED
    BY <1>3, <1>8, <1>9, <1>10 DEF queue

LEMMA SelectInv ==
    ASSUME IInv, NEW chosen \in Selections, Select(chosen)
    PROVE  IInv'
<1> DEFINE queue == files_to_send_queue \o chosen
<1>1. queue # <<>> /\ \A k \in DOMAIN chosen : upload[chosen[k]] = "new"
    BY DEF Select
<1>2. /\ queue \in Seq(File) /\ IsInjective(queue) /\ Len(queue) \in Nat \ {0}
      /\ ToSet(queue) = ToSet(files_to_send_queue) \cup ToSet(chosen)
    BY <1>1, QueueSelected DEF IInv
<1>3. Send(1, queue, upload) /\ UNCHANGED <<loaded, curr_dir, file_sys_repo, moved>>
    BY DEF Select
<1>4. 1 \in 0..Len(queue)
    BY <1>2
<1>5. PICK fs \in SUBSET ToSet(queue) : Starting(fs, queue, upload)
    BY <1>2, <1>3, <1>4, SendStarts DEF IInv
<1>6. Ending(queue, upload)
  <2>1. \A f \in ToSet(chosen) : f \in File /\ upload[f] = "new"
    BY <1>1, SelectionType, LenProperties DEF ToSet
  <2>2. \A f \in ToSet(files_to_send_queue) : f \in File /\ upload[f] = "queued"
    BY DEF IInv, QueueInv
  <2>3. \A f \in File \ ToSet(queue) : upload[f] # "queued"
    BY <1>2 DEF IInv, QueueInv
  <2> HIDE DEF queue
  <2>4. upload \in [File -> State]
    BY DEF IInv, TypeOK, State
  <2>5. \A f \in ToSet(queue) : f \in File /\ ~Started(f)
    BY <1>2, <2>1, <2>2 DEF Started
  <2> QED
    BY <2>3, <2>4, <2>5 DEF Ending
<1> HIDE DEF queue
<1> QED
    BY <1>2, <1>3, <1>5, <1>6, StartingInv DEF IInv, TypeOK

\* An upload that ends starts UnitsPerPush others, or all that wait.
LEMMA PushStarts ==
    ASSUME IInv, NEW f \in Sending, NEW outcome \in {"stored", "error"}, Push(f, outcome)
    PROVE  \E fs \in SUBSET ToSet(files_to_send_queue) :
               /\ Starting(fs, files_to_send_queue, [upload EXCEPT ![f] = outcome])
               /\ Cardinality(fs) <= UnitsPerPush
               /\ Cardinality(fs) = UnitsPerPush \/ fs = ToSet(files_to_send_queue)
<1> DEFINE q == files_to_send_queue
           were == [upload EXCEPT ![f] = outcome]
<1>1. q \in Seq(File) /\ IsInjective(q) /\ Len(q) \in Nat
    BY DEF IInv, TypeOK
<1>2. PICK n \in 0..Len(q) : n <= UnitsPerPush /\ (n = UnitsPerPush \/ n = Len(q)) /\ Send(n, q, were)
    BY <1>1 DEF Push
<1>3. PICK fs \in SUBSET ToSet(q) : Starting(fs, q, were) /\ IsFiniteSet(fs) /\ Cardinality(fs) = n
    BY <1>1, <1>2, SendStarts DEF IInv
<1>4. IsFiniteSet(ToSet(q)) /\ Cardinality(ToSet(q)) = Len(q)
  <2> DEFINE all == {q[k] : k \in Len(q) - Len(q) + 1 .. Len(q)}
  <2>1. Len(q) \in 0..Len(q)
    BY <1>1
  <2>2. IsFiniteSet(all) /\ Cardinality(all) = Len(q)
    BY <1>1, <2>1, Split
  <2>3. Len(q) - Len(q) + 1 = 1 /\ DOMAIN q = 1..Len(q)
    BY <1>1, LenProperties
  <2>4. all = ToSet(q)
    BY <2>3 DEF ToSet
  <2> QED
    BY <2>2, <2>4
<1>5. n = Len(q) => fs = ToSet(q)
    BY <1>3, <1>4, FS_Subset
<1> QED
    BY <1>2, <1>3, <1>5

LEMMA PushInv ==
    ASSUME IInv, NEW f \in Sending, NEW outcome \in {"stored", "error"}, Push(f, outcome),
           UNCHANGED <<loaded, curr_dir, moved>>,
           file_sys_repo \subseteq file_sys_repo', file_sys_repo' \subseteq [at : Place, file : File],
           outcome = "stored" => Sent(f) /\ [at |-> curr_dir, file |-> f] \in file_sys_repo'
    PROVE  IInv'
<1> DEFINE were == [upload EXCEPT ![f] = outcome]
<1>1. PICK fs \in SUBSET ToSet(files_to_send_queue) : Starting(fs, files_to_send_queue, were)
    BY PushStarts, ZenonT(30)
<1>2. upload \in [File -> State] /\ f \in File /\ upload[f] = "sending"
    BY DEF IInv, TypeOK, State, Sending
<1>3. were \in [File -> State] /\ were[f] = outcome /\ \A g \in File \ {f} : were[g] = upload[g]
    BY <1>2 DEF State
<1>4. Ending(files_to_send_queue, were)
  <2>1. \A g \in ToSet(files_to_send_queue) : g \in File /\ ~Started(g)
    BY DEF IInv, QueueInv, Started
  <2>2. \A g \in File \ ToSet(files_to_send_queue) : upload[g] # "queued"
    BY DEF IInv, QueueInv
  <2> HIDE DEF were
  <2> QED
    BY <1>2, <1>3, <2>1, <2>2 DEF Ending
<1> HIDE DEF were
<1> QED
    BY <1>1, <1>4, StartingInv DEF IInv, TypeOK

LEMMA SucceedInv ==
    ASSUME IInv, NEW f \in File, Succeed(f)
    PROVE  IInv'
<1>1. /\ f \in Sending /\ Sent(f) /\ Push(f, "stored") /\ UNCHANGED <<loaded, curr_dir, moved>>
      /\ file_sys_repo' = file_sys_repo \cup {[at |-> curr_dir, file |-> f]}
    BY DEF Succeed
<1>2. curr_dir \in Place /\ file_sys_repo \subseteq [at : Place, file : File]
    BY DEF IInv, TypeOK
<1> QED
    BY <1>1, <1>2, PushInv

LEMMA ErrorInv ==
    ASSUME IInv, NEW f \in File, Error(f)
    PROVE  IInv'
<1>1. f \in Sending /\ Push(f, "error") /\ UNCHANGED <<loaded, curr_dir, moved, file_sys_repo>>
    BY DEF Error
<1>2. file_sys_repo \subseteq [at : Place, file : File]
    BY DEF IInv, TypeOK
<1> QED
    BY <1>1, <1>2, PushInv

LEMMA ProgressInv ==
    ASSUME IInv, NEW f \in File, Progress(f)
    PROVE  IInv'
<1>1. PICK percentage \in Percentage :
          /\ upload[f] = "sending" /\ percentage > loaded[f]
          /\ loaded' = [loaded EXCEPT ![f] = percentage]
          /\ op_percentage' = [op_percentage EXCEPT ![identifier[f]] = percentage]
          /\ UNCHANGED <<files_to_send_queue, upload, sent_to, identifier, curr_dir, file_sys_repo,
                         icon, now, moved>>
    BY DEF Progress, Sending, request
<1>2. /\ loaded \in [File -> Percentage] /\ identifier \in [File -> 0..MaxClock]
      /\ op_percentage \in [0..MaxClock -> Permille \cup {NoRecord}]
    BY DEF IInv, TypeOK
<1>3. loaded'[f] = percentage /\ \A g \in File \ {f} : loaded'[g] = loaded[g]
    BY <1>1, <1>2
<1>4. /\ op_percentage'[identifier[f]] = percentage
      /\ \A t \in (0..MaxClock) \ {identifier[f]} : op_percentage'[t] = op_percentage[t]
    BY <1>1, <1>2
<1>5. TypeOK'
    BY <1>1, <1>2, PermilleType DEF IInv, TypeOK
<1>6. QueueInv' /\ PlaceInv' /\ ShownWhereStored'
    BY <1>1 DEF IInv, QueueInv, PlaceInv, ShownWhereStored, Sending
<1>7. LoadedInv'
  <2>1. \A g \in File : upload[g] = "stored" => (Sent(g)' <=> Sent(g))
    BY <1>1, <1>3 DEF Sent
  <2> QED
    BY <1>1, <1>3, <2>1 DEF IInv, LoadedInv, Started
<1>8. RecordInv'
  <2>1. \A g \in File : (Started(g)' <=> Started(g)) /\ (Alone(g)' <=> Alone(g)) /\ identifier'[g] = identifier[g]
    BY <1>1 DEF Started, Alone
  <2>2. ASSUME NEW g \in File, Started(g), Alone(g)
        PROVE  op_percentage'[identifier[g]] \in {loaded'[g], Rounded(loaded'[g])}
    <3>1. CASE g = f
        BY <1>3, <1>4, <3>1
    <3>2. CASE g # f
      <4>1. identifier[f] # identifier[g] /\ identifier[g] \in 0..MaxClock
        BY <1>1, <1>2, <2>2, <3>2 DEF Alone
      <4> QED
        BY <1>3, <1>4, <2>2, <3>2, <4>1 DEF IInv, RecordInv
    <3> QED
        BY <3>1, <3>2
  <2>3. ASSUME NEW t \in 0..MaxClock, op_percentage'[t] # NoRecord
        PROVE  \E g \in File : Started(g) /\ identifier[g] = t
    <3>1. Started(f)
        BY <1>1 DEF Started
    <3> QED
        BY <1>4, <2>3, <3>1 DEF IInv, RecordInv
  <2> QED
    BY <2>1, <2>2, <2>3 DEF RecordInv
<1> QED
    BY <1>5, <1>6, <1>7, <1>8 DEF IInv

LEMMA TickInv == ASSUME IInv, Tick PROVE IInv'
<1>1. /\ icon' \in {"red", "plain"} /\ op_percentage' = Shown
      /\ UNCHANGED <<files_to_send_queue, upload, sent_to, identifier, loaded, curr_dir,
                     file_sys_repo, now, moved>>
    BY DEF Tick, request
<1>2. /\ loaded \in [File -> Permille] /\ identifier \in [File -> 0..MaxClock]
      /\ op_percentage \in [0..MaxClock -> Permille \cup {NoRecord}]
    BY PermilleType DEF IInv, TypeOK
<1>3. \A t \in 0..MaxClock :
         op_percentage'[t] = IF op_percentage[t] = NoRecord THEN NoRecord ELSE Rounded(op_percentage[t])
    BY <1>1 DEF Shown
<1>4. \A p \in Permille : Rounded(p) \in Permille /\ Rounded(Rounded(p)) = Rounded(p) /\ p # NoRecord
    BY Rounding, PermilleType
<1>5. TypeOK'
  <2>1. \A t \in 0..MaxClock : op_percentage'[t] \in Permille \cup {NoRecord}
    BY <1>2, <1>3, <1>4, PermilleType
  <2>2. op_percentage' \in [0..MaxClock -> Permille \cup {NoRecord}]
    BY <1>1, <2>1 DEF Shown
  <2> QED
    BY <1>1, <2>2 DEF IInv, TypeOK
<1>6. RecordInv'
  <2>1. ASSUME NEW f \in File, Started(f)', Alone(f)'
        PROVE  op_percentage'[identifier'[f]] \in {loaded'[f], Rounded(loaded'[f])}
    <3>1. Started(f) /\ Alone(f) /\ identifier'[f] = identifier[f] /\ loaded'[f] = loaded[f]
        BY <1>1, <2>1 DEF Started, Alone
    <3>2. op_percentage[identifier[f]] \in {loaded[f], Rounded(loaded[f])}
        BY <3>1 DEF IInv, RecordInv
    <3>3. identifier[f] \in 0..MaxClock /\ loaded[f] \in Permille
        BY <1>2
    <3>4. op_percentage'[identifier[f]] = Rounded(loaded[f])
        BY <1>3, <1>4, <3>2, <3>3
    <3> QED
        BY <3>1, <3>4
  <2>2. ASSUME NEW t \in 0..MaxClock, op_percentage'[t] # NoRecord
        PROVE  \E f \in File : Started(f)' /\ identifier'[f] = t
    <3>1. PICK f \in File : Started(f) /\ identifier[f] = t
        BY <1>3, <2>2 DEF IInv, RecordInv
    <3> QED
        BY <1>1, <3>1 DEF Started
  <2> QED
    BY <2>1, <2>2 DEF RecordInv
<1> QED
    BY <1>1, <1>5, <1>6 DEF IInv, QueueInv, PlaceInv, LoadedInv, Sent, ShownWhereStored, Sending, Started

LEMMA GoToDirInv ==
    ASSUME IInv, NEW place \in Place, GoToDir(place)
    PROVE  IInv'
<1>1. /\ curr_dir' = place /\ moved' = moved \cup Sending
      /\ UNCHANGED <<files_to_send_queue, upload, sent_to, identifier, loaded, file_sys_repo,
                     op_percentage, icon, now>>
    BY DEF GoToDir, request, notice
<1>2. TypeOK'
    BY <1>1 DEF IInv, TypeOK, Sending
<1>3. PlaceInv'
    BY <1>1 DEF PlaceInv, Sending
<1> QED
    BY <1>1, <1>2, <1>3 DEF IInv, QueueInv, LoadedInv, Sent, RecordInv, ShownWhereStored, Started, Alone

LEMMA NextInv == IInv /\ [Next]_vars => IInv'
<1> SUFFICES ASSUME IInv, [Next]_vars PROVE IInv'
    OBVIOUS
<1>1. CASE UNCHANGED vars
    BY <1>1 DEF IInv, TypeOK, QueueInv, PlaceInv, LoadedInv, Sent, RecordInv, ShownWhereStored,
                Sending, Started, Alone, vars, request, notice
<1>2. ASSUME NEW chosen \in Selections, Select(chosen) PROVE IInv'
    BY <1>2, SelectInv
<1>3. ASSUME NEW f \in File, Progress(f) \/ Succeed(f) \/ Error(f) PROVE IInv'
    BY <1>3, ProgressInv, SucceedInv, ErrorInv
<1>4. ASSUME Tick PROVE IInv'
    BY <1>4, TickInv
<1>5. ASSUME NEW place \in Place, GoToDir(place) PROVE IInv'
    BY <1>5, GoToDirInv
<1> QED
    BY <1>1, <1>2, <1>3, <1>4, <1>5 DEF Next

\* The inductive invariant of the upload queue.
THEOREM QueueInvariant == Spec => []IInv
    BY InitInv, NextInv, PTL DEF Spec

\* The queue, the uploads, the list of files and the records keep their types.
THEOREM TypeCorrect == Spec => []TypeOK
    BY QueueInvariant, PTL DEF IInv

\* A stored file is listed where it was stored, unless the user left meanwhile
\* or the directory's text has no slash at its end.
THEOREM ShownCorrect == Spec => []ShownWhereStored
    BY QueueInvariant, PTL DEF IInv

-----------------------------------------------------------------------------
(***************************************************************************)
(* The icon.                                                               *)
(***************************************************************************)
LEMMA TickTells ==
    ASSUME IInv, Tick
    PROVE  /\ icon' = "plain" => \A f \in Sending : loaded[f] >= 995 \/ ~Alone(f)
           /\ icon' = "red"   => \E f \in File :
                                    /\ upload[f] \in {"sending", "error", "stored"}
                                    /\ loaded[f] < 995 \/ ~Alone(f)
<1>1. icon' = IF \E t \in 0..MaxClock : Shown[t] < 1000 THEN "red" ELSE "plain"
    BY DEF Tick
<1>2. /\ loaded \in [File -> Permille] /\ identifier \in [File -> 0..MaxClock]
      /\ op_percentage \in [0..MaxClock -> Permille \cup {NoRecord}]
    BY PermilleType DEF IInv, TypeOK
<1>3. \A t \in 0..MaxClock :
         Shown[t] = IF op_percentage[t] = NoRecord THEN NoRecord ELSE Rounded(op_percentage[t])
    BY DEF Shown
<1>4. \A p \in Permille : /\ Rounded(p) \in Permille /\ Rounded(Rounded(p)) = Rounded(p)
                          /\ Rounded(p) < 1000 <=> p < 995
                          /\ p # NoRecord
    BY Rounding, PermilleType
<1>5. \A f \in File : Started(f) /\ Alone(f) => Shown[identifier[f]] = Rounded(loaded[f])
  <2> SUFFICES ASSUME NEW f \in File, Started(f), Alone(f)
               PROVE  Shown[identifier[f]] = Rounded(loaded[f])
    OBVIOUS
  <2>1. op_percentage[identifier[f]] \in {loaded[f], Rounded(loaded[f])}
    BY DEF IInv, RecordInv
  <2>2. identifier[f] \in 0..MaxClock /\ loaded[f] \in Permille
    BY <1>2
  <2> QED
    BY <1>3, <1>4, <2>1, <2>2
<1>6. CASE \E t \in 0..MaxClock : Shown[t] < 1000
  <2>1. PICK t \in 0..MaxClock : Shown[t] < 1000
    BY <1>6
  <2>2. op_percentage[t] # NoRecord
    BY <1>3, <2>1, SMT DEF NoRecord
  <2>3. PICK f \in File : Started(f) /\ identifier[f] = t
    BY <2>2 DEF IInv, RecordInv
  <2>4. loaded[f] \in Permille
    BY <1>2
  <2>5. loaded[f] < 995 \/ ~Alone(f)
    BY <1>4, <1>5, <2>1, <2>3, <2>4
  <2> QED
    BY <1>1, <1>6, <2>3, <2>5 DEF Started
<1>7. CASE ~\E t \in 0..MaxClock : Shown[t] < 1000
  <2>1. ASSUME NEW f \in Sending, Alone(f) PROVE loaded[f] >= 995
    <3>1. /\ f \in File /\ Shown[identifier[f]] = Rounded(loaded[f]) /\ identifier[f] \in 0..MaxClock
          /\ loaded[f] \in Permille
        BY <1>2, <1>5, <2>1 DEF Sending, Started
    <3>2. ~(Rounded(loaded[f]) < 1000)
        BY <1>7, <3>1
    <3>3. ~(loaded[f] < 995) /\ loaded[f] \in Int
        BY <1>4, <3>1, <3>2, PermilleType
    <3> QED
        BY <3>3
  <2> QED
    BY <1>1, <1>7, <2>1
<1> QED
    BY <1>6, <1>7

\* Whenever the icon is refreshed, for every number of uploads and of
\* milliseconds that they share, it goes out only when all that is under way is
\* sent but for half a per cent, and stays red only for an upload that is not.
THEOREM IconCorrect == Spec => IconTellsUploads
<1>1. IInv /\ [Next]_vars =>
        [Tick =>
            /\ icon' = "plain" => \A f \in Sending : loaded[f] >= 995 \/ ~Alone(f)
            /\ icon' = "red"   => \E f \in File :
                                     /\ upload[f] \in {"sending", "error", "stored"}
                                     /\ loaded[f] < 995 \/ ~Alone(f)]_vars
    BY TickTells
<1> QED
    BY <1>1, QueueInvariant, PTL DEF Spec, IconTellsUploads

-----------------------------------------------------------------------------
(***************************************************************************)
(* The refinement.                                                         *)
(***************************************************************************)
Waiting == ToSet(files_to_send_queue)
Ended   == {f \in File : upload[f] \in {"stored", "error"}}

LEMMA PoolInit == Init => Pool!Init
    BY DEF Init, Pool!Init, ToSet, Sending

\* The uploads after Starting.
LEMMA StartingPool ==
    ASSUME IInv, NEW queue, NEW fs \in SUBSET ToSet(queue), NEW were \in [File -> State],
           Starting(fs, queue, were), ToSet(queue) \subseteq File,
           \A f \in ToSet(queue) : were[f] \in {"new", "queued"}
    PROVE  /\ Waiting' = ToSet(queue) \ fs
           /\ Sending' = {f \in File : were[f] = "sending"} \cup fs
           /\ Ended' = {f \in File : were[f] \in {"stored", "error"}}
<1>1. /\ \A f \in fs : upload'[f] = "sending"
      /\ \A f \in ToSet(queue) \ fs : upload'[f] = "queued"
      /\ \A f \in File \ ToSet(queue) : upload'[f] = were[f]
    BY DEF Starting
<1> QED
    BY <1>1 DEF Starting, Waiting, Sending, Ended

LEMMA SelectPool ==
    ASSUME IInv, NEW chosen \in Selections, Select(chosen)
    PROVE  Pool!Select
<1> DEFINE queue == files_to_send_queue \o chosen
<1>1. queue # <<>> /\ \A k \in DOMAIN chosen : upload[chosen[k]] = "new"
    BY DEF Select
<1>2. /\ queue \in Seq(File) /\ IsInjective(queue) /\ Len(queue) \in Nat \ {0}
      /\ ToSet(queue) = Waiting \cup ToSet(chosen)
      /\ queue[Len(queue)] \in ToSet(queue)
  <2>1. /\ queue \in Seq(File) /\ IsInjective(queue) /\ Len(queue) \in Nat \ {0}
        /\ ToSet(queue) = Waiting \cup ToSet(chosen)
    BY <1>1, QueueSelected DEF IInv, Waiting
  <2> HIDE DEF queue
  <2>2. DOMAIN queue = 1..Len(queue) /\ Len(queue) \in 1..Len(queue)
    BY <2>1, LenProperties
  <2>3. queue[Len(queue)] \in ToSet(queue)
    BY <2>2 DEF ToSet
  <2> QED
    BY <2>1, <2>3
<1>3. Send(1, queue, upload) /\ 1 \in 0..Len(queue)
    BY <1>2 DEF Select
<1>4. PICK fs \in SUBSET ToSet(queue) : /\ Starting(fs, queue, upload)
                                        /\ IsFiniteSet(fs) /\ Cardinality(fs) = 1
                                        /\ queue[Len(queue)] \in fs
  <2>1. TypeOK /\ 1 # 0
    BY DEF IInv
  <2> HIDE DEF queue
  <2>2. \E fs \in SUBSET ToSet(queue) :
           /\ Starting(fs, queue, upload)
           /\ IsFiniteSet(fs) /\ Cardinality(fs) = 1
           /\ 1 # 0 => queue[Len(queue)] \in fs
    BY <1>2, <1>3, <2>1, SendStarts
  <2> QED
    BY <2>2
<1>5. PICK f : f = queue[Len(queue)]
    OBVIOUS
<1>6. fs = {f}
  <2>1. Cardinality({f}) = 1 /\ {f} \in SUBSET fs
    BY <1>4, <1>5, FS_Singleton
  <2> QED
    BY <1>4, <2>1, FS_Subset
<1>7. \A g \in ToSet(chosen) : g \in File /\ upload[g] = "new"
    BY <1>1, SelectionType, LenProperties DEF ToSet
<1>8. \A g \in Waiting : g \in File /\ upload[g] = "queued"
    BY DEF IInv, QueueInv, Waiting
<1>9. f \in Waiting \cup ToSet(chosen)
    BY <1>2, <1>5
<1> HIDE DEF queue
<1>10. upload \in [File -> State]
    BY DEF IInv, TypeOK, State
<1>11. /\ Waiting' = ToSet(queue) \ fs
       /\ Sending' = {g \in File : upload[g] = "sending"} \cup fs
       /\ Ended' = {g \in File : upload[g] \in {"stored", "error"}}
  <2>1. ToSet(queue) \subseteq File /\ \A g \in ToSet(queue) : upload[g] \in {"new", "queued"}
    BY <1>2, <1>7, <1>8
  <2> QED
    BY <1>4, <1>10, <2>1, StartingPool
<1>12. /\ Waiting' = (Waiting \cup ToSet(chosen)) \ {f}
       /\ Sending' = Sending \cup {f} /\ Ended' = Ended
    BY <1>2, <1>6, <1>11 DEF Sending, Ended
<1>13. f \notin Sending /\ f \notin Ended
       /\ ToSet(chosen) \cap (Waiting \cup Sending \cup Ended) = {}
    BY <1>7, <1>8, <1>9 DEF Sending, Ended
<1> QED
    BY <1>12, <1>13 DEF Pool!Select, Pool!Started, Waiting, Ended

\* Both modules count with the same operator.
LEMMA SameCardinality == \A S : Pool!Cardinality(S) = Cardinality(S)
    BY DEF Pool!Cardinality, Cardinality

LEMMA EndPool ==
    ASSUME IInv, NEW f \in Sending, NEW outcome \in {"stored", "error"}, Push(f, outcome)
    PROVE  Pool!End(f)
<1> DEFINE were == [upload EXCEPT ![f] = outcome]
<1>1. PICK fs \in SUBSET Waiting :
          /\ Starting(fs, files_to_send_queue, were)
          /\ Cardinality(fs) <= UnitsPerPush
          /\ Cardinality(fs) = UnitsPerPush \/ fs = Waiting
    BY PushStarts DEF Waiting
<1>2. upload \in [File -> State] /\ f \in File /\ upload[f] = "sending"
    BY DEF IInv, TypeOK, State, Sending
<1>3. were \in [File -> State] /\ were[f] = outcome /\ \A g \in File \ {f} : were[g] = upload[g]
    BY <1>2 DEF State
<1>4. \A g \in Waiting : g \in File /\ upload[g] = "queued" /\ g # f
    BY <1>2 DEF IInv, QueueInv, Waiting
<1>5. \A g \in Waiting : were[g] \in {"new", "queued"}
    BY <1>3, <1>4
<1> HIDE DEF were
<1>6. /\ Waiting' = Waiting \ fs
      /\ Sending' = {g \in File : were[g] = "sending"} \cup fs
      /\ Ended' = {g \in File : were[g] \in {"stored", "error"}}
  <2>1. /\ fs \in SUBSET ToSet(files_to_send_queue) /\ ToSet(files_to_send_queue) \subseteq File
        /\ \A g \in ToSet(files_to_send_queue) : were[g] \in {"new", "queued"}
    BY <1>1, <1>4, <1>5 DEF Waiting
  <2> QED
    BY <1>1, <1>3, <2>1, StartingPool DEF Waiting
<1>7. Sending' = (Sending \ {f}) \cup fs /\ Ended' = Ended \cup {f}
    BY <1>2, <1>3, <1>6 DEF Sending, Ended
<1>8. Waiting \ Waiting' = fs /\ Waiting' \subseteq Waiting
    BY <1>6
<1>9. Cardinality(Waiting \ Waiting') <= UnitsPerPush
    BY <1>1, <1>8
<1>10. Waiting' = {} \/ Cardinality(Waiting \ Waiting') = UnitsPerPush
    BY <1>1, <1>6, <1>8
<1>11. f \in Sending /\ Sending' = (Sending \ {f}) \cup (Waiting \ Waiting')
    BY <1>7, <1>8
<1> QED
    BY <1>7, <1>8, <1>9, <1>10, <1>11, SameCardinality DEF Pool!End, Waiting, Ended

LEMMA PoolStep == IInv /\ [Next]_vars => [Pool!Next]_(Pool!pvars)
<1> SUFFICES ASSUME IInv, [Next]_vars PROVE Pool!Next \/ UNCHANGED Pool!pvars
    OBVIOUS
<1>1. ASSUME UNCHANGED <<files_to_send_queue, upload>> PROVE UNCHANGED Pool!pvars
    BY <1>1 DEF Pool!pvars, Sending
<1>2. CASE UNCHANGED vars
    BY <1>1, <1>2 DEF vars, request
<1>3. ASSUME NEW chosen \in Selections, Select(chosen) PROVE Pool!Next
    BY <1>3, SelectPool DEF Pool!Next
<1>4. ASSUME NEW f \in File, Succeed(f) \/ Error(f) PROVE Pool!Next
  <2>1. f \in Sending /\ \E outcome \in {"stored", "error"} : Push(f, outcome)
    BY <1>4 DEF Succeed, Error
  <2> QED
    BY <2>1, EndPool DEF Pool!Next
<1>5. ASSUME NEW f \in File, Progress(f) PROVE UNCHANGED Pool!pvars
    BY <1>1, <1>5 DEF Progress, request
<1>6. ASSUME Tick PROVE UNCHANGED Pool!pvars
    BY <1>1, <1>6 DEF Tick, request
<1>7. ASSUME NEW place \in Place, GoToDir(place) PROVE UNCHANGED Pool!pvars
    BY <1>1, <1>7 DEF GoToDir, request
<1> QED
    BY <1>2, <1>3, <1>4, <1>5, <1>6, <1>7 DEF Next

\* The queue, whose callbacks send what waits one file after the other,
\* implements the pool: each file is sent once, from the callback of a selection
\* or of an upload that ended, however it ended.
THEOREM Refinement == Spec => ImplementsPool
    BY PoolInit, PoolStep, QueueInvariant, PTL DEF Spec, Pool!Spec, ImplementsPool
=============================================================================
