--------------------------- MODULE StorageProofs ----------------------------
(***************************************************************************)
(* Storage implements AtomicStore, for every number of names, renames and  *)
(* uploads.                                                                *)
(***************************************************************************)
EXTENDS Storage, TLAPS

\* As long as nothing crosses a rename, what its child saw is still so.
WindowInv ==
    \A r \in Rename : at[r] \in {"checkNew", "rename"} /\ r \notin crossed =>
        /\ drive[Old(r)] = was[r][Old(r)] /\ drive[New(r)] = was[r][New(r)]
        /\ is_old_exists[r] = (was[r][Old(r)] # Nothing)
        /\ at[r] = "rename" => was[r][Old(r)] # Nothing /\ was[r][New(r)] = Nothing

\* What an uncrossed rename did is what it had to do.
OutcomeInv ==
    \A r \in Rename :
        /\ r \in moved => at[r] \in {"answer", "exited"}
        /\ reply[r] = "SUCCESS" => at[r] = "exited"
        /\ at[r] = "answer" /\ r \notin crossed =>
              (r \in moved) = (was[r][Old(r)] # Nothing /\ was[r][New(r)] = Nothing)

IInv == TypeOK /\ WindowInv /\ OutcomeInv /\ SuccessMeansMoved

USE StorageAssumption

LEMMA InitInv == Init => IInv
<1> SUFFICES ASSUME Init PROVE IInv
    OBVIOUS
<1>1. TypeOK
  <2>1. /\ drive \in [Name -> Content \cup {Nothing}]
        /\ directory \in BOOLEAN /\ (~directory => \A n \in Name : drive[n] = Nothing)
    BY ZenonT(30) DEF Init, Content
  <2>2. names \in [Rename -> Name \X Name]
    BY DEF Init
  <2> QED
    BY <2>1, <2>2 DEF Init, TypeOK
<1>2. WindowInv /\ OutcomeInv /\ SuccessMeansMoved
    BY DEF Init, WindowInv, OutcomeInv, SuccessMeansMoved
<1> QED
    BY <1>1, <1>2 DEF IInv

\* A step that changes the drive crosses the other renames it disturbs.
LEMMA UndisturbedWindow ==
    ASSUME IInv, NEW r \in Rename, at[r] \in {"checkNew", "rename"}, r \notin crossed, r \notin Hit
    PROVE  drive'[Old(r)] = was[r][Old(r)] /\ drive'[New(r)] = was[r][New(r)]
BY DEF IInv, WindowInv, Hit

LEMMA ForkInv ==
    ASSUME IInv, NEW r \in Rename, Fork(r)
    PROVE  IInv'
<1>1. PICK old \in Name, new \in Name : names' = [names EXCEPT ![r] = <<old, new>>]
    BY DEF Fork
<1>2. /\ at[r] = "unsent" /\ at' = [at EXCEPT ![r] = "build"]
      /\ UNCHANGED <<drive, directory, is_old_exists, reply, opened, crossed, was, moved>>
    BY DEF Fork, GoTo, history
<1>3. \A s \in Rename \ {r} : at'[s] = at[s] /\ names'[s] = names[s]
    BY <1>1, <1>2 DEF IInv, TypeOK
<1>4. at'[r] = "build"
    BY <1>2 DEF IInv, TypeOK
<1>5. TypeOK'
    BY <1>1, <1>2 DEF IInv, TypeOK
<1>6. WindowInv'
    BY <1>2, <1>3, <1>4 DEF IInv, WindowInv, Old, New
<1>7. OutcomeInv' /\ SuccessMeansMoved'
    BY <1>2, <1>3, <1>4 DEF IInv, OutcomeInv, SuccessMeansMoved, Old, New
<1> QED
    BY <1>5, <1>6, <1>7 DEF IInv

LEMMA BuildPathsInv ==
    ASSUME IInv, NEW r \in Rename, BuildPaths(r)
    PROVE  IInv'
<1>1. /\ at[r] = "build" /\ names' = names /\ directory' \in BOOLEAN /\ (directory => directory')
      /\ UNCHANGED <<drive, is_old_exists, reply, opened, crossed, was, moved>>
    BY DEF BuildPaths, history, IInv, TypeOK
<1>2. PICK where \in {"checkOld", "exited"} : at' = [at EXCEPT ![r] = where]
    BY DEF BuildPaths, GoTo
<1>3. at'[r] = where /\ \A s \in Rename \ {r} : at'[s] = at[s]
    BY <1>2 DEF IInv, TypeOK
<1>4. TypeOK'
    BY <1>1, <1>2 DEF IInv, TypeOK
<1>5. WindowInv'
    BY <1>1, <1>3 DEF IInv, WindowInv, Old, New
<1>6. OutcomeInv' /\ SuccessMeansMoved'
    BY <1>1, <1>3 DEF IInv, OutcomeInv, SuccessMeansMoved, Old, New
<1> QED
    BY <1>4, <1>5, <1>6 DEF IInv

LEMMA CheckOldInv ==
    ASSUME IInv, NEW r \in Rename, CheckOld(r)
    PROVE  IInv'
<1>1. /\ at[r] = "checkOld" /\ at' = [at EXCEPT ![r] = "checkNew"]
      /\ is_old_exists' = [is_old_exists EXCEPT ![r] = Exists(Old(r))]
      /\ was' = [was EXCEPT ![r] = drive]
      /\ UNCHANGED <<drive, directory, names, reply, opened, crossed, moved>>
    BY DEF CheckOld, GoTo
<1>2. /\ at'[r] = "checkNew" /\ is_old_exists'[r] = Exists(Old(r)) /\ was'[r] = drive
      /\ \A s \in Rename \ {r} : /\ at'[s] = at[s] /\ was'[s] = was[s]
                                 /\ is_old_exists'[s] = is_old_exists[s]
    BY <1>1 DEF IInv, TypeOK
<1>3. TypeOK'
    BY <1>1 DEF IInv, TypeOK, Exists
<1>4. WindowInv'
    BY <1>1, <1>2 DEF IInv, WindowInv, Old, New, Exists
<1>5. r \notin moved /\ reply[r] # "SUCCESS"
    BY <1>1 DEF IInv, OutcomeInv
<1>6. OutcomeInv' /\ SuccessMeansMoved'
    BY <1>1, <1>2, <1>5 DEF IInv, OutcomeInv, SuccessMeansMoved, Old, New
<1> QED
    BY <1>3, <1>4, <1>6 DEF IInv

LEMMA CheckNewInv ==
    ASSUME IInv, NEW r \in Rename, CheckNew(r)
    PROVE  IInv'
<1> DEFINE free == is_old_exists[r] /\ ~Exists(New(r))
<1>1. /\ at[r] = "checkNew" /\ at' = [at EXCEPT ![r] = IF free THEN "rename" ELSE "answer"]
      /\ UNCHANGED <<drive, directory, names, is_old_exists, reply, opened, crossed, was, moved>>
    BY DEF CheckNew, GoTo, history
<1>2. /\ at'[r] = (IF free THEN "rename" ELSE "answer")
      /\ \A s \in Rename \ {r} : at'[s] = at[s]
    BY <1>1 DEF IInv, TypeOK
<1>3. r \notin crossed => free = (was[r][Old(r)] # Nothing /\ was[r][New(r)] = Nothing)
    BY <1>1 DEF IInv, WindowInv, Exists
<1>4. TypeOK'
    BY <1>1 DEF IInv, TypeOK
<1>5. WindowInv'
    BY <1>1, <1>2, <1>3 DEF IInv, WindowInv, Old, New
<1>6. r \notin moved
    BY <1>1 DEF IInv, OutcomeInv
<1>7. OutcomeInv' /\ SuccessMeansMoved'
    BY <1>1, <1>2, <1>3, <1>6 DEF IInv, OutcomeInv, SuccessMeansMoved, Old, New
<1> QED
    BY <1>4, <1>5, <1>7 DEF IInv

LEMMA CallRenameInv ==
    ASSUME IInv, NEW r \in Rename, CallRename(r)
    PROVE  IInv'
<1>1. /\ at[r] = "rename" /\ at' = [at EXCEPT ![r] = "answer"]
      /\ UNCHANGED <<directory, names, is_old_exists, reply, opened, was>>
    BY DEF CallRename, GoTo
<1>2. at'[r] = "answer" /\ \A s \in Rename \ {r} : at'[s] = at[s]
    BY <1>1 DEF IInv, TypeOK
<1>3. /\ r \in crossed' \/ (r \in moved' /\ r \notin crossed)
      /\ moved \subseteq moved' /\ moved' \subseteq moved \cup {r}
      /\ crossed \subseteq crossed' /\ crossed' \subseteq Rename
      /\ \A s \in Rename \ {r} : s \notin crossed' => s \notin Hit
    BY DEF CallRename, Hit, IInv, TypeOK
<1>4. TypeOK'
  <2>1. Old(r) \in Name /\ New(r) \in Name
    BY DEF IInv, TypeOK, Old, New
  <2>2. /\ drive' \in [Name -> Content \cup {Nothing}]
        /\ ~directory => \A n \in Name : drive'[n] = Nothing
    BY <2>1 DEF CallRename, Renamed, Exists, IInv, TypeOK
  <2> QED
    BY <2>2, <1>1, <1>3 DEF IInv, TypeOK
<1>5. WindowInv'
  <2> SUFFICES ASSUME NEW s \in Rename, at'[s] \in {"checkNew", "rename"}, s \notin crossed'
               PROVE  /\ drive'[Old(s)] = was[s][Old(s)] /\ drive'[New(s)] = was[s][New(s)]
                      /\ is_old_exists[s] = (was[s][Old(s)] # Nothing)
                      /\ at[s] = "rename" => was[s][Old(s)] # Nothing /\ was[s][New(s)] = Nothing
                      /\ at'[s] = at[s]
    BY <1>1 DEF WindowInv, Old, New
  <2>1. s # r /\ at'[s] = at[s] /\ s \notin crossed /\ s \notin Hit
    BY <1>2, <1>3
  <2> QED
    BY <2>1, UndisturbedWindow DEF IInv, WindowInv
<1>6. r \notin crossed' => was[r][Old(r)] # Nothing /\ was[r][New(r)] = Nothing
    BY <1>1, <1>3 DEF IInv, WindowInv
<1>7. OutcomeInv' /\ SuccessMeansMoved'
  <2>1. OutcomeInv'
    BY <1>1, <1>2, <1>3, <1>6 DEF IInv, OutcomeInv, Old, New
  <2>2. reply[r] # "SUCCESS"
    BY <1>1 DEF IInv, OutcomeInv
  <2>3. SuccessMeansMoved'
    BY <2>2, <1>1, <1>3 DEF IInv, SuccessMeansMoved, Old, New
  <2> QED
    BY <2>1, <2>3
<1> QED
    BY <1>4, <1>5, <1>7 DEF IInv

LEMMA AnswerInv ==
    ASSUME IInv, NEW r \in Rename, Answer(r)
    PROVE  IInv'
<1>1. /\ at[r] = "answer" /\ at' = [at EXCEPT ![r] = "exited"]
      /\ reply' = [reply EXCEPT ![r] = "SUCCESS"]
      /\ UNCHANGED <<drive, directory, names, is_old_exists, opened, crossed, was, moved>>
    BY DEF Answer, GoTo, history
<1>2. /\ at'[r] = "exited"
      /\ \A s \in Rename \ {r} : at'[s] = at[s] /\ reply'[s] = reply[s]
    BY <1>1 DEF IInv, TypeOK
<1>3. TypeOK'
    BY <1>1 DEF IInv, TypeOK
<1>4. WindowInv'
    BY <1>1, <1>2 DEF IInv, WindowInv, Old, New
<1>5. OutcomeInv'
    BY <1>1, <1>2 DEF IInv, OutcomeInv, Old, New
<1>6. SuccessMeansMoved'
    BY <1>1, <1>2 DEF IInv, OutcomeInv, SuccessMeansMoved, Old, New
<1> QED
    BY <1>3, <1>4, <1>5, <1>6 DEF IInv

LEMMA OpenUploadInv ==
    ASSUME IInv, NEW u \in Upload, NEW n \in Name, OpenUpload(u, n)
    PROVE  IInv'
<1>1. /\ crossed' = crossed \cup Hit /\ drive' = [drive EXCEPT ![n] = u]
      /\ directory' = TRUE /\ opened' = opened \cup {u}
      /\ UNCHANGED <<at, names, is_old_exists, reply, was, moved>>
    BY DEF OpenUpload, child
<1>2. TypeOK'
    BY <1>1 DEF IInv, TypeOK, Content, Hit
<1>3. WindowInv'
  <2> SUFFICES ASSUME NEW s \in Rename, at[s] \in {"checkNew", "rename"}, s \notin crossed'
               PROVE  /\ drive'[Old(s)] = was[s][Old(s)] /\ drive'[New(s)] = was[s][New(s)]
                      /\ is_old_exists[s] = (was[s][Old(s)] # Nothing)
                      /\ at[s] = "rename" => was[s][Old(s)] # Nothing /\ was[s][New(s)] = Nothing
    BY <1>1 DEF WindowInv, Old, New
  <2>1. s \notin crossed /\ s \notin Hit
    BY <1>1
  <2> QED
    BY <2>1, UndisturbedWindow DEF IInv, WindowInv
<1>4. OutcomeInv' /\ SuccessMeansMoved'
    BY <1>1 DEF IInv, OutcomeInv, SuccessMeansMoved, Old, New
<1> QED
    BY <1>2, <1>3, <1>4 DEF IInv

LEMMA NextInv == IInv /\ [Next]_vars => IInv'
<1> SUFFICES ASSUME IInv, [Next]_vars PROVE IInv'
    OBVIOUS
<1>1. CASE UNCHANGED vars
    BY <1>1 DEF IInv, TypeOK, WindowInv, OutcomeInv, SuccessMeansMoved, Old, New,
                vars, child, history
<1>2. ASSUME NEW r \in Rename, Fork(r) \/ Step(r) PROVE IInv'
    BY <1>2, ForkInv, BuildPathsInv, CheckOldInv, CheckNewInv, CallRenameInv, AnswerInv DEF Step
<1>3. ASSUME NEW u \in Upload, NEW n \in Name, OpenUpload(u, n) PROVE IInv'
    BY <1>3, OpenUploadInv
<1> QED
    BY <1>1, <1>2, <1>3 DEF Next

\* The inductive invariant holds in every reachable state.
THEOREM StorageInvariant == Spec => []IInv
    BY InitInv, NextInv, PTL DEF Spec

\* Variables keep their types; in particular a directory that is missing has no
\* files.
THEOREM TypeCorrect == Spec => []TypeOK
    BY StorageInvariant, PTL DEF IInv

\* SUCCESS means moved for every rename that found its file and was not crossed.
THEOREM SuccessCorrect == Spec => []SuccessMeansMoved
    BY StorageInvariant, PTL DEF IInv

-----------------------------------------------------------------------------
\* A child's rename is pending from its first check to its end.
Window == {"checkOld", "checkNew", "rename"}

Pending == [r \in Rename |-> IF at[r] \in Window THEN names[r] ELSE Nothing]

LEMMA StoreInit == Init => Store!Init
BY DEF Init, Store!Init, Content

\* A step outside the windows, or inside one, is a stutter of the store.
LEMMA QuietStep ==
    ASSUME \A s \in Rename : /\ at'[s] \in Window <=> at[s] \in Window
                             /\ at[s] \in Window => names'[s] = names[s],
           UNCHANGED <<drive, crossed>>
    PROVE  UNCHANGED Store!dvars
<1>1. \A s \in Rename : (IF at'[s] \in Window THEN names'[s] ELSE Nothing)
                            = (IF at[s] \in Window THEN names[s] ELSE Nothing)
  <2> SUFFICES ASSUME NEW s \in Rename
               PROVE  (IF at'[s] \in Window THEN names'[s] ELSE Nothing)
                          = (IF at[s] \in Window THEN names[s] ELSE Nothing)
    OBVIOUS
  <2>1. CASE at[s] \in Window
    BY <2>1
  <2>2. CASE at[s] \notin Window
    BY <2>2
  <2> QED
    BY <2>1, <2>2
<1>2. Pending' = Pending
    BY <1>1, Zenon DEF Pending, Window
<1> QED
    BY <1>2 DEF Store!dvars, Pending, Window

\* How the place of one child changes, seen from the windows.
LEMMA OnlyOneMoves ==
    ASSUME IInv, NEW r \in Rename, NEW where, at' = [at EXCEPT ![r] = where]
    PROVE  at'[r] = where /\ \A s \in Rename \ {r} : at'[s] = at[s]
BY DEF IInv, TypeOK

\* A step that closes a window.
LEMMA PendingEnds ==
    ASSUME IInv, NEW r \in Rename, at[r] \in Window, at' = [at EXCEPT ![r] = "answer"],
           UNCHANGED names
    PROVE  /\ Pending' = [Pending EXCEPT ![r] = Nothing]
           /\ Pending[r] = names[r] /\ names[r] # Nothing
           /\ Pending[r][1] = Old(r) /\ Pending[r][2] = New(r)
<1>1. names[r] \in Name \X Name
    BY DEF IInv, TypeOK
<1>2. Pending' = [Pending EXCEPT ![r] = Nothing]
    BY OnlyOneMoves, ZenonT(30) DEF Pending, Window
<1> QED
    BY <1>1, <1>2 DEF Pending, Old, New

\* What crosses a rename is, for the store, the change of one of its names.
LEMMA CrossingOK ==
    ASSUME IInv, NEW others \in SUBSET Rename, crossed \subseteq crossed',
           crossed' \cap others \subseteq crossed \cup Hit
    PROVE  \A r \in (crossed' \ crossed) \cap others :
                /\ Pending[r] # Nothing
                /\ \E n \in {Pending[r][1], Pending[r][2]} : drive'[n] # drive[n]
<1> SUFFICES ASSUME NEW r \in Hit
             PROVE  /\ Pending[r] # Nothing
                    /\ \E n \in {Pending[r][1], Pending[r][2]} : drive'[n] # drive[n]
    OBVIOUS
<1>1. /\ r \in Rename /\ at[r] \in Window /\ names[r] \in Name \X Name
      /\ drive'[Old(r)] # drive[Old(r)] \/ drive'[New(r)] # drive[New(r)]
    BY DEF Hit, IInv, TypeOK, Window
<1>2. Pending[r] = names[r] /\ names[r] # Nothing
    BY <1>1 DEF Pending
<1> QED
    BY <1>1, <1>2 DEF Old, New

LEMMA StoreStep == IInv /\ [Next]_vars => [Store!Next]_(Store!dvars)
<1> SUFFICES ASSUME IInv, [Next]_vars PROVE Store!Next \/ UNCHANGED Store!dvars
    OBVIOUS
<1>1. CASE UNCHANGED vars
  <2>1. Pending' = Pending /\ UNCHANGED <<drive, crossed>>
    BY <1>1 DEF vars, child, history, Pending
  <2> QED
    BY <2>1 DEF Store!dvars, Pending, Window
<1>2. ASSUME NEW r \in Rename, Fork(r) PROVE UNCHANGED Store!dvars
  <2>1. PICK p \in Name \X Name : names' = [names EXCEPT ![r] = p]
    BY <1>2 DEF Fork
  <2>2. at[r] = "unsent" /\ at' = [at EXCEPT ![r] = "build"] /\ UNCHANGED <<drive, crossed>>
    BY <1>2 DEF Fork, GoTo, history
  <2>3. \A s \in Rename \ {r} : names'[s] = names[s]
    BY <2>1 DEF IInv, TypeOK
  <2>4. \A s \in Rename : /\ at'[s] \in Window <=> at[s] \in Window
                          /\ at[s] \in Window => names'[s] = names[s]
    BY <2>2, <2>3, OnlyOneMoves DEF Window
  <2> QED
    BY <2>2, <2>4, QuietStep
<1>3. ASSUME NEW r \in Rename, BuildPaths(r) PROVE Store!Next \/ UNCHANGED Store!dvars
  <2>1. at[r] = "build" /\ UNCHANGED <<drive, names, crossed>>
    BY <1>3 DEF BuildPaths, history
  <2>2. CASE at' = [at EXCEPT ![r] = "exited"]
    <3>1. \A s \in Rename : at'[s] \in Window <=> at[s] \in Window
        BY <2>1, <2>2, OnlyOneMoves DEF Window
    <3> QED
        BY <2>1, <3>1, QuietStep
  <2>3. CASE at' = [at EXCEPT ![r] = "checkOld"]
    <3>1. names[r] \in Name \X Name
        BY DEF IInv, TypeOK
    <3>2. Pending[r] = Nothing /\ Pending' = [Pending EXCEPT ![r] = names[r]]
        BY <2>1, <2>3, OnlyOneMoves DEF Pending, Window
    <3>3. PICK old \in Name, new \in Name : names[r] = <<old, new>>
        BY <3>1
    <3>4. \E o, n \in Name : Pending' = [Pending EXCEPT ![r] = <<o, n>>]
        BY <3>2, <3>3
    <3>5. Store!Ask(r)
        BY <2>1, <3>2, <3>4 DEF Store!Ask, Pending, Window
    <3> QED
        BY <3>5 DEF Store!Next
  <2> QED
    BY <1>3, <2>2, <2>3 DEF BuildPaths, GoTo
<1>4. ASSUME NEW r \in Rename, CheckOld(r) PROVE UNCHANGED Store!dvars
  <2>1. /\ at[r] = "checkOld" /\ at' = [at EXCEPT ![r] = "checkNew"]
        /\ UNCHANGED <<drive, names, crossed>>
    BY <1>4 DEF CheckOld, GoTo
  <2>2. \A s \in Rename : at'[s] \in Window <=> at[s] \in Window
    BY <2>1, OnlyOneMoves DEF Window
  <2> QED
    BY <2>1, <2>2, QuietStep
<1>5. ASSUME NEW r \in Rename, CheckNew(r) PROVE Store!Next \/ UNCHANGED Store!dvars
  <2> DEFINE free == is_old_exists[r] /\ ~Exists(New(r))
  <2>1. /\ at[r] = "checkNew" /\ at' = [at EXCEPT ![r] = IF free THEN "rename" ELSE "answer"]
        /\ UNCHANGED <<drive, names, crossed>>
    BY <1>5 DEF CheckNew, GoTo, history
  <2>2. CASE free
    <3>1. \A s \in Rename : at'[s] \in Window <=> at[s] \in Window
        BY <2>1, <2>2, OnlyOneMoves DEF Window
    <3> QED
        BY <2>1, <3>1, QuietStep
  <2>3. CASE ~free
    <3>1. /\ Pending' = [Pending EXCEPT ![r] = Nothing] /\ Pending[r] # Nothing
          /\ Pending[r][1] = Old(r) /\ Pending[r][2] = New(r)
        BY <2>1, <2>3, PendingEnds DEF Window
    <3>2. r \in crossed \/ ~(drive[Old(r)] # Nothing /\ drive[New(r)] = Nothing)
        BY <2>1, <2>3 DEF IInv, WindowInv, Exists
    <3>3. Store!Do(r)
        BY <2>1, <3>1, <3>2 DEF Store!Do, Store!Crossing, Pending, Window
    <3> QED
        BY <3>3 DEF Store!Next
  <2> QED
    BY <2>2, <2>3
<1>6. ASSUME NEW r \in Rename, CallRename(r) PROVE Store!Next
  <2>1. at[r] = "rename" /\ at' = [at EXCEPT ![r] = "answer"] /\ UNCHANGED names
    BY <1>6 DEF CallRename, GoTo
  <2>2. /\ Pending' = [Pending EXCEPT ![r] = Nothing] /\ Pending[r] # Nothing
        /\ Pending[r][1] = Old(r) /\ Pending[r][2] = New(r)
    BY <2>1, PendingEnds DEF Window
  <2>3. Store!Crossing(Rename \ {r})
    <3>1. crossed \subseteq crossed' /\ crossed' \cap (Rename \ {r}) \subseteq crossed \cup Hit
        BY <1>6 DEF CallRename
    <3> QED
        BY <3>1, CrossingOK DEF Store!Crossing, Pending, Window
  <2>4. r \notin crossed => drive[Old(r)] # Nothing /\ drive[New(r)] = Nothing
    BY <2>1 DEF IInv, WindowInv
  <2>5. \/ drive[Old(r)] # Nothing /\ drive' = Store!Moved(Old(r), New(r))
              /\ crossed \subseteq crossed'
        \/ r \in crossed' /\ UNCHANGED drive
    BY <1>6 DEF CallRename, Exists, Renamed, Store!Moved
  <2>6. Store!Do(r)
    <3> DEFINE old == Old(r)
               new == New(r)
    <3>1. \/ r \in crossed' /\ UNCHANGED drive
          \/ r \in crossed' /\ drive[old] # Nothing /\ drive' = Store!Moved(old, new)
          \/ /\ r \notin crossed'
             /\ drive' = IF drive[old] # Nothing /\ drive[new] = Nothing
                         THEN Store!Moved(old, new) ELSE drive
        BY <2>4, <2>5
    <3> QED
        BY <2>2, <2>3, <3>1 DEF Store!Do, Pending, Window
  <2> QED
    BY <2>6 DEF Store!Next
<1>7. ASSUME NEW r \in Rename, Answer(r) PROVE UNCHANGED Store!dvars
  <2>1. /\ at[r] = "answer" /\ at' = [at EXCEPT ![r] = "exited"]
        /\ UNCHANGED <<drive, names, crossed>>
    BY <1>7 DEF Answer, GoTo, history
  <2>2. \A s \in Rename : at'[s] \in Window <=> at[s] \in Window
    BY <2>1, OnlyOneMoves DEF Window
  <2> QED
    BY <2>1, <2>2, QuietStep
<1>8. ASSUME NEW u \in Upload, NEW n \in Name, OpenUpload(u, n) PROVE Store!Next
  <2>1. /\ drive' = [drive EXCEPT ![n] = u] /\ crossed' = crossed \cup Hit
        /\ UNCHANGED <<at, names>>
    BY <1>8 DEF OpenUpload, child
  <2>2. drive'[n] \in Content /\ drive' = [drive EXCEPT ![n] = drive'[n]]
    BY <2>1 DEF IInv, TypeOK, Content
  <2>3. Store!Crossing(Rename)
    BY <2>1, CrossingOK DEF Store!Crossing, Pending, Window, Hit
  <2>4. Pending' = Pending
    BY <2>1 DEF Pending
  <2>5. Store!Write
    BY <2>2, <2>3, <2>4 DEF Store!Write, Pending, Window
  <2> QED
    BY <2>5 DEF Store!Next
<1> QED
    BY <1>1, <1>2, <1>3, <1>4, <1>5, <1>6, <1>7, <1>8 DEF Next, Step

\* Check-then-rename, one system call at a time beside uploads and other
\* children, implements the atomic rename for everything that is not crossed.
THEOREM Refinement == Spec => ImplementsStore
    BY StoreInit, StoreStep, StorageInvariant, PTL DEF Spec, Store!Spec, ImplementsStore
=============================================================================
