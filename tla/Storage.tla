------------------------------ MODULE Storage -------------------------------
(***************************************************************************)
(* StorageManager under the backend's processes: children that rename, one *)
(* system call at a time, beside the parent, which opens the files of      *)
(* uploads.  The names are those of one directory of a drive.              *)
(***************************************************************************)
EXTENDS FiniteSets

CONSTANTS
    Name,
    Rename,     \* rename requests, each with its child
    Upload,     \* upload requests
    Nothing

ASSUME StorageAssumption ==
    /\ Nothing \notin Name \cup Upload
    /\ Nothing \notin Name \X Name

\* A file is known by the name it had at first or by the upload that wrote it.
Content == Name \cup Upload

VARIABLES
    drive,
    directory,      \* does the directory exist?
    at,             \* where the child of each rename is
    names,          \* its old and new name
    is_old_exists,
    opened,         \* uploads that opened their file
    reply           \* what the client is told

\* History.
VARIABLES
    crossed,        \* renames one of whose names changed between their first
                    \* check and their end, or whose system call failed
    was,            \* what the names had when the child checked the first one
    moved           \* renames whose system call moved a file

child   == <<at, names, is_old_exists, reply>>
history == <<crossed, was, moved>>
vars    == <<drive, directory, child, opened, history>>

TypeOK ==
    /\ drive \in [Name -> Content \cup {Nothing}]
    /\ directory \in BOOLEAN /\ (~directory => \A n \in Name : drive[n] = Nothing)
    /\ at \in [Rename -> {"unsent", "build", "checkOld", "checkNew", "rename",
                          "answer", "exited"}]
    /\ names \in [Rename -> Name \X Name]
    /\ is_old_exists \in [Rename -> BOOLEAN]
    /\ reply \in [Rename -> {"none", "SUCCESS"}]
    /\ opened \subseteq Upload /\ crossed \subseteq Rename /\ moved \subseteq Rename
    /\ was \in [Rename -> [Name -> Content \cup {Nothing}]]

Init ==
    /\ \E there \in SUBSET Name :
          /\ drive = [n \in Name |-> IF n \in there THEN n ELSE Nothing]
          /\ directory \in {TRUE, there # {}}
    /\ at = [r \in Rename |-> "unsent"]
    /\ \E n \in Name : names = [r \in Rename |-> <<n, n>>]
    /\ is_old_exists = [r \in Rename |-> FALSE]
    /\ reply = [r \in Rename |-> "none"]
    /\ opened = {} /\ crossed = {} /\ moved = {}
    /\ was = [r \in Rename |-> drive]

-----------------------------------------------------------------------------
Old(r) == names[r][1]
New(r) == names[r][2]
Exists(n) == drive[n] # Nothing

GoTo(r, where) == at' = [at EXCEPT ![r] = where]

\* The renames that the change to drive' crosses.
Hit == {r \in Rename : /\ at[r] \in {"checkNew", "rename"}
                       /\ drive'[Old(r)] # drive[Old(r)] \/ drive'[New(r)] # drive[New(r)]}

\* The loop forks a child for a request with a valid session.
Fork(r) ==
    /\ at[r] = "unsent"
    /\ \E old, new \in Name : names' = [names EXCEPT ![r] = <<old, new>>]
    /\ GoTo(r, "build")
    /\ UNCHANGED <<drive, directory, is_old_exists, reply, opened, history>>

\* build_file_full_path creates the directories of a path; the exception of
\* create_directories, which nothing catches, ends the child.
BuildPaths(r) ==
    /\ at[r] = "build"
    /\ \/ directory' = TRUE /\ GoTo(r, "checkOld")
       \/ ~directory /\ UNCHANGED directory /\ GoTo(r, "exited")
    /\ UNCHANGED <<drive, names, is_old_exists, reply, opened, history>>

\* Mutation: the new name is looked at.
CheckOldMutant(r) ==
    /\ at[r] = "checkOld"
    /\ is_old_exists' = [is_old_exists EXCEPT ![r] = Exists(New(r))]
    /\ GoTo(r, "checkNew")
    /\ was' = [was EXCEPT ![r] = drive]
    /\ UNCHANGED <<drive, directory, names, reply, opened, crossed, moved>>

CheckOld(r) ==
    /\ at[r] = "checkOld"
    /\ is_old_exists' = [is_old_exists EXCEPT ![r] = Exists(Old(r))]
    /\ GoTo(r, "checkNew")
    /\ was' = [was EXCEPT ![r] = drive]
    /\ UNCHANGED <<drive, directory, names, reply, opened, crossed, moved>>

\* Mutation: the new name is not checked.
CheckNewMutant(r) ==
    /\ at[r] = "checkNew"
    /\ GoTo(r, IF is_old_exists[r] THEN "rename" ELSE "answer")
    /\ UNCHANGED <<drive, directory, names, is_old_exists, reply, opened, history>>

CheckNew(r) ==
    /\ at[r] = "checkNew"
    /\ GoTo(r, IF is_old_exists[r] /\ ~Exists(New(r)) THEN "rename" ELSE "answer")
    /\ UNCHANGED <<drive, directory, names, is_old_exists, reply, opened, history>>

\* std::rename replaces a file of the new name; a rename to itself does nothing.
Renamed(r) ==
    [n \in Name |-> CASE n = New(r) -> drive[Old(r)]
                      [] n = Old(r) -> Nothing
                      [] OTHER      -> drive[n]]

\* The call fails when the old name is gone by then, or for another reason.
CallRename(r) ==
    /\ at[r] = "rename"
    /\ \/ /\ Exists(Old(r))
          /\ drive' = Renamed(r)
          /\ moved' = moved \cup {r}
          /\ crossed' = crossed \cup (Hit \ {r})
       \/ /\ UNCHANGED <<drive, moved>>
          /\ crossed' = crossed \cup {r}
    /\ GoTo(r, "answer")
    /\ UNCHANGED <<directory, names, is_old_exists, reply, opened, was>>

\* The child does not look at the result of rename_file.
Answer(r) ==
    /\ at[r] = "answer"
    /\ reply' = [reply EXCEPT ![r] = "SUCCESS"]
    /\ GoTo(r, "exited")
    /\ UNCHANGED <<drive, directory, names, is_old_exists, opened, history>>

\* Mutation: the file is opened without its directory.
OpenUploadMutant(u, n) ==
    /\ u \notin opened
    /\ opened' = opened \cup {u}
    /\ UNCHANGED directory
    /\ drive' = [drive EXCEPT ![n] = u]
    /\ crossed' = crossed \cup Hit
    /\ UNCHANGED <<child, was, moved>>

\* add_data_chunk of an upload, in the parent: build_file_full_path, and open,
\* which truncates.
OpenUpload(u, n) ==
    /\ u \notin opened
    /\ opened' = opened \cup {u}
    /\ directory' = TRUE
    /\ drive' = [drive EXCEPT ![n] = u]
    /\ crossed' = crossed \cup Hit
    /\ UNCHANGED <<child, was, moved>>

Step(r) == BuildPaths(r) \/ CheckOld(r) \/ CheckNew(r) \/ CallRename(r) \/ Answer(r)

Next ==
    \/ \E r \in Rename : Fork(r) \/ Step(r)
    \/ \E u \in Upload, n \in Name : OpenUpload(u, n)

Spec == Init /\ [][Next]_vars

-----------------------------------------------------------------------------
(***************************************************************************)
(* Properties.                                                             *)
(***************************************************************************)

\* A rename that nothing crosses between its first check and its end is atomic,
\* however many run beside it: it never replaces a file, and never leaves one
\* under two names or none.
Store ==
    INSTANCE AtomicStore WITH
        drive   <- drive,
        crossed <- crossed,
        pending <- [r \in Rename |-> IF at[r] \in {"checkOld", "checkNew", "rename"}
                                     THEN names[r] ELSE Nothing]

ImplementsStore == Store!Spec

\* A client that is told SUCCESS had its file moved, unless there was none under
\* the old name when the child looked, or already one under the new name, or the
\* rename was crossed or failed: the answer does not say which.  And what was
\* moved without being crossed was there, and replaced nothing.
SuccessMeansMoved ==
    \A r \in Rename : reply[r] = "SUCCESS" /\ r \notin crossed =>
        (r \in moved) = (was[r][Old(r)] # Nothing /\ was[r][New(r)] = Nothing)
=============================================================================
