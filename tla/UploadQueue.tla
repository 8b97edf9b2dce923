---------------------------- MODULE UploadQueue -----------------------------
(***************************************************************************)
(* The upload queue of the files page (files_menu_upload.js): the files    *)
(* the user selected, the uploads under way, the notification that shows   *)
(* their progress, and the list of files, to which an upload that succeeds *)
(* is added.  The user goes from directory to directory meanwhile.         *)
(*                                                                         *)
(* An upload may succeed, or end in an error: a refusal, which is not      *)
(* JSON, or a connection that breaks or times out.                         *)
(***************************************************************************)
EXTENDS Naturals, FiniteSets, SequencesExt

CONSTANTS
    File,
    Place,          \* of curr_dir: a directory, and whether its text ends with a slash
    UnitsPerPush,   \* 5 in the code
    Percentage,     \* how much of an upload is sent when progress is told, per mille
    MaxClock        \* bound on the milliseconds that uploads start in

ASSUME UploadQueueAssumption ==
    /\ IsFiniteSet(File)
    /\ UnitsPerPush \in Nat \ {0} /\ MaxClock \in Nat
    /\ \A p \in Place : p.slash \in BOOLEAN

Permille == 0..1000

ASSUME PercentageAssumption == {0, 1000} \subseteq Percentage /\ Percentage \subseteq Permille

NoRecord == 2000

\* Math.round of a percentage.
Rounded(p) == 10 * ((p + 5) \div 10)

VARIABLES
    files_to_send_queue,
    upload,         \* of each file: "new", "queued", "sending", "stored", "error"
    sent_to,        \* the curr_dir it was sent with: where the backend stores it
    identifier,     \* the clock when it was sent
    loaded,         \* how much of it the browser has sent
    curr_dir,
    file_sys_repo,  \* files added to the list: the curr_dir and name put together
    op_percentage,  \* queueued_notifications, by identifier
    icon,           \* colour of hc_notification_icon, "plain" when set to none
    now

\* History.
VARIABLE
    moved           \* files during whose upload the user left the directory

request == <<upload, sent_to, identifier>>
notice  == <<op_percentage, icon>>
vars    == <<files_to_send_queue, request, loaded, curr_dir, file_sys_repo, notice, now, moved>>

TypeOK ==
    /\ files_to_send_queue \in Seq(File) /\ IsInjective(files_to_send_queue)
    /\ upload \in [File -> {"new", "queued", "sending", "stored", "error"}]
    /\ sent_to \in [File -> Place]
    /\ identifier \in [File -> 0..MaxClock] /\ now \in 0..MaxClock
    /\ loaded \in [File -> Percentage]
    /\ curr_dir \in Place
    /\ file_sys_repo \subseteq [at : Place, file : File]
    /\ op_percentage \in [0..MaxClock -> Permille \cup {NoRecord}]
    /\ icon \in {"red", "plain"}
    /\ moved \subseteq File

Init ==
    /\ files_to_send_queue = <<>>
    /\ upload = [f \in File |-> "new"]
    /\ curr_dir \in Place
    /\ sent_to = [f \in File |-> curr_dir]
    /\ identifier = [f \in File |-> 0]
    /\ loaded = [f \in File |-> 0]
    /\ file_sys_repo = {}
    /\ op_percentage = [t \in 0..MaxClock |-> NoRecord]
    /\ icon = "plain"
    /\ now = 0
    /\ moved = {}

Sending == {f \in File : upload[f] = "sending"}

Sent(f) == loaded[f] = 1000

-----------------------------------------------------------------------------
\* sendFileToServer for the last n files of a queue, in the same callback, which
\* may take no time, one by one from the end.  "were" is the state of the uploads
\* without them.
Send(n, queue, were) ==
    LET size == Len(queue)
        rest == SubSeq(queue, 1, size - n)
        nth(f) == size + 1 - CHOOSE k \in DOMAIN queue : queue[k] = f
        fs == {queue[k] : k \in size - n + 1 .. size}
    IN  /\ files_to_send_queue' = rest
        /\ upload' = [f \in File |-> IF f \in fs THEN "sending"
                                     ELSE IF f \in ToSet(rest) THEN "queued" ELSE were[f]]
        /\ sent_to' = [f \in File |-> IF f \in fs THEN curr_dir ELSE sent_to[f]]
        /\ \E time \in [1..n -> now..MaxClock] :
              /\ \A j, k \in 1..n : j < k => time[j] <= time[k]
              /\ now' = IF n = 0 THEN now ELSE time[n]
              /\ identifier' = [f \in File |-> IF f \in fs THEN time[nth(f)] ELSE identifier[f]]
              /\ op_percentage' = [t \in 0..MaxClock |->
                     IF \E k \in 1..n : time[k] = t THEN 0 ELSE op_percentage[t]]
        /\ icon' = IF n = 0 THEN icon ELSE "red"

\* handleFileSelect: can_send_file is never false, so that each selection, even of
\* no file, sends one file at once if any waits.
Select(chosen) ==
    /\ \A k \in DOMAIN chosen : upload[chosen[k]] = "new"
    /\ files_to_send_queue \o chosen # <<>>
    /\ Send(1, files_to_send_queue \o chosen, upload)
    /\ UNCHANGED <<loaded, curr_dir, file_sys_repo, moved>>

\* Mutation: the percentage counts the bytes twice.
ProgressMutant(f) ==
    /\ f \in Sending
    /\ \E percentage \in Percentage :
          /\ percentage > loaded[f]
          /\ loaded' = [loaded EXCEPT ![f] = percentage]
          /\ op_percentage' = [op_percentage EXCEPT ![identifier[f]] = 2 * percentage]
    /\ UNCHANGED <<files_to_send_queue, request, curr_dir, file_sys_repo, icon, now, moved>>

\* hc_handle_progress; an upload that shares its identifier shares the record.
Progress(f) ==
    /\ f \in Sending
    /\ \E percentage \in Percentage :
          /\ percentage > loaded[f]
          /\ loaded' = [loaded EXCEPT ![f] = percentage]
          /\ op_percentage' = [op_percentage EXCEPT ![identifier[f]] = percentage]
    /\ UNCHANGED <<files_to_send_queue, request, curr_dir, file_sys_repo, icon, now, moved>>

\* Mutation: only a success sends more.
PushMutant(f, outcome) ==
    IF outcome = "error"
    THEN /\ upload' = [upload EXCEPT ![f] = outcome]
         /\ UNCHANGED <<files_to_send_queue, sent_to, identifier, notice, now>>
    ELSE LET waiting == Len(files_to_send_queue)
         IN  Send(IF waiting < UnitsPerPush THEN waiting ELSE UnitsPerPush,
                  files_to_send_queue, [upload EXCEPT ![f] = outcome])

\* push_to_server_from_queued_files, after an upload ended.
Push(f, outcome) ==
    LET waiting == Len(files_to_send_queue)
    IN  Send(IF waiting < UnitsPerPush THEN waiting ELSE UnitsPerPush,
             files_to_send_queue, [upload EXCEPT ![f] = outcome])

\* Mutation: the file is not added when one of that name is in any directory.
SucceedMutant(f) ==
    /\ f \in Sending /\ Sent(f)
    /\ file_sys_repo' = IF \E e \in file_sys_repo : e.at = curr_dir THEN file_sys_repo
                        ELSE file_sys_repo \cup {[at |-> curr_dir, file |-> f]}
    /\ Push(f, "stored")
    /\ UNCHANGED <<loaded, curr_dir, moved>>

\* success: the answer has the record's _id, and the file is added to the
\* directory the page shows by now.
Succeed(f) ==
    /\ f \in Sending /\ Sent(f)
    /\ file_sys_repo' = file_sys_repo \cup {[at |-> curr_dir, file |-> f]}
    /\ Push(f, "stored")
    /\ UNCHANGED <<loaded, curr_dir, moved>>

\* error.
Error(f) ==
    /\ f \in Sending
    /\ Push(f, "error")
    /\ UNCHANGED <<loaded, curr_dir, file_sys_repo, moved>>

\* What show_table_uploads writes back.
Shown == [t \in 0..MaxClock |-> IF op_percentage[t] = NoRecord THEN NoRecord
                                ELSE Rounded(op_percentage[t])]

\* Mutation: the icon tells the last record only.
TickMutant ==
    /\ \E t \in 0..MaxClock : op_percentage[t] # NoRecord
    /\ op_percentage' = Shown
    /\ icon' = IF Shown[now] < 1000 THEN "red" ELSE "plain"
    /\ UNCHANGED <<files_to_send_queue, request, loaded, curr_dir, file_sys_repo, now, moved>>

\* show_table_uploads, every second once a file was sent.
Tick ==
    /\ \E t \in 0..MaxClock : op_percentage[t] # NoRecord
    /\ op_percentage' = Shown
    /\ icon' = IF \E t \in 0..MaxClock : Shown[t] < 1000 THEN "red" ELSE "plain"
    /\ UNCHANGED <<files_to_send_queue, request, loaded, curr_dir, file_sys_repo, now, moved>>

\* The user opens a directory, by a double click or the path above the table;
\* whether its text ends with a slash depends on which, and on whether its files
\* had to be fetched.
GoToDir(place) ==
    /\ curr_dir # place
    /\ curr_dir' = place
    /\ moved' = moved \cup Sending
    /\ UNCHANGED <<files_to_send_queue, request, loaded, file_sys_repo, notice, now>>

Selections == UNION {SetToSeqs(fs) : fs \in SUBSET File}

Next ==
    \/ \E chosen \in Selections : Select(chosen)
    \/ \E f \in File : Progress(f) \/ Succeed(f) \/ Error(f)
    \/ Tick
    \/ \E place \in Place : GoToDir(place)

Spec == Init /\ [][Next]_vars

-----------------------------------------------------------------------------
(***************************************************************************)
(* Properties.                                                             *)
(***************************************************************************)

\* Every selected file is uploaded once, from the callback of a selection or of
\* an upload that ended, and none waits for ever although uploads fail: the page
\* never runs out of callbacks while files wait.  The pool bounds how many start
\* at a time, not how many are under way.
Pool ==
    INSTANCE UploadPool WITH
        waiting <- ToSet(files_to_send_queue),
        active  <- Sending,
        ended   <- {f \in File : upload[f] \in {"stored", "error"}}

ImplementsPool == Pool!Spec

\* A stored file is listed in the directory it was stored in, unless the user
\* left that directory during the upload or the text of its path did not end with
\* a slash, in which case the name is glued to it.
ShownWhereStored ==
    \A f \in File : upload[f] = "stored" =>
        \/ [at |-> sent_to[f], file |-> f] \in file_sys_repo /\ sent_to[f].slash
        \/ f \in moved
        \/ ~sent_to[f].slash

\* Uploads that started in the same millisecond share a record.
Alone(f) == \A g \in File \ {f} : upload[g] \in {"new", "queued"} \/ identifier[g] # identifier[f]

\* When the icon is refreshed, it goes out only if every upload under way is
\* sent but for half a per cent, which is rounded away, or shares its record; it
\* stays red only for one that is not, that ended in an error before it was, for
\* ever, or that shares its record.
IconTellsUploads ==
    [][Tick =>
        /\ icon' = "plain" => \A f \in Sending : loaded[f] >= 995 \/ ~Alone(f)
        /\ icon' = "red"   => \E f \in File :
                                 /\ upload[f] \in {"sending", "error", "stored"}
                                 /\ loaded[f] < 995 \/ ~Alone(f)]_vars
=============================================================================
