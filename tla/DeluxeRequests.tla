--------------------------- MODULE DeluxeRequests ---------------------------
(***************************************************************************)
(* The web server's handlers for favourites, trash and shared links, over  *)
(* deluxe_table and hc_shared_links, for the files of one user.  A handler *)
(* is interleaved with the others at every database call; any of its calls *)
(* may fail, and its session check may refuse it.                          *)
(*                                                                         *)
(* An item is a file under one spelling of its directory: the handlers     *)
(* compare the strings, so "/usb/d" and "//usb/d/" are different items of  *)
(* the same file.  FilesPage says who sends the requests.                  *)
(***************************************************************************)
EXTENDS Naturals, FiniteSets, SequencesExt

CONSTANTS
    Item,           \* <<file, spelling of its directory>>
    Page,           \* browser pages of the user
    NoItem, NoPage,
    MaxRequests,    \* bound on the requests sent
    MaxFailures     \* bound on the requests that meet a failure

ASSUME DeluxeAssumption ==
    /\ MaxRequests \in Nat /\ MaxFailures \in Nat
    /\ NoItem \notin Item /\ NoPage \notin Page

Req       == 1..MaxRequests
FileOf(i) == i[1]
File      == {FileOf(i) : i \in Item}

VARIABLES
    requests,           \* sent, in order: operation, page, item, link followed
    at,                 \* where each request is
    reply,              \* the status it is answered with
    found,              \* toggle: the row it read; download: whose link it found
    copy,               \* toggle: is_favorite in the record it read, toggled
    key_token,          \* generate: the token it made
    data,               \* load: the table it answers with
    deluxe_table,       \* rows [item, is_favorite], in order of insertion
    hc_shared_links,    \* rows [item, key_token, by]
    now                 \* the clock, in milliseconds

\* History.
VARIABLES
    failed,             \* requests that met a failure, a refusal or a lost answer
    before,             \* the requests that were over when each one was sent
    raced               \* toggles that overlapped one of their item, or missed its row

tables  == <<deluxe_table, hc_shared_links>>
read    == <<found, copy, key_token, now>>
handler == <<at, reply, data, read>>
sent    == <<requests, before>>

OperationType == {"add_to_favorites", "move_to_trash", "move_file", "load",
                  "generate_share_link", "remove_share_link", "download_shared"}

\* Where the handler of a request starts.
FirstStep ==
    [op \in OperationType |->
        CASE op = "add_to_favorites"    -> "find"
          [] op = "move_to_trash"       -> "trash"
          [] op = "move_file"           -> "ignore"
          [] op = "load"                -> "badges"
          [] op = "generate_share_link" -> "generate"
          [] op = "remove_share_link"   -> "delete"
          [] op = "download_shared"     -> "follow"]

\* Places that start with the session check.
Checked == {"find", "trash", "ignore", "badges", "links", "generate", "delete"}
Busy    == Checked \cup {"follow", "update", "insert", "insertLink"}
Over    == {"received", "lost", "unanswered"}

Operation(r) == requests[r].op
ItemOf(r)    == requests[r].item
Known        == DOMAIN requests

-----------------------------------------------------------------------------
\* What is not for a page is over when it is answered; the first of a load's two
\* requests has its own place to be answered at.
Answer(r, status) ==
    /\ at' = [at EXCEPT ![r] = IF requests[r].page = NoPage THEN "received"
                               ELSE IF at[r] = "badges" THEN "badgesAnswered"
                               ELSE "answered"]
    /\ reply' = [reply EXCEPT ![r] = status]

GoTo(r, where) ==
    /\ at' = [at EXCEPT ![r] = where]
    /\ UNCHANGED reply

Fails(r) ==
    /\ Cardinality(failed \cup {r}) <= MaxFailures
    /\ failed' = failed \cup {r}

Succeeds(r) == UNCHANGED failed

\* send_status_code is given the Error of a database call: response.end throws,
\* in the call's callback, where uncaughtException logs it and nobody answers.
Throws(r) == GoTo(r, "unanswered") /\ Fails(r)

\* is_valid_session finds no session: send_logout_redirect.
Refuse(r) ==
    /\ at[r] \in Checked
    /\ Answer(r, "redirect") /\ Fails(r)
    /\ UNCHANGED <<sent, read, data, tables, raced>>

RowsOf(i) == {n \in DOMAIN deluxe_table : deluxe_table[n].item = i}

\* Mutation: a known record is not looked for.
FindFavouriteMutant(r) ==
    /\ at[r] = "find"
    /\ GoTo(r, "insert") /\ Succeeds(r)
    /\ UNCHANGED <<sent, key_token, now, data, tables, found, copy, raced>>

\* add_badge_to_file_or_folder: findOne, in whose error the record is as
\* unknown as if there were none.
FindFavourite(r) ==
    /\ at[r] = "find"
    /\ \/ \E n \in RowsOf(ItemOf(r)) :
            /\ \A m \in RowsOf(ItemOf(r)) : n <= m
            /\ found' = [found EXCEPT ![r] = n]
            /\ copy' = [copy EXCEPT ![r] = ~deluxe_table[n].is_favorite]
            /\ GoTo(r, "update") /\ Succeeds(r) /\ UNCHANGED raced
       \/ /\ RowsOf(ItemOf(r)) = {}
          /\ GoTo(r, "insert") /\ Succeeds(r) /\ UNCHANGED <<found, copy, raced>>
       \/ /\ GoTo(r, "insert") /\ Fails(r)
          /\ raced' = raced \cup {r} /\ UNCHANGED <<found, copy>>
       \/ Throws(r) /\ UNCHANGED <<found, copy, raced>>
    /\ UNCHANGED <<sent, key_token, now, data, tables>>

\* db_api_update_record_in_table writes back the whole record that was read.
UpdateFavourite(r) ==
    /\ at[r] = "update"
    /\ \/ /\ deluxe_table' = [deluxe_table EXCEPT ![found[r]].is_favorite = copy[r]]
          /\ Answer(r, "200") /\ Succeeds(r)
       \/ UNCHANGED deluxe_table /\ Throws(r)
    /\ found' = [found EXCEPT ![r] = 0] /\ copy' = [copy EXCEPT ![r] = FALSE]
    /\ UNCHANGED <<sent, key_token, now, data, hc_shared_links, raced>>

InsertFavourite(r) ==
    /\ at[r] = "insert"
    /\ \/ /\ deluxe_table' = Append(deluxe_table, [item |-> ItemOf(r), is_favorite |-> TRUE])
          /\ Answer(r, "200") /\ Succeeds(r)
       \/ UNCHANGED deluxe_table /\ Throws(r)
    /\ UNCHANGED <<sent, read, data, hc_shared_links, raced>>

\* move_to_trash without names is refused.  With names, it returns without its
\* callback when the record is known, dereferences null when it is not, and
\* throws when it can not connect.
Trash(r) ==
    /\ at[r] = "trash"
    /\ IF ItemOf(r) = NoItem THEN Answer(r, "500") ELSE GoTo(r, "unanswered")
    /\ UNCHANGED <<sent, read, data, tables, failed, raced>>

\* add_note_to_file_or_folder, encrypt_file and move_file have empty branches.
Ignore(r) ==
    /\ at[r] = "ignore"
    /\ GoTo(r, "unanswered")
    /\ UNCHANGED <<sent, read, data, tables, failed, raced>>

\* generate_share_link: what the query for an existing link yields is an array
\* or null, never a record with a key_token, so a token is always made.
Generate(r) ==
    /\ at[r] = "generate"
    /\ key_token' = [key_token EXCEPT ![r] = now]
    /\ now' \in {now, now + 1}
    /\ GoTo(r, "insertLink")
    /\ UNCHANGED <<sent, data, tables, found, copy, failed, raced>>

\* Mutation: the token is made from the clock again when it is stored.
InsertLinkMutant(r) ==
    /\ at[r] = "insertLink"
    /\ hc_shared_links' = Append(hc_shared_links,
                              [item |-> ItemOf(r), key_token |-> now, by |-> r])
    /\ Answer(r, "200") /\ Succeeds(r)
    /\ UNCHANGED <<sent, read, data, deluxe_table, raced>>

\* The callback of the insert does not look at its error.
InsertLink(r) ==
    /\ at[r] = "insertLink"
    /\ \/ /\ hc_shared_links' = Append(hc_shared_links,
                 [item |-> ItemOf(r), key_token |-> key_token[r], by |-> r])
          /\ Succeeds(r)
       \/ UNCHANGED hc_shared_links /\ Fails(r)
    /\ Answer(r, "200")
    /\ UNCHANGED <<sent, read, data, deluxe_table, raced>>

\* Mutation: the filter also has the token, which the page does not send.
DeleteLinksMutant(r) ==
    /\ at[r] = "delete"
    /\ Answer(r, "200") /\ Succeeds(r)
    /\ UNCHANGED <<sent, read, data, tables, raced>>

\* deleteMany: the rows of other items, in their order.
KeepOthers(i) ==
    LET kept == {n \in DOMAIN hc_shared_links : hc_shared_links[n].item # i}
    IN  \E nth \in [1..Cardinality(kept) -> kept] :
            /\ \A j, k \in DOMAIN nth : j < k => nth[j] < nth[k]
            /\ hc_shared_links' = [k \in DOMAIN nth |-> hc_shared_links[nth[k]]]

\* remove_share_link.  db_api_delete_records_by_filter calls back with null, the
\* handler's sign of success, when it can not connect.
DeleteLinks(r) ==
    /\ at[r] = "delete"
    /\ \/ KeepOthers(ItemOf(r)) /\ Answer(r, "200") /\ Succeeds(r)
       \/ /\ UNCHANGED hc_shared_links
          /\ Answer(r, "200") \/ Answer(r, "501")
          /\ Fails(r)
    /\ UNCHANGED <<sent, read, data, deluxe_table, raced>>

RowsWithToken(t) == {n \in DOMAIN hc_shared_links : hc_shared_links[n].key_token = t}

\* download_shared opens data[0].  An empty result and a failed query both throw,
\* the one at data[0] and the other at a response that has another name.
Follow(r) ==
    LET rows == RowsWithToken(key_token[requests[r].link])
    IN  /\ at[r] = "follow"
        /\ \/ \E n \in rows :
                /\ \A m \in rows : n <= m
                /\ found' = [found EXCEPT ![r] = hc_shared_links[n].by]
                /\ Answer(r, "200") /\ Succeeds(r)
           \/ rows = {} /\ GoTo(r, "unanswered") /\ Succeeds(r) /\ UNCHANGED found
           \/ Throws(r) /\ UNCHANGED found
        /\ UNCHANGED <<sent, copy, key_token, now, data, tables, raced>>

\* getdeluxecontent and getsharedlinks answer with the user's rows.
List(r, where, table) ==
    /\ at[r] = where
    /\ \/ Answer(r, "200") /\ data' = [data EXCEPT ![r] = table] /\ Succeeds(r)
       \/ Answer(r, "500") /\ UNCHANGED data /\ Fails(r)
    /\ UNCHANGED <<sent, read, tables, raced>>

ListBadges(r) == List(r, "badges", deluxe_table)
ListLinks(r)  == List(r, "links", hc_shared_links)

Handle(r) ==
    \/ Refuse(r)
    \/ FindFavourite(r) \/ UpdateFavourite(r) \/ InsertFavourite(r)
    \/ Trash(r) \/ Ignore(r)
    \/ Generate(r) \/ InsertLink(r) \/ DeleteLinks(r) \/ Follow(r)
    \/ ListBadges(r) \/ ListLinks(r)
=============================================================================
