----------------------------- MODULE FilesPage ------------------------------
(***************************************************************************)
(* The files page (files_menu.js) over DeluxeRequests: what each open page *)
(* of the user believes about favourites and links, file_sys_view, and the *)
(* requests it sends on a click.  A page learns what the tables hold only  *)
(* when it loads; after that it repeats on its own lists what it takes the *)
(* server to have done.                                                    *)
(*                                                                         *)
(* The page compares cleaned paths, so that for it the spellings of a      *)
(* directory are one, while the spelling it sends depends on how the user  *)
(* came there.                                                             *)
(***************************************************************************)
EXTENDS DeluxeRequests

CONSTANT Undefined

VARIABLES
    file_sys_badge,     \* each page's copy of deluxe_table, Undefined when a load failed
    shared_links        \* each page's copy of hc_shared_links: its items

page    == <<file_sys_badge, shared_links>>
history == <<failed, before, raced>>
vars    == <<requests, handler, tables, page, history>>

BadgeRow == [item : Item, is_favorite : BOOLEAN]
LinkRow  == [item : Item, key_token : Nat, by : Req]

\* undefined is not an array.
ASSUME UndefinedAssumption == Undefined \notin Seq(BadgeRow)

TypeOK ==
    /\ requests \in Seq([op : OperationType, page : Page \cup {NoPage},
                         item : Item \cup {NoItem}, link : 0..MaxRequests])
    /\ Len(requests) <= MaxRequests
    /\ at \in [Req -> Busy \cup Over \cup {"unsent", "badgesAnswered", "answered"}]
    /\ reply \in [Req -> {"none", "200", "500", "501", "redirect"}]
    /\ found \in [Req -> 0..MaxRequests] /\ copy \in [Req -> BOOLEAN]
    /\ key_token \in [Req -> 0..MaxRequests] /\ now \in 0..MaxRequests
    /\ data \in [Req -> Seq(BadgeRow) \cup Seq(LinkRow)]
    /\ deluxe_table \in Seq(BadgeRow) /\ hc_shared_links \in Seq(LinkRow)
    /\ failed \subseteq Req /\ raced \subseteq Req /\ before \in [Req -> SUBSET Req]
    /\ file_sys_badge \in [Page -> {Undefined} \cup Seq(BadgeRow)]
    /\ shared_links \in [Page -> Seq(Item)]

\* The pages are open, and nothing is a favourite or shared.
Init ==
    /\ requests = <<>>
    /\ at = [r \in Req |-> "unsent"]
    /\ reply = [r \in Req |-> "none"]
    /\ found = [r \in Req |-> 0]
    /\ copy = [r \in Req |-> FALSE]
    /\ key_token = [r \in Req |-> 0]
    /\ data = [r \in Req |-> <<>>]
    /\ deluxe_table = <<>> /\ hc_shared_links = <<>>
    /\ now = 0
    /\ file_sys_badge = [p \in Page |-> <<>>]
    /\ shared_links = [p \in Page |-> <<>>]
    /\ failed = {} /\ raced = {}
    /\ before = [r \in Req |-> {}]

-----------------------------------------------------------------------------
\* Does the page show the file as shared?  hc_does_file_has_share_link.
HasShareLink(p, f) == \E n \in DOMAIN shared_links[p] : FileOf(shared_links[p][n]) = f

\* The toggles of an item that are under way.
Toggling(i) == {r \in Known : Operation(r) = "add_to_favorites" /\ ItemOf(r) = i
                              /\ at[r] \in Busy}

Send(op, p, i, l) ==
    LET r == Len(requests) + 1
        overlapped == IF op = "add_to_favorites" THEN Toggling(i) ELSE {}
    IN  /\ r <= MaxRequests
        /\ requests' = Append(requests, [op |-> op, page |-> p, item |-> i, link |-> l])
        /\ before' = [before EXCEPT ![r] = {s \in Known : at[s] \in Over}]
        /\ raced' = IF overlapped = {} THEN raced ELSE raced \cup overlapped \cup {r}
        /\ GoTo(r, FirstStep[op])
        /\ UNCHANGED <<read, data, tables, page, failed>>

\* hc_add_to_favorites_file_or_folder.
AddToFavorites(p, i) == Send("add_to_favorites", p, i, 0)

\* hc_share_file_or_folder asks for what the page's list says.
Share(p, i) ==
    Send(IF HasShareLink(p, FileOf(i)) THEN "remove_share_link" ELSE "generate_share_link",
         p, i, 0)

\* hc_delete_file_or_folder and hc_move_file name no file, a client of the
\* interface may.  These handlers share nothing with the others, and the page's
\* callback throws at an undeclared variable or does nothing: it is enough to
\* send one before anything else.
Delete(i) == Len(requests) = 0 /\ Send("move_to_trash", NoPage, i, 0)
MoveFile  == Len(requests) = 0 /\ Send("move_file", NoPage, NoItem, 0)

\* hc_mycloudcontent_servercall_getCloudContentAndUpdateTable.
Load(p) == Send("load", p, NoItem, 0)

\* Somebody opens a link that a page showed.
FollowLink(g) ==
    /\ Operation(g) = "generate_share_link" /\ at[g] = "received" /\ reply[g] = "200"
    /\ Send("download_shared", NoPage, NoItem, g)

-----------------------------------------------------------------------------
\* The browser follows a redirect, to a login page of status 200.
LooksLike200(r) == reply[r] \in {"200", "redirect"}

\* update_local_badge toggles the row of the very same path, or adds one.
ToggleBadge(badges, i) ==
    LET rows == {n \in DOMAIN badges : badges[n].item = i}
    IN  IF rows = {}
        THEN Append(badges, [item |-> i, is_favorite |-> TRUE])
        ELSE LET n == CHOOSE n \in rows : \A m \in rows : n <= m
             IN  [badges EXCEPT ![n].is_favorite = ~@]

\* Mutation: every favourite is added.
FavouriteDoneMutant(r, p) ==
    /\ file_sys_badge' =
          IF LooksLike200(r) /\ file_sys_badge[p] # Undefined
          THEN [file_sys_badge EXCEPT ![p] = Append(@, [item |-> ItemOf(r), is_favorite |-> TRUE])]
          ELSE file_sys_badge
    /\ UNCHANGED shared_links

\* The callback throws at an Undefined list.
FavouriteDone(r, p) ==
    /\ file_sys_badge' =
          IF LooksLike200(r) /\ file_sys_badge[p] # Undefined
          THEN [file_sys_badge EXCEPT ![p] = ToggleBadge(@, ItemOf(r))]
          ELSE file_sys_badge
    /\ UNCHANGED shared_links

\* Mutation: the link that is added names no file.
ShareDoneMutant(r, p) ==
    /\ shared_links' =
          IF LooksLike200(r) THEN [shared_links EXCEPT ![p] = Append(@, NoItem)]
                             ELSE shared_links
    /\ UNCHANGED file_sys_badge

ShareDone(r, p) ==
    /\ shared_links' =
          IF LooksLike200(r) THEN [shared_links EXCEPT ![p] = Append(@, ItemOf(r))]
                             ELSE shared_links
    /\ UNCHANGED file_sys_badge

\* hc_delete_shared_link_from_list drops the first link of the file.
RemoveDone(r, p) ==
    LET links == {n \in DOMAIN shared_links[p] : FileOf(shared_links[p][n]) = FileOf(ItemOf(r))}
    IN  /\ IF LooksLike200(r) /\ links # {}
           THEN \E n \in links :
                  /\ \A m \in links : n <= m
                  /\ shared_links' = [shared_links EXCEPT ![p] = RemoveAt(@, n)]
           ELSE UNCHANGED shared_links
        /\ UNCHANGED file_sys_badge

\* Any answer to getdeluxecontent is assigned, and what is not JSON, or is lost,
\* is undefined.  In either case getsharedlinks is sent.
ReceiveBadges(r) ==
    LET p == requests[r].page
    IN  /\ at[r] = "badgesAnswered"
        /\ \/ /\ file_sys_badge' = [file_sys_badge EXCEPT ![p] =
                                        IF reply[r] = "200" THEN data[r] ELSE Undefined]
              /\ UNCHANGED failed
           \/ /\ file_sys_badge' = [file_sys_badge EXCEPT ![p] = Undefined]
              /\ Fails(r)
        /\ at' = [at EXCEPT ![r] = "links"]
        /\ reply' = [reply EXCEPT ![r] = "none"]
        /\ data' = [data EXCEPT ![r] = <<>>]
        /\ UNCHANGED <<sent, read, tables, shared_links, raced>>

LinksDone(r, p) ==
    /\ shared_links' =
          IF reply[r] = "200"
          THEN [shared_links EXCEPT ![p] = [n \in DOMAIN data[r] |-> data[r][n].item]]
          ELSE shared_links
    /\ UNCHANGED file_sys_badge

\* The callback of the request runs.
Receive(r) ==
    LET p == requests[r].page
    IN  /\ at[r] = "answered"
        /\ CASE Operation(r) = "add_to_favorites"    -> FavouriteDone(r, p)
             [] Operation(r) = "generate_share_link" -> ShareDone(r, p)
             [] Operation(r) = "remove_share_link"   -> RemoveDone(r, p)
             [] Operation(r) = "load"                -> LinksDone(r, p)
        /\ GoTo(r, "received")
        /\ data' = [data EXCEPT ![r] = <<>>]
        /\ UNCHANGED <<sent, read, tables, failed, raced>>

\* The answer is lost: the callbacks show an error, and change nothing.
Lose(r) ==
    /\ at[r] = "answered"
    /\ GoTo(r, "lost") /\ Fails(r)
    /\ data' = [data EXCEPT ![r] = <<>>]
    /\ UNCHANGED <<sent, read, tables, page, raced>>

Click(p) ==
    \/ Load(p)
    \/ \E i \in Item : AddToFavorites(p, i) \/ Share(p, i)

Next ==
    \/ \E p \in Page : Click(p)
    \/ \E i \in Item \cup {NoItem} : Delete(i)
    \/ MoveFile
    \/ \E g \in Known : FollowLink(g)
    \/ \E r \in Known : Handle(r) /\ UNCHANGED page
    \/ \E r \in Known : ReceiveBadges(r) \/ Receive(r) \/ Lose(r)

Spec == Init /\ [][Next]_vars

-----------------------------------------------------------------------------
(***************************************************************************)
(* Properties.                                                             *)
(***************************************************************************)

Done(r) == at[r] \in Over
Carried(r) == at[r] \in Over \cup {"answered"}      \* its handler is through

\* findOne's choice among the rows of an item.
IsFavourite(i) ==
    \E n \in RowsOf(i) : (\A m \in RowsOf(i) : n <= m) /\ deluxe_table[n].is_favorite

IsToggle(r) == r \in Known /\ Operation(r) = "add_to_favorites"

\* The first row of an item in deluxe_table is a flag that every toggle answered
\* 200 flips once, however the handlers interleave and whichever calls fail:
\* what an unlucky toggle inserts twice, the following ones do not find.
Flags ==
    INSTANCE FavouriteFlags WITH
        asked  <- [r \in Req |-> IF IsToggle(r) THEN ItemOf(r) ELSE NoItem],
        answer <- [r \in Req |-> IF ~IsToggle(r) \/ reply[r] = "none" THEN "none"
                                 ELSE IF reply[r] = "200" THEN "200" ELSE "other"],
        raced  <- raced,
        flag   <- [i \in Item |-> IsFavourite(i)]

ImplementsFavourites == Flags!Spec

Downloads == {r \in Known : Operation(r) = "download_shared"}
LinkOf(d) == requests[d].link

\* A link opens the file it was made for, or that of a link made in the same
\* millisecond; and once a removal sent after a link was seen is answered 200,
\* no download that follows opens that link, unless the server could not connect
\* or the page spelled the directory in another way than when the link was made.
RemovedLinkIsDead ==
    \A d \in Downloads : reply[d] = "200" =>
        /\ key_token[found[d]] = key_token[LinkOf(d)]
        /\ \A m \in before[d] :
              /\ Operation(m) = "remove_share_link" /\ reply[m] = "200"
              /\ found[d] \in before[m]
              /\ FileOf(ItemOf(m)) = FileOf(ItemOf(found[d]))
              => m \in failed \/ ItemOf(m) # ItemOf(found[d])

\* A request is left unanswered only where the code has no answer: an operation
\* that is not implemented, a named file for the trash, a toggle whose database
\* call failed, or a link that is not in the table, because it was never stored
\* or has been removed since, or could not be looked up.
UnansweredHasCause ==
    \A r \in Known : at[r] = "unanswered" =>
        \/ Operation(r) = "move_file"
        \/ Operation(r) = "move_to_trash" /\ ItemOf(r) # NoItem
        \/ Operation(r) = "add_to_favorites" /\ r \in failed
        \/ /\ r \in Downloads
           /\ \/ r \in failed \/ LinkOf(r) \in failed
              \/ \E m \in Known :
                    /\ Operation(m) = "remove_share_link" /\ Carried(m) /\ (m \notin failed \/ at[m] = "lost")
                    /\ ItemOf(m) = ItemOf(LinkOf(r)) /\ m \notin before[LinkOf(r)]

\* What a page last loaded is what it shows: its list of links, and the badge
\* that get_badges_of_file finds first.
ShowsFavourite(p, f) ==
    \E n \in DOMAIN file_sys_badge[p] :
        /\ FileOf(file_sys_badge[p][n].item) = f /\ file_sys_badge[p][n].is_favorite
        /\ \A m \in 1..n - 1 : FileOf(file_sys_badge[p][m].item) # f

StoredFavourite(f) ==
    \E n \in DOMAIN deluxe_table :
        /\ FileOf(deluxe_table[n].item) = f /\ deluxe_table[n].is_favorite
        /\ \A m \in 1..n - 1 : FileOf(deluxe_table[m].item) # f

StoredLink(f) == \E n \in DOMAIN hc_shared_links : FileOf(hc_shared_links[n].item) = f

\* The requests that may have changed f since page p was loaded by request l
\* (0: since it was opened).
Changes(p, l, f) ==
    {r \in Known :
        /\ Operation(r) \in {"add_to_favorites", "generate_share_link", "remove_share_link"}
        /\ FileOf(ItemOf(r)) = f
        /\ l = 0 \/ r \notin before[l]}

\* p loaded with l, and since then nobody but p changed f, one request after the
\* other, none of them hit by a failure.
Undisturbed(p, l, f) ==
    /\ \A r \in Known : requests[r].page = p => Done(r)
    /\ \A r \in Known : requests[r].page = p /\ Operation(r) = "load" =>
                           l # 0 /\ (r = l \/ r \in before[l])
    /\ l # 0 => requests[l].page = p /\ Operation(l) = "load" /\ l \notin failed
    /\ \A r \in Changes(p, l, f) :
          /\ requests[r].page = p /\ r \notin failed
          /\ l # 0 => l \in before[r]
          /\ \A s \in Changes(p, l, f) : s < r => s \in before[r]

OneSpelling(f) ==
    \A r, s \in Known :
        /\ Operation(r) \in {"generate_share_link", "remove_share_link"} /\ FileOf(ItemOf(r)) = f
        /\ Operation(s) \in {"generate_share_link", "remove_share_link"} /\ FileOf(ItemOf(s)) = f
        => ItemOf(r) = ItemOf(s)

\* Load l may have met two links of f: no removal that was over by then took
\* either of them away.
LinkedTwice(l, f) ==
    l # 0 /\ \E r, s \in before[l] :
        /\ r # s
        /\ \A g \in {r, s} :
              /\ Operation(g) = "generate_share_link" /\ FileOf(ItemOf(g)) = f
              /\ \A m \in before[l] :
                    /\ Operation(m) = "remove_share_link" /\ reply[m] = "200"
                    /\ ItemOf(m) = ItemOf(g) /\ g \in before[m]
                    => m \in failed

\* A page that nobody disturbed shows the file as the tables have it, if its
\* links were always made and removed under one spelling, one at a time.  A file
\* that had two links when the page loaded may stay shown as shared when its
\* links are removed: RemoveDone drops one of the page's, DeleteLinks all rows.
ViewShowsTables ==
    \A p \in Page, l \in Known \cup {0}, f \in File : Undisturbed(p, l, f) =>
        /\ ShowsFavourite(p, f) = StoredFavourite(f)
        /\ OneSpelling(f) =>
              /\ StoredLink(f) => HasShareLink(p, f)
              /\ HasShareLink(p, f) => StoredLink(f) \/ LinkedTwice(l, f)
=============================================================================
