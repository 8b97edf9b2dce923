--------------------------- MODULE FilesPageProofs ---------------------------
(***************************************************************************)
(* FilesPage and the handlers of DeluxeRequests, for every number of       *)
(* pages, items, requests and failures: what a removed link opens, why a   *)
(* request is left unanswered, and that deluxe_table implements the flags  *)
(* of FavouriteFlags.                                                      *)
(***************************************************************************)
EXTENDS FilesPage, SequenceTheorems, FiniteSetTheorems, TLAPS

\* What pages ask for.
ForPage == {"add_to_favorites", "load", "generate_share_link", "remove_share_link"}

\* A place is one of an operation's handler.
PlaceOK(r) ==
    /\ at[r] \in {"find", "update", "insert"}              => Operation(r) = "add_to_favorites"
    /\ at[r] = "trash"                                     => Operation(r) = "move_to_trash"
    /\ at[r] = "ignore"                                    => Operation(r) = "move_file"
    /\ at[r] \in {"badges", "badgesAnswered", "links"}     => Operation(r) = "load"
    /\ at[r] \in {"generate", "insertLink"}                => Operation(r) = "generate_share_link"
    /\ at[r] = "delete"                                    => Operation(r) = "remove_share_link"
    /\ at[r] = "follow"                                    => Operation(r) = "download_shared"
    /\ at[r] # "unsent"

RequestOK(r) ==
    /\ PlaceOK(r)
    /\ Operation(r) \in ForPage <=> requests[r].page \in Page
    /\ Operation(r) \in ForPage \ {"load"} => ItemOf(r) \in Item
    /\ at[r] \in {"badgesAnswered", "answered"} => requests[r].page \in Page
    /\ at[r] \in Busy => reply[r] = "none"
    /\ at[r] = "delete" => r \notin failed
    /\ \A s \in before[r] : s \in Known /\ at[s] \in Over

RequestInv ==
    /\ \A r \in Known : RequestOK(r)
    /\ \A r \in Req \ Known : at[r] = "unsent" /\ reply[r] = "none" /\ r \notin failed

\* An answered load holds rows of the table that is due.
DataInv ==
    \A r \in Known : reply[r] = "200" =>
        /\ at[r] = "badgesAnswered" => data[r] \in Seq(BadgeRow)
        /\ at[r] = "answered" /\ Operation(r) = "load" => data[r] \in Seq(LinkRow)

\* A toggle may insert a row, and a link's token may take a millisecond.
CountInv ==
    /\ Len(deluxe_table) + Cardinality({r \in Req : ~Carried(r)}) <= MaxRequests
    /\ now + Cardinality({r \in Req : at[r] \in {"unsent", "generate"}}) <= MaxRequests

\* Toggles of an item that are under way together raced.  One that did not has
\* read what the table still holds.
ToggleInv ==
    /\ \A r, s \in Known :
          /\ Operation(r) = "add_to_favorites" /\ Operation(s) = "add_to_favorites"
          /\ at[r] \in Busy /\ at[s] \in Busy /\ ItemOf(r) = ItemOf(s) /\ r # s
          => r \in raced
    /\ \A r \in Known : at[r] = "update" =>
          /\ found[r] \in RowsOf(ItemOf(r)) /\ \A m \in RowsOf(ItemOf(r)) : found[r] <= m
          /\ r \notin raced => copy[r] = ~deluxe_table[found[r]].is_favorite
    /\ \A r \in Known : at[r] = "insert" /\ r \notin raced => RowsOf(ItemOf(r)) = {}

IsGenerate(g) == g \in Known /\ Operation(g) = "generate_share_link"
IsRemove(m)   == m \in Known /\ Operation(m) = "remove_share_link"

\* A row of hc_shared_links is the one that its request made.
LinkInv ==
    \A n \in DOMAIN hc_shared_links :
        LET row == hc_shared_links[n]
        IN  /\ IsGenerate(row.by) /\ Carried(row.by)
            /\ row.item = ItemOf(row.by) /\ row.key_token = key_token[row.by]

\* A removal that succeeded left no row of a request that was over before it.
RemovedInv ==
    \A m \in Known : IsRemove(m) /\ reply[m] = "200" /\ m \notin failed =>
        \A n \in DOMAIN hc_shared_links :
            hc_shared_links[n].item = ItemOf(m) => hc_shared_links[n].by \notin before[m]

\* A link that was made is in the table, unless its insert failed or a removal
\* of its item was carried out since it was asked for.
Removes(m, g) ==
    /\ IsRemove(m) /\ Carried(m) /\ (m \notin failed \/ at[m] = "lost")
    /\ ItemOf(m) = ItemOf(g) /\ m \notin before[g]

StoredInv ==
    \A g \in Known : IsGenerate(g) /\ Carried(g) /\ reply[g] = "200" =>
        \/ g \in failed
        \/ \E n \in DOMAIN hc_shared_links : hc_shared_links[n].by = g
        \/ \E m \in Known : Removes(m, g)

DownloadInv ==
    \A d \in Downloads :
        /\ IsGenerate(LinkOf(d)) /\ at[LinkOf(d)] = "received" /\ reply[LinkOf(d)] = "200"
        /\ reply[d] = "200" => IsGenerate(found[d]) /\ Carried(found[d])

LinksInv ==
    /\ LinkInv /\ RemovedInv /\ StoredInv /\ DownloadInv
    /\ RemovedLinkIsDead /\ UnansweredHasCause

IInv == TypeOK /\ RequestInv /\ DataInv /\ CountInv /\ ToggleInv /\ LinksInv

USE DeluxeAssumption

-----------------------------------------------------------------------------
(***************************************************************************)
(* Requests and tables.                                                    *)
(***************************************************************************)
Place  == Busy \cup Over \cup {"unsent", "badgesAnswered", "answered"}
Status == {"none", "200", "500", "501", "redirect"}

LEMMA KnownType ==
    ASSUME TypeOK
    PROVE  /\ Len(requests) \in Nat /\ Known = 1..Len(requests) /\ Known \subseteq Req
           /\ \A r \in Known :
                 /\ Operation(r) \in OperationType /\ requests[r].page \in Page \cup {NoPage}
                 /\ ItemOf(r) \in Item \cup {NoItem} /\ LinkOf(r) \in 0..MaxRequests
<1>1. /\ requests \in Seq([op : OperationType, page : Page \cup {NoPage},
                           item : Item \cup {NoItem}, link : 0..MaxRequests])
      /\ Len(requests) <= MaxRequests
    BY DEF TypeOK
<1>2. Len(requests) \in Nat /\ Known = 1..Len(requests)
    BY <1>1, LenProperties DEF Known
<1>3. \A r \in Known : requests[r] \in [op : OperationType, page : Page \cup {NoPage},
                                        item : Item \cup {NoItem}, link : 0..MaxRequests]
    BY <1>1, <1>2, ElementOfSeq
<1>4. Known \subseteq Req
    BY <1>1, <1>2 DEF Req
<1> QED
    BY <1>2, <1>3, <1>4 DEF Operation, ItemOf, LinkOf

LEMMA TableType ==
    ASSUME TypeOK
    PROVE  /\ Len(deluxe_table) \in Nat /\ DOMAIN deluxe_table = 1..Len(deluxe_table)
           /\ \A n \in DOMAIN deluxe_table :
                 deluxe_table[n].item \in Item /\ deluxe_table[n].is_favorite \in BOOLEAN
           /\ Len(hc_shared_links) \in Nat /\ DOMAIN hc_shared_links = 1..Len(hc_shared_links)
           /\ \A n \in DOMAIN hc_shared_links :
                 /\ hc_shared_links[n].item \in Item /\ hc_shared_links[n].key_token \in Nat
                 /\ hc_shared_links[n].by \in Req
<1>1. deluxe_table \in Seq(BadgeRow) /\ hc_shared_links \in Seq(LinkRow)
    BY DEF TypeOK
<1>2. /\ Len(deluxe_table) \in Nat /\ DOMAIN deluxe_table = 1..Len(deluxe_table)
      /\ Len(hc_shared_links) \in Nat /\ DOMAIN hc_shared_links = 1..Len(hc_shared_links)
    BY <1>1, LenProperties
<1>3. \A n \in DOMAIN deluxe_table : deluxe_table[n] \in BadgeRow
    BY <1>1, <1>2, ElementOfSeq
<1>4. \A n \in DOMAIN hc_shared_links : hc_shared_links[n] \in LinkRow
    BY <1>1, <1>2, ElementOfSeq
<1> QED
    BY <1>2, <1>3, <1>4 DEF BadgeRow, LinkRow

\* A step of request r leaves the others alone.
Step(r) ==
    /\ r \in Known /\ at[r] \notin Over /\ at'[r] # "unsent"
    /\ UNCHANGED <<requests, before>>
    /\ \A s \in Req \ {r} :
          /\ at'[s] = at[s] /\ reply'[s] = reply[s] /\ found'[s] = found[s]
          /\ copy'[s] = copy[s] /\ key_token'[s] = key_token[s] /\ data'[s] = data[s]
    /\ failed \subseteq failed' /\ failed' \subseteq failed \cup {r}
    /\ raced \subseteq raced' /\ raced' \subseteq raced \cup {r}

\* Answer and GoTo, by what they leave.
LEMMA AnswerStep ==
    ASSUME TypeOK, NEW r \in Known, NEW status \in Status, Answer(r, status)
    PROVE  /\ at' \in [Req -> Place] /\ reply' \in [Req -> Status]
           /\ \A s \in Req \ {r} : at'[s] = at[s] /\ reply'[s] = reply[s]
           /\ reply'[r] = status
           /\ at'[r] = IF requests[r].page = NoPage THEN "received"
                       ELSE IF at[r] = "badges" THEN "badgesAnswered" ELSE "answered"
<1>1. /\ r \in Req /\ at \in [Req -> Place] /\ reply \in [Req -> Status]
    BY KnownType DEF TypeOK, Place, Status
<1> QED
    BY <1>1 DEF Answer, Place, Over

LEMMA GoToStep ==
    ASSUME TypeOK, NEW r \in Req, NEW where \in Place, GoTo(r, where)
    PROVE  /\ at' \in [Req -> Place] /\ reply' = reply /\ reply' \in [Req -> Status]
           /\ \A s \in Req \ {r} : at'[s] = at[s] /\ reply'[s] = reply[s]
           /\ at'[r] = where
<1>1. at \in [Req -> Place] /\ reply \in [Req -> Status]
    BY DEF TypeOK, Place, Status
<1> QED
    BY <1>1 DEF GoTo

-----------------------------------------------------------------------------
(***************************************************************************)
(* What a step leaves of each part of the invariant.                       *)
(***************************************************************************)
LEMMA RequestKept ==
    ASSUME TypeOK, RequestInv, NEW r \in Known, Step(r), PlaceOK(r)',
           at'[r] \in {"badgesAnswered", "answered"} => requests[r].page \in Page,
           at'[r] \in Busy => reply'[r] = "none",
           at'[r] # "delete"
    PROVE  RequestInv'
<1>1. /\ requests' = requests /\ before' = before /\ Known' = Known /\ Known \subseteq Req
      /\ \A s \in Known : Operation(s)' = Operation(s) /\ ItemOf(s)' = ItemOf(s)
    BY KnownType DEF Step, Known, Operation, ItemOf
<1>2. ASSUME NEW s \in Known PROVE RequestOK(s)'
  <2>1. \A q \in before'[s] : q \in Known' /\ at'[q] \in Over
    BY <1>1 DEF Step, RequestInv, RequestOK
  <2>2. CASE s = r
    BY <1>1, <2>1, <2>2 DEF RequestInv, RequestOK
  <2>3. CASE s # r
    <3>1. at'[s] = at[s] /\ reply'[s] = reply[s] /\ (s \in failed' <=> s \in failed)
        BY <1>1, <2>3 DEF Step
    <3>2. PlaceOK(s)'
        BY <1>1, <3>1 DEF RequestInv, RequestOK, PlaceOK
    <3> QED
        BY <1>1, <2>1, <3>1, <3>2 DEF RequestInv, RequestOK
  <2> QED
    BY <2>2, <2>3
<1>3. ASSUME NEW s \in Req \ Known PROVE at'[s] = "unsent" /\ reply'[s] = "none" /\ s \notin failed'
    BY <1>3 DEF Step, RequestInv
<1> QED
    BY <1>1, <1>2, <1>3 DEF RequestInv

LEMMA DataKept ==
    ASSUME TypeOK, DataInv, NEW r \in Known, Step(r),
           reply'[r] = "200" /\ at'[r] = "badgesAnswered" => data'[r] \in Seq(BadgeRow),
           reply'[r] = "200" /\ at'[r] = "answered" /\ Operation(r) = "load" =>
               data'[r] \in Seq(LinkRow)
    PROVE  DataInv'
<1>1. /\ requests' = requests /\ Known' = Known /\ Known \subseteq Req
      /\ \A s \in Known : Operation(s)' = Operation(s)
    BY KnownType DEF Step, Known, Operation
<1> QED
    BY <1>1 DEF DataInv, Step

\* Requests that may still insert a row, or move the clock, get fewer.
LEMMA CountKept ==
    ASSUME TypeOK, CountInv, NEW r \in Known, Step(r),
           at'[r] \notin {"unsent", "generate"}, Carried(r) => Carried(r)',
           Len(deluxe_table') = Len(deluxe_table) \/
               (Len(deluxe_table') = Len(deluxe_table) + 1 /\ ~Carried(r) /\ Carried(r)'),
           now' = now \/ (now' = now + 1 /\ at[r] = "generate")
    PROVE  CountInv'
<1> DEFINE left   == {s \in Req : ~Carried(s)}
           leftN  == {s \in Req : ~Carried(s)'}
           timed  == {s \in Req : at[s] \in {"unsent", "generate"}}
           timedN == {s \in Req : at'[s] \in {"unsent", "generate"}}
<1>1. r \in Req /\ \A s \in Req \ {r} : at'[s] = at[s]
    BY KnownType DEF Step
<1>2. MaxRequests \in Nat /\ IsFiniteSet(Req)
    BY FS_Interval DEF Req
<1>3. leftN \subseteq left /\ (~Carried(r) /\ Carried(r)' => leftN \subseteq left \ {r} /\ r \in left)
    BY <1>1 DEF Carried
<1>4. timedN \subseteq timed \ {r} /\ (at[r] = "generate" => r \in timed)
    BY <1>1
<1>5. /\ left \subseteq Req /\ timed \subseteq Req /\ leftN \subseteq Req /\ timedN \subseteq Req
    OBVIOUS
<1>6. /\ IsFiniteSet(left) /\ IsFiniteSet(timed)
      /\ IsFiniteSet(leftN) /\ IsFiniteSet(timedN)
    BY <1>2, <1>5, FS_Subset
<1>7. /\ Len(deluxe_table) + Cardinality(left) <= MaxRequests /\ now + Cardinality(timed) <= MaxRequests
    BY DEF CountInv
<1>8. Len(deluxe_table) \in Nat /\ now \in Nat
    BY TableType DEF TypeOK
<1> HIDE DEF left, leftN, timed, timedN
<1>9. /\ Cardinality(left) \in Nat /\ Cardinality(timed) \in Nat
      /\ Cardinality(leftN) \in Nat /\ Cardinality(timedN) \in Nat
    BY <1>6, FS_CardinalityType
<1>10. Cardinality(leftN) <= Cardinality(left) /\ Cardinality(timedN) <= Cardinality(timed)
  <2>1. timedN \subseteq timed
    BY <1>4
  <2> QED
    BY <1>3, <1>6, <2>1, FS_Subset
<1>11. ASSUME NEW S, NEW T, IsFiniteSet(S), T \subseteq S \ {r}, r \in S
       PROVE  Cardinality(T) <= Cardinality(S) - 1
  <2>1. IsFiniteSet(S \ {r}) /\ Cardinality(S \ {r}) = Cardinality(S) - 1
    BY <1>11, FS_RemoveElement
  <2> QED
    BY <1>11, <2>1, FS_Subset
<1>12. Len(deluxe_table') + Cardinality(leftN) <= MaxRequests
  <2>1. CASE Len(deluxe_table') = Len(deluxe_table)
    BY <1>2, <1>7, <1>8, <1>9, <1>10, <2>1
  <2>2. CASE Len(deluxe_table') = Len(deluxe_table) + 1 /\ ~Carried(r) /\ Carried(r)'
    <3>1. Cardinality(leftN) <= Cardinality(left) - 1
        BY <1>3, <1>6, <1>11, <2>2
    <3> QED
        BY <1>2, <1>7, <1>8, <1>9, <2>2, <3>1
  <2> QED
    BY <2>1, <2>2
<1>13. now' + Cardinality(timedN) <= MaxRequests
  <2>1. CASE now' = now
    BY <1>2, <1>7, <1>8, <1>9, <1>10, <2>1
  <2>2. CASE now' = now + 1 /\ at[r] = "generate"
    <3>1. Cardinality(timedN) <= Cardinality(timed) - 1
        BY <1>4, <1>6, <1>11, <2>2
    <3> QED
        BY <1>2, <1>7, <1>8, <1>9, <2>2, <3>1
  <2> QED
    BY <2>1, <2>2
<1> QED
    BY <1>12, <1>13 DEF CountInv, leftN, timedN

LEMMA ToggleKept ==
    ASSUME TypeOK, ToggleInv, NEW r \in Known, Step(r), UNCHANGED deluxe_table,
           Operation(r) = "add_to_favorites" /\ at'[r] \in Busy => at[r] \in Busy,
           at'[r] = "update" =>
               /\ found'[r] \in RowsOf(ItemOf(r)) /\ \A m \in RowsOf(ItemOf(r)) : found'[r] <= m
               /\ copy'[r] = ~deluxe_table[found'[r]].is_favorite,
           at'[r] = "insert" => RowsOf(ItemOf(r)) = {} \/ r \in raced'
    PROVE  ToggleInv'
<1>1. /\ requests' = requests /\ Known' = Known /\ Known \subseteq Req
      /\ \A s \in Known : Operation(s)' = Operation(s) /\ ItemOf(s)' = ItemOf(s)
      /\ \A i : RowsOf(i)' = RowsOf(i)
    BY KnownType DEF Step, Known, Operation, ItemOf, RowsOf
<1>2. \A s \in Known \ {r} : at'[s] = at[s] /\ found'[s] = found[s] /\ copy'[s] = copy[s]
    BY <1>1 DEF Step
<1>3. raced \subseteq raced'
    BY DEF Step
<1>4. \A s, t \in Known :
          /\ Operation(s) = "add_to_favorites" /\ Operation(t) = "add_to_favorites"
          /\ at'[s] \in Busy /\ at'[t] \in Busy /\ ItemOf(s) = ItemOf(t) /\ s # t
          => s \in raced'
  <2>1. \A s \in Known : Operation(s) = "add_to_favorites" /\ at'[s] \in Busy => at[s] \in Busy
    BY <1>2
  <2> QED
    BY <1>3, <2>1 DEF ToggleInv
<1>5. ASSUME NEW s \in Known, at'[s] = "update"
      PROVE  /\ found'[s] \in RowsOf(ItemOf(s)) /\ \A m \in RowsOf(ItemOf(s)) : found'[s] <= m
             /\ s \notin raced' => copy'[s] = ~deluxe_table[found'[s]].is_favorite
  <2>1. CASE s # r
    <3>1. at[s] = "update" /\ found'[s] = found[s] /\ copy'[s] = copy[s]
        BY <1>2, <1>5, <2>1
    <3> QED
        BY <1>3, <3>1 DEF ToggleInv
  <2>2. CASE s = r
    BY <1>5, <2>2
  <2> QED
    BY <2>1, <2>2
<1>6. ASSUME NEW s \in Known, at'[s] = "insert", s \notin raced' PROVE RowsOf(ItemOf(s)) = {}
  <2>1. CASE s # r
    BY <1>2, <1>3, <1>6, <2>1 DEF ToggleInv
  <2>2. CASE s = r
    BY <1>6, <2>2
  <2> QED
    BY <2>1, <2>2
<1> QED
    BY <1>1, <1>4, <1>5, <1>6 DEF ToggleInv

\* What is over, or only waits for its callback, is settled.
Settled(r) ==
    /\ at[r] = "answered" => /\ at'[r] \in Over \ {"unanswered"} /\ reply'[r] = reply[r] /\ found'[r] = found[r]
                             /\ key_token'[r] = key_token[r]
                             /\ r \in failed' \ failed => at'[r] = "lost"
    /\ at[r] # "generate" => key_token'[r] = key_token[r]

\* No answer of r is about a link, but one that is not given or refused.
Aside(r) ==
    /\ at[r] # "answered" /\ IsGenerate(r) /\ reply'[r] = "200" => ~Carried(r)' \/ r \in failed'
    /\ at[r] # "answered" /\ IsRemove(r) /\ reply'[r] = "200" => r \in failed'
    /\ at[r] # "answered" /\ r \in Downloads => reply'[r] # "200"
    /\ at'[r] = "unanswered" =>
          \/ Operation(r) = "move_file"
          \/ Operation(r) = "move_to_trash" /\ ItemOf(r) # NoItem
          \/ Operation(r) = "add_to_favorites" /\ r \in failed'
          \/ r \in Downloads /\ r \in failed'

LEMMA SettledFacts ==
    ASSUME TypeOK, NEW r \in Known, Step(r), Settled(r)
    PROVE  /\ Known' = Known /\ Downloads' = Downloads /\ Known \subseteq Req
           /\ \A s : /\ Operation(s)' = Operation(s) /\ ItemOf(s)' = ItemOf(s) /\ LinkOf(s)' = LinkOf(s)
                     /\ IsGenerate(s)' = IsGenerate(s) /\ IsRemove(s)' = IsRemove(s)
           /\ before' = before
           /\ \A s \in Known : Carried(s) =>
                 /\ Carried(s)' /\ reply'[s] = reply[s] /\ found'[s] = found[s]
                 /\ key_token'[s] = key_token[s]
           /\ \A s \in Known : at[s] \in Over => s # r /\ at'[s] = at[s] /\ (s \in failed' <=> s \in failed)
           /\ \A s \in Known \ {r} : reply'[s] = reply[s] /\ (Carried(s)' <=> Carried(s))
<1>1. requests' = requests /\ before' = before
    BY DEF Step
<1>2. Known' = Known /\ Known \subseteq Req
    BY <1>1, KnownType DEF Known
<1>3. \A s : /\ Operation(s)' = Operation(s) /\ ItemOf(s)' = ItemOf(s) /\ LinkOf(s)' = LinkOf(s)
             /\ IsGenerate(s)' = IsGenerate(s) /\ IsRemove(s)' = IsRemove(s)
    BY <1>1, <1>2 DEF Operation, ItemOf, LinkOf, IsGenerate, IsRemove
<1>4. Downloads' = Downloads
    BY <1>2, <1>3 DEF Downloads
<1>5. \A s \in Known \ {r} : /\ at'[s] = at[s] /\ reply'[s] = reply[s] /\ found'[s] = found[s]
                             /\ key_token'[s] = key_token[s] /\ (s \in failed' <=> s \in failed)
    BY <1>2 DEF Step
<1>6. at[r] \notin Over
    BY DEF Step
<1>7. Carried(r) => at[r] = "answered"
    BY <1>6 DEF Carried
<1>8. Carried(r) => /\ Carried(r)' /\ reply'[r] = reply[r] /\ found'[r] = found[r]
                    /\ key_token'[r] = key_token[r]
    BY <1>7 DEF Settled, Carried
<1> QED
    BY <1>1, <1>2, <1>3, <1>4, <1>5, <1>6, <1>8 DEF Carried

\* A removal that is carried out stays the cause it is.
LEMMA RemovesKept ==
    ASSUME TypeOK, NEW r \in Known, Step(r), Settled(r), NEW g \in Known, NEW m \in Known, Removes(m, g)
    PROVE  Removes(m, g)'
<1>1. /\ IsRemove(m)' /\ Carried(m)' /\ ItemOf(m)' = ItemOf(g)' /\ m \notin before'[g]
    BY SettledFacts DEF Removes
<1>2. m \notin failed' \/ at'[m] = "lost"
  <2>1. CASE at[m] \in Over
    BY <2>1, SettledFacts DEF Removes, Over
  <2>2. CASE at[m] \notin Over
    <3>1. at[m] = "answered" /\ m \notin failed
        BY <2>2 DEF Removes, Carried, Over
    <3>2. CASE m = r
        BY <3>1, <3>2 DEF Settled
    <3>3. CASE m # r
        BY <3>1, <3>3 DEF Step
    <3> QED
        BY <3>2, <3>3
  <2> QED
    BY <2>1, <2>2
<1> QED
    BY <1>1, <1>2 DEF Removes

LEMMA BeforeOver ==
    ASSUME TypeOK, RequestInv, NEW d \in Known, NEW m \in before[d]
    PROVE  m \in Known /\ at[m] \in Over /\ Carried(m)
BY DEF RequestInv, RequestOK, Carried

\* No new answer of r says that a link was made, or removed.
TableAside(r) ==
    /\ at[r] # "answered" /\ IsGenerate(r) /\ reply'[r] = "200" => ~Carried(r)' \/ r \in failed'
    /\ at[r] # "answered" /\ IsRemove(r) /\ reply'[r] = "200" => r \in failed'

LEMMA TableKept ==
    ASSUME TypeOK, RequestInv, LinksInv, NEW r \in Known, Step(r), Settled(r), TableAside(r),
           UNCHANGED hc_shared_links
    PROVE  LinkInv' /\ RemovedInv' /\ StoredInv'
<1>1. /\ Known' = Known /\ Downloads' = Downloads /\ Known \subseteq Req
      /\ \A s : /\ Operation(s)' = Operation(s) /\ ItemOf(s)' = ItemOf(s) /\ LinkOf(s)' = LinkOf(s)
                /\ IsGenerate(s)' = IsGenerate(s) /\ IsRemove(s)' = IsRemove(s)
      /\ before' = before
    BY SettledFacts
<1>2. \A s \in Known : Carried(s) => /\ Carried(s)' /\ reply'[s] = reply[s] /\ found'[s] = found[s]
                                     /\ key_token'[s] = key_token[s]
    BY SettledFacts
<1>3. \A s \in Known : at[s] \in Over => s # r /\ at'[s] = at[s] /\ (s \in failed' <=> s \in failed)
    BY SettledFacts
<1>4. \A s \in Known \ {r} : reply'[s] = reply[s] /\ (Carried(s)' <=> Carried(s))
    BY SettledFacts
<1>5. \A s \in Known \ {r} : found'[s] = found[s] /\ at'[s] = at[s]
    BY <1>1 DEF Step
<1>6. at[r] # "answered" => ~Carried(r)
    BY DEF Carried, Step
<1>7. failed \subseteq failed'
    BY DEF Step
<1>8. LinkInv'
  <2> SUFFICES ASSUME NEW n \in DOMAIN hc_shared_links
               PROVE  LET row == hc_shared_links[n]
                      IN  /\ IsGenerate(row.by) /\ Carried(row.by)'
                          /\ row.item = ItemOf(row.by) /\ row.key_token = key_token'[row.by]
    BY <1>1 DEF LinkInv
  <2>1. PICK row : row = hc_shared_links[n]
    OBVIOUS
  <2>2. /\ IsGenerate(row.by) /\ Carried(row.by)
        /\ row.item = ItemOf(row.by) /\ row.key_token = key_token[row.by]
    BY <2>1 DEF LinksInv, LinkInv
  <2>3. row.by \in Known
    BY <2>2 DEF IsGenerate
  <2> QED
    BY <1>2, <2>1, <2>2, <2>3
<1>9. RemovedInv'
  <2> SUFFICES ASSUME NEW m \in Known, IsRemove(m), reply'[m] = "200", m \notin failed',
                      NEW n \in DOMAIN hc_shared_links, hc_shared_links[n].item = ItemOf(m)
               PROVE  hc_shared_links[n].by \notin before[m]
    BY <1>1 DEF RemovedInv
  <2>1. m \notin failed
    BY <1>7
  <2>2. reply[m] = "200"
  <3>1. CASE m # r
        BY <1>4, <3>1
  <3>2. CASE m = r
        BY <1>2, <3>2 DEF TableAside, Carried
  <3> QED
        BY <3>1, <3>2
  <2> QED
    BY <2>1, <2>2 DEF LinksInv, RemovedInv
<1>10. StoredInv'
  <2> SUFFICES ASSUME NEW g \in Known, IsGenerate(g), Carried(g)', reply'[g] = "200", g \notin failed'
               PROVE  \/ \E n \in DOMAIN hc_shared_links : hc_shared_links[n].by = g
                      \/ \E m \in Known : Removes(m, g)'
    BY <1>1 DEF StoredInv
  <2>1. g \notin failed
    BY <1>7
  <2>2. Carried(g) /\ reply[g] = "200"
    <3>1. CASE g # r
        BY <1>4, <3>1
    <3>2. CASE g = r
        BY <1>2, <3>2 DEF TableAside, Carried
    <3> QED
        BY <3>1, <3>2
  <2>3. \/ \E n \in DOMAIN hc_shared_links : hc_shared_links[n].by = g
        \/ \E m \in Known : Removes(m, g)
    BY <2>1, <2>2 DEF LinksInv, StoredInv
  <2> QED
    BY <2>3, RemovesKept
<1> QED
    BY <1>8, <1>9, <1>10

\* A link that r opens is one it may open, and it gives up with a cause.
DownloadOK(r) ==
    /\ at[r] # "answered" /\ r \in Downloads /\ reply'[r] = "200" =>
          /\ IsGenerate(found'[r]) /\ Carried(found'[r])
          /\ key_token[found'[r]] = key_token[LinkOf(r)]
          /\ \A m \in before[r] :
                /\ Operation(m) = "remove_share_link" /\ reply[m] = "200"
                /\ found'[r] \in before[m]
                /\ FileOf(ItemOf(m)) = FileOf(ItemOf(found'[r]))
                => m \in failed \/ ItemOf(m) # ItemOf(found'[r])
    /\ at'[r] = "unanswered" =>
          \/ Operation(r) = "move_file"
          \/ Operation(r) = "move_to_trash" /\ ItemOf(r) # NoItem
          \/ Operation(r) = "add_to_favorites" /\ r \in failed'
          \/ /\ r \in Downloads
             /\ \/ r \in failed' \/ LinkOf(r) \in failed
                \/ \E m \in Known : Removes(m, LinkOf(r))

LEMMA DownloadsKept ==
    ASSUME TypeOK, RequestInv, LinksInv, NEW r \in Known, Step(r), Settled(r), DownloadOK(r)
    PROVE  DownloadInv' /\ RemovedLinkIsDead' /\ UnansweredHasCause'
<1>1. /\ Known' = Known /\ Downloads' = Downloads /\ Known \subseteq Req
      /\ \A s : /\ Operation(s)' = Operation(s) /\ ItemOf(s)' = ItemOf(s) /\ LinkOf(s)' = LinkOf(s)
                /\ IsGenerate(s)' = IsGenerate(s) /\ IsRemove(s)' = IsRemove(s)
      /\ before' = before
    BY SettledFacts
<1>2. \A s \in Known : Carried(s) => /\ Carried(s)' /\ reply'[s] = reply[s] /\ found'[s] = found[s]
                                     /\ key_token'[s] = key_token[s]
    BY SettledFacts
<1>3. \A s \in Known : at[s] \in Over => s # r /\ at'[s] = at[s] /\ (s \in failed' <=> s \in failed)
    BY SettledFacts
<1>4. \A s \in Known \ {r} : reply'[s] = reply[s] /\ (Carried(s)' <=> Carried(s))
    BY SettledFacts
<1>5. \A s \in Known \ {r} : found'[s] = found[s] /\ at'[s] = at[s]
    BY <1>1 DEF Step
<1>6. at[r] # "answered" => ~Carried(r)
    BY DEF Carried, Step
<1>7. failed \subseteq failed'
    BY DEF Step
<1>8. ASSUME NEW d \in Downloads, reply'[d] = "200"
      PROVE  /\ IsGenerate(found'[d]) /\ Carried(found'[d])
             /\ key_token[found'[d]] = key_token[LinkOf(d)]
             /\ \A m \in before[d] :
                   /\ Operation(m) = "remove_share_link" /\ reply[m] = "200"
                   /\ found'[d] \in before[m]
                   /\ FileOf(ItemOf(m)) = FileOf(ItemOf(found'[d]))
                   => m \in failed \/ ItemOf(m) # ItemOf(found'[d])
  <2>1. d \in Known
    BY DEF Downloads
  <2>2. CASE d = r /\ at[r] # "answered"
    BY <1>8, <2>2 DEF DownloadOK
  <2>3. CASE d # r \/ at[r] = "answered"
    <3>1. reply[d] = "200" /\ found'[d] = found[d]
      <4>1. CASE d # r
        BY <1>4, <1>5, <1>8, <2>1, <4>1
      <4>2. CASE d = r /\ at[r] = "answered"
        BY <1>8, <4>2 DEF Settled
      <4> QED
        BY <2>3, <4>1, <4>2
    <3> QED
        BY <3>1 DEF LinksInv, DownloadInv, RemovedLinkIsDead
  <2> QED
    BY <2>2, <2>3
<1>9. DownloadInv'
  <2> SUFFICES ASSUME NEW d \in Downloads
               PROVE  /\ IsGenerate(LinkOf(d)) /\ at'[LinkOf(d)] = "received" /\ reply'[LinkOf(d)] = "200"
                      /\ reply'[d] = "200" =>
                            IsGenerate(found'[d]) /\ at'[found'[d]] \in Over \cup {"answered"}
    <3>1. requests' = requests
        BY DEF Step
    <3> QED
        BY <1>1, <3>1 DEF DownloadInv, IsGenerate, Carried, LinkOf, Operation
  <2>1. IsGenerate(LinkOf(d)) /\ at[LinkOf(d)] = "received" /\ reply[LinkOf(d)] = "200"
    BY DEF LinksInv, DownloadInv
  <2>2. LinkOf(d) \in Known /\ at[LinkOf(d)] \in Over /\ Carried(LinkOf(d))
    BY <2>1 DEF IsGenerate, Over, Carried
  <2>3. at'[LinkOf(d)] = "received" /\ reply'[LinkOf(d)] = "200"
    BY <1>2, <1>3, <2>1, <2>2
  <2>4. ASSUME reply'[d] = "200"
        PROVE  IsGenerate(found'[d]) /\ at'[found'[d]] \in Over \cup {"answered"}
    <3>1. IsGenerate(found'[d]) /\ Carried(found'[d])
        BY <1>8, <2>4
    <3>2. \A s \in Known : Carried(s) => at'[s] \in Over \cup {"answered"}
        BY <1>2 DEF Carried
    <3> QED
        BY <3>1, <3>2 DEF IsGenerate
  <2> QED
    BY <2>1, <2>3, <2>4
<1>10. RemovedLinkIsDead'
  <2> SUFFICES ASSUME NEW d \in Downloads, reply'[d] = "200"
               PROVE  /\ key_token'[found'[d]] = key_token'[LinkOf(d)]
                      /\ \A m \in before[d] :
                            /\ Operation(m) = "remove_share_link" /\ reply'[m] = "200"
                            /\ found'[d] \in before[m]
                            /\ FileOf(ItemOf(m)) = FileOf(ItemOf(found'[d]))
                            => m \in failed' \/ ItemOf(m) # ItemOf(found'[d])
    <3>1. \A s : ItemOf(s)' = requests'[s].item /\ ItemOf(s) = requests[s].item
        BY DEF ItemOf
    <3>2. requests' = requests
        BY DEF Step
    <3> QED
        BY <1>1, <3>1, <3>2 DEF RemovedLinkIsDead, FileOf, ItemOf, LinkOf, Operation
  <2>1. PICK g : g = found'[d]
    OBVIOUS
  <2>2. d \in Known /\ IsGenerate(LinkOf(d)) /\ at[LinkOf(d)] = "received"
    BY DEF LinksInv, DownloadInv, Downloads
  <2>3. /\ IsGenerate(g) /\ Carried(g) /\ key_token[g] = key_token[LinkOf(d)]
        /\ \A m \in before[d] :
              /\ Operation(m) = "remove_share_link" /\ reply[m] = "200"
              /\ g \in before[m] /\ FileOf(ItemOf(m)) = FileOf(ItemOf(g))
              => m \in failed \/ ItemOf(m) # ItemOf(g)
    BY <1>8, <2>1
  <2>4. key_token'[g] = key_token[g] /\ key_token'[LinkOf(d)] = key_token[LinkOf(d)]
    BY <1>2, <2>2, <2>3 DEF IsGenerate, Carried, Over
  <2>5. \A m \in before[d] : reply'[m] = reply[m]
    BY <1>2, <2>2, BeforeOver
  <2> QED
    BY <1>7, <2>1, <2>3, <2>4, <2>5
<1>11. UnansweredHasCause'
  <2> SUFFICES ASSUME NEW q \in Known, at'[q] = "unanswered",
                      ~(Operation(q) = "move_file"),
                      ~(Operation(q) = "move_to_trash" /\ ItemOf(q) # NoItem),
                      ~(Operation(q) = "add_to_favorites" /\ q \in failed')
               PROVE  /\ q \in Downloads
                      /\ \/ q \in failed' \/ LinkOf(q) \in failed'
                         \/ \E m \in Known : Removes(m, LinkOf(q))'
    BY <1>1 DEF UnansweredHasCause, Removes, IsRemove
  <2>1. CASE q = r
    <3>1. /\ q \in Downloads
          /\ \/ q \in failed' \/ LinkOf(q) \in failed
             \/ \E m \in Known : Removes(m, LinkOf(q))
        BY <2>1 DEF DownloadOK
    <3>2. LinkOf(q) \in Known
        BY <3>1 DEF LinksInv, DownloadInv, IsGenerate
    <3>3. \A m \in Known : Removes(m, LinkOf(q)) => Removes(m, LinkOf(q))'
      <4>1. LinkOf(q)' = LinkOf(q)
        BY <1>1
      <4> QED
        BY <3>2, <4>1, RemovesKept DEF Removes, LinkOf
    <3> QED
        BY <1>7, <3>1, <3>3
  <2>2. CASE q # r
    <3>1. at[q] = "unanswered"
        BY <1>5, <2>2
    <3>2. /\ q \in Downloads
          /\ \/ q \in failed \/ LinkOf(q) \in failed
             \/ \E m \in Known : Removes(m, LinkOf(q))
        BY <1>7, <3>1 DEF LinksInv, UnansweredHasCause, Removes, IsRemove
    <3>3. LinkOf(q) \in Known
        BY <3>2 DEF LinksInv, DownloadInv, IsGenerate
    <3>4. \A m \in Known : Removes(m, LinkOf(q)) => Removes(m, LinkOf(q))'
      <4>1. LinkOf(q)' = LinkOf(q)
        BY <1>1
      <4> QED
        BY <3>3, <4>1, RemovesKept DEF Removes, LinkOf
    <3> QED
        BY <1>7, <3>2, <3>4
  <2> QED
    BY <2>1, <2>2
<1> QED
    BY <1>9, <1>10, <1>11

LEMMA LinksKept ==
    ASSUME TypeOK, RequestInv, LinksInv, NEW r \in Known, Step(r), Settled(r), Aside(r),
           UNCHANGED hc_shared_links
    PROVE  LinksInv'
<1>1. TableAside(r) /\ DownloadOK(r)
    BY DEF Aside, TableAside, DownloadOK
<1> QED
    BY <1>1, TableKept, DownloadsKept DEF LinksInv

-----------------------------------------------------------------------------
(***************************************************************************)
(* Handlers.                                                               *)
(***************************************************************************)

\* What is not where the request is, or its answer.
Frame(r) ==
    /\ UNCHANGED <<requests, before>>
    /\ \A s \in Req \ {r} : /\ found'[s] = found[s] /\ copy'[s] = copy[s]
                            /\ key_token'[s] = key_token[s] /\ data'[s] = data[s]
    /\ failed \subseteq failed' /\ failed' \subseteq failed \cup {r}
    /\ raced \subseteq raced' /\ raced' \subseteq raced \cup {r}

LEMMA AnswerParts ==
    ASSUME IInv, NEW r \in Known, at[r] \in Busy, NEW status \in Status \ {"none"}, Answer(r, status),
           Frame(r), UNCHANGED key_token
    PROVE  /\ Step(r) /\ RequestInv' /\ Settled(r) /\ ~Carried(r)
           /\ at' \in [Req -> Place] /\ reply' \in [Req -> Status] /\ reply'[r] = status
           /\ at'[r] \in {"received", "badgesAnswered", "answered"}
           /\ at'[r] = "badgesAnswered" => at[r] = "badges"
           /\ at[r] # "badges" => Carried(r)'
<1>1. TypeOK /\ RequestInv /\ r \in Req
    BY KnownType DEF IInv
<1>2. /\ at' \in [Req -> Place] /\ reply' \in [Req -> Status]
      /\ \A s \in Req \ {r} : at'[s] = at[s] /\ reply'[s] = reply[s]
      /\ reply'[r] = status
      /\ at'[r] = IF requests[r].page = NoPage THEN "received"
                  ELSE IF at[r] = "badges" THEN "badgesAnswered" ELSE "answered"
    BY <1>1, AnswerStep
<1>3. at[r] \notin Over /\ at[r] \notin Over \cup {"answered"}
    BY DEF Busy, Over, Checked
<1>4. Step(r)
    BY <1>2, <1>3 DEF Step, Frame
<1>5. /\ at'[r] \in {"received", "badgesAnswered", "answered"}
      /\ at'[r] = "badgesAnswered" => at[r] = "badges"
      /\ at'[r] \in {"badgesAnswered", "answered"} => requests[r].page \in Page
      /\ at[r] # "badges" => at'[r] \in Over \cup {"answered"}
  <2>1. requests[r].page \in Page \cup {NoPage}
    BY <1>1, KnownType
  <2> QED
    BY <1>2, <2>1 DEF Over
<1>6. PlaceOK(r)'
  <2>1. Operation(r)' = Operation(r)
    BY <1>4 DEF Step, Operation
  <2>2. at[r] = "badges" => Operation(r) = "load"
    BY <1>1 DEF RequestInv, RequestOK, PlaceOK
  <2> QED
    BY <1>5, <2>1, <2>2 DEF PlaceOK
<1>7. RequestInv'
  <2>1. at'[r] \notin Busy
    BY <1>5 DEF Busy, Checked
  <2> QED
    BY <1>1, <1>4, <1>5, <1>6, <2>1, RequestKept
<1>8. Settled(r)
    BY <1>3 DEF Settled
<1> QED
    BY <1>2, <1>3, <1>4, <1>5, <1>7, <1>8 DEF Carried

LEMMA GoToParts ==
    ASSUME IInv, NEW r \in Known, at[r] \in Busy,
           NEW where \in Place \ {"unsent", "delete", "badgesAnswered", "answered"}, GoTo(r, where),
           Frame(r), PlaceOK(r)', at[r] # "generate" => UNCHANGED key_token
    PROVE  /\ Step(r) /\ RequestInv' /\ Settled(r) /\ ~Carried(r)
           /\ at' \in [Req -> Place] /\ reply' \in [Req -> Status] /\ reply'[r] = "none"
           /\ at'[r] = where
<1>1. TypeOK /\ RequestInv /\ r \in Req
    BY KnownType DEF IInv
<1>2. /\ at' \in [Req -> Place] /\ reply' = reply /\ reply' \in [Req -> Status]
      /\ \A s \in Req \ {r} : at'[s] = at[s] /\ reply'[s] = reply[s]
      /\ at'[r] = where
    BY <1>1, GoToStep
<1>3. at[r] \notin Over /\ at[r] \notin Over \cup {"answered"}
    BY DEF Busy, Over, Checked
<1>4. Step(r)
    BY <1>2, <1>3 DEF Step, Frame
<1>5. reply'[r] = "none"
    BY <1>1, <1>2 DEF RequestInv, RequestOK
<1>6. RequestInv'
    BY <1>1, <1>2, <1>4, <1>5, RequestKept
<1>7. Settled(r)
    BY <1>3 DEF Settled
<1> QED
    BY <1>2, <1>3, <1>4, <1>5, <1>6, <1>7 DEF Carried

\* Types, with what a handler leaves to the step before.
LEMMA TypeKept ==
    ASSUME TypeOK, NEW r \in Known, Step(r), UNCHANGED page,
           at' \in [Req -> Place], reply' \in [Req -> Status],
           found' \in [Req -> 0..MaxRequests], copy' \in [Req -> BOOLEAN],
           key_token' \in [Req -> 0..MaxRequests], now' \in 0..MaxRequests,
           data' \in [Req -> Seq(BadgeRow) \cup Seq(LinkRow)],
           deluxe_table' \in Seq(BadgeRow), hc_shared_links' \in Seq(LinkRow)
    PROVE  TypeOK'
<1>1. /\ requests' = requests /\ before' = before /\ Known \subseteq Req
      /\ failed' \subseteq failed \cup {r} /\ raced' \subseteq raced \cup {r}
    BY KnownType DEF Step
<1> QED
    BY <1>1 DEF TypeOK, Place, Status, page

\* Handlers that only answer, or give up.
LEMMA QuietInv ==
    ASSUME IInv, NEW r \in Known, Step(r), Settled(r), Aside(r), RequestInv', ~Carried(r),
           UNCHANGED <<read, tables, page>>,
           at' \in [Req -> Place], reply' \in [Req -> Status],
           data' \in [Req -> Seq(BadgeRow) \cup Seq(LinkRow)],
           at'[r] \notin Busy \cup {"unsent"},
           reply'[r] = "200" /\ at'[r] = "badgesAnswered" => data'[r] \in Seq(BadgeRow),
           reply'[r] = "200" /\ at'[r] = "answered" /\ Operation(r) = "load" =>
               data'[r] \in Seq(LinkRow)
    PROVE  IInv'
<1>1. /\ UNCHANGED <<found, copy, key_token, now, deluxe_table, hc_shared_links>>
    BY DEF read, tables
<1>2. TypeOK'
    BY <1>1, TypeKept DEF IInv, TypeOK
<1>3. DataInv'
    BY DataKept DEF IInv
<1>4. CountInv'
  <2>1. at'[r] \notin {"unsent", "generate"} /\ Len(deluxe_table') = Len(deluxe_table) /\ now' = now
    BY <1>1 DEF Busy, Checked
  <2> QED
    BY <2>1, CountKept DEF IInv
<1>5. ToggleInv'
  <2>1. at'[r] \notin Busy /\ at'[r] \notin {"update", "insert"}
    BY DEF Busy, Checked
  <2> QED
    BY <1>1, <2>1, ToggleKept DEF IInv
<1>6. LinksInv'
    BY <1>1, LinksKept DEF IInv
<1> QED
    BY <1>2, <1>3, <1>4, <1>5, <1>6 DEF IInv

LEMMA RefuseInv ==
    ASSUME IInv, NEW r \in Known, Refuse(r), UNCHANGED page
    PROVE  IInv'
<1>1. /\ at[r] \in Busy /\ Answer(r, "redirect") /\ failed' = failed \cup {r}
      /\ UNCHANGED <<requests, before, read, data, tables, raced>>
    BY DEF Refuse, Fails, sent, Busy
<1>2. Frame(r) /\ UNCHANGED key_token
    BY <1>1 DEF Frame, read
<1>3. "redirect" \in Status \ {"none"}
    BY DEF Status
<1>4. /\ Step(r) /\ RequestInv' /\ Settled(r) /\ ~Carried(r)
      /\ at' \in [Req -> Place] /\ reply' \in [Req -> Status] /\ reply'[r] = "redirect"
      /\ at'[r] \in {"received", "badgesAnswered", "answered"}
    BY <1>1, <1>2, <1>3, AnswerParts
<1>5. Aside(r)
    BY <1>4 DEF Aside
<1>6. at'[r] \notin Busy \cup {"unsent"} /\ data' \in [Req -> Seq(BadgeRow) \cup Seq(LinkRow)]
    BY <1>1, <1>4 DEF Busy, Checked, IInv, TypeOK
<1> QED
    BY <1>1, <1>4, <1>5, <1>6, QuietInv

LEMMA TrashInv ==
    ASSUME IInv, NEW r \in Known, Trash(r), UNCHANGED page
    PROVE  IInv'
<1>1. /\ at[r] = "trash" /\ at[r] \in Busy
      /\ \/ Answer(r, "500")
         \/ ItemOf(r) # NoItem /\ GoTo(r, "unanswered")
      /\ UNCHANGED <<requests, before, read, data, tables, failed, raced>>
    BY DEF Trash, sent, Busy, Checked
<1>2. Frame(r) /\ UNCHANGED key_token
    BY <1>1 DEF Frame, read
<1>3. Operation(r) = "move_to_trash" /\ Operation(r)' = Operation(r)
    BY <1>1 DEF IInv, RequestInv, RequestOK, PlaceOK, Operation
<1>4. data' \in [Req -> Seq(BadgeRow) \cup Seq(LinkRow)]
    BY <1>1 DEF IInv, TypeOK
<1>5. CASE Answer(r, "500")
  <2>1. "500" \in Status \ {"none"}
    BY DEF Status
  <2>2. /\ Step(r) /\ RequestInv' /\ Settled(r) /\ ~Carried(r)
        /\ at' \in [Req -> Place] /\ reply' \in [Req -> Status] /\ reply'[r] = "500"
        /\ at'[r] \in {"received", "badgesAnswered", "answered"}
    BY <1>1, <1>2, <1>5, <2>1, AnswerParts
  <2>3. Aside(r) /\ at'[r] \notin Busy \cup {"unsent"}
    BY <2>2 DEF Aside, Busy, Checked
  <2> QED
    BY <1>1, <1>4, <2>2, <2>3, QuietInv
<1>6. CASE ItemOf(r) # NoItem /\ GoTo(r, "unanswered")
  <2>1. "unanswered" \in Place \ {"unsent", "delete", "badgesAnswered", "answered"}
    BY DEF Place, Over
  <2>2. at'[r] = "unanswered"
    BY <1>6, <2>1, GoToStep, KnownType DEF IInv
  <2>3. PlaceOK(r)'
    BY <2>2 DEF PlaceOK
  <2>4. /\ Step(r) /\ RequestInv' /\ Settled(r) /\ ~Carried(r)
        /\ at' \in [Req -> Place] /\ reply' \in [Req -> Status] /\ reply'[r] = "none"
    BY <1>1, <1>2, <1>6, <2>1, <2>3, GoToParts
  <2>5. Aside(r) /\ at'[r] \notin Busy \cup {"unsent"}
    BY <1>3, <1>6, <2>2, <2>4 DEF Aside, Busy, Checked
  <2> QED
    BY <1>1, <1>4, <2>4, <2>5, QuietInv
<1> QED
    BY <1>1, <1>5, <1>6

LEMMA IgnoreInv ==
    ASSUME IInv, NEW r \in Known, Ignore(r), UNCHANGED page
    PROVE  IInv'
<1>1. /\ at[r] = "ignore" /\ at[r] \in Busy /\ GoTo(r, "unanswered")
      /\ UNCHANGED <<requests, before, read, data, tables, failed, raced>>
    BY DEF Ignore, sent, Busy, Checked
<1>2. Frame(r) /\ UNCHANGED key_token
    BY <1>1 DEF Frame, read
<1>3. Operation(r) = "move_file"
    BY <1>1 DEF IInv, RequestInv, RequestOK, PlaceOK
<1>4. "unanswered" \in Place \ {"unsent", "delete", "badgesAnswered", "answered"}
    BY DEF Place, Over
<1>5. at'[r] = "unanswered"
    BY <1>1, <1>4, GoToStep, KnownType DEF IInv
<1>6. PlaceOK(r)'
    BY <1>5 DEF PlaceOK
<1>7. /\ Step(r) /\ RequestInv' /\ Settled(r) /\ ~Carried(r)
      /\ at' \in [Req -> Place] /\ reply' \in [Req -> Status] /\ reply'[r] = "none"
    BY <1>1, <1>2, <1>4, <1>6, GoToParts
<1>8. Aside(r) /\ at'[r] \notin Busy \cup {"unsent"}
    BY <1>3, <1>5, <1>7 DEF Aside, Busy, Checked
<1>9. data' \in [Req -> Seq(BadgeRow) \cup Seq(LinkRow)]
    BY <1>1 DEF IInv, TypeOK
<1> QED
    BY <1>1, <1>7, <1>8, <1>9, QuietInv

\* Both listings: a page's request, whose data are rows of the table that is due.
LEMMA ListInv ==
    ASSUME IInv, NEW r \in Known, NEW table, UNCHANGED page,
           \/ List(r, "badges", table) /\ table \in Seq(BadgeRow)
           \/ List(r, "links", table) /\ table \in Seq(LinkRow)
    PROVE  IInv'
<1>1. PICK status \in {"200", "500"} :
          /\ at[r] \in {"badges", "links"} /\ Answer(r, status)
          /\ table \in Seq(BadgeRow) \cup Seq(LinkRow)
          /\ at[r] = "badges" => table \in Seq(BadgeRow)
          /\ at[r] = "links" => table \in Seq(LinkRow)
          /\ \/ status = "200" /\ data' = [data EXCEPT ![r] = table]
             \/ status = "500" /\ data' = data
          /\ failed \subseteq failed' /\ failed' \subseteq failed \cup {r}
          /\ UNCHANGED <<requests, before, read, tables, raced>>
    BY DEF List, Fails, Succeeds, sent
<1>2. at[r] \in Busy /\ status \in Status \ {"none"}
    BY <1>1 DEF Busy, Checked, Status
<1>3. r \in Req /\ data \in [Req -> Seq(BadgeRow) \cup Seq(LinkRow)]
    BY KnownType DEF IInv, TypeOK
<1>4. /\ data' \in [Req -> Seq(BadgeRow) \cup Seq(LinkRow)]
      /\ \A s \in Req \ {r} : data'[s] = data[s]
      /\ status = "200" => data'[r] = table
    BY <1>1, <1>3
<1>5. Frame(r) /\ UNCHANGED key_token
    BY <1>1, <1>4 DEF Frame, read
<1>6. /\ Step(r) /\ RequestInv' /\ Settled(r) /\ ~Carried(r)
      /\ at' \in [Req -> Place] /\ reply' \in [Req -> Status] /\ reply'[r] = status
      /\ at'[r] \in {"received", "badgesAnswered", "answered"}
      /\ at'[r] = "badgesAnswered" => at[r] = "badges"
      /\ at[r] # "badges" => Carried(r)'
    BY <1>1, <1>2, <1>5, AnswerParts
<1>7. Operation(r) = "load"
    BY <1>1 DEF IInv, RequestInv, RequestOK, PlaceOK
<1>8. Aside(r) /\ at'[r] \notin Busy \cup {"unsent"}
    BY <1>6, <1>7 DEF Aside, IsGenerate, IsRemove, Downloads, Busy, Checked
<1>9. at'[r] = "answered" => at[r] = "links"
  <2>1. requests[r].page \in Page
    BY <1>7 DEF IInv, RequestInv, RequestOK, ForPage
  <2>2. requests[r].page # NoPage
    BY <2>1
  <2>3. at[r] = "badges" => at'[r] = "badgesAnswered"
    BY <1>1, <1>2, <2>2, AnswerStep DEF IInv
  <2> QED
    BY <1>1, <2>3
<1> QED
    BY <1>1, <1>4, <1>6, <1>8, <1>9, QuietInv

-----------------------------------------------------------------------------
(***************************************************************************)
(* Toggles.                                                                *)
(***************************************************************************)
LEMMA FavouriteInv ==
    ASSUME IInv, NEW r \in Known, Operation(r) = "add_to_favorites",
           Step(r), Settled(r), RequestInv', ~Carried(r), ToggleInv',
           UNCHANGED <<key_token, now, data, hc_shared_links, page>>,
           at' \in [Req -> Place], reply' \in [Req -> Status],
           found' \in [Req -> 0..MaxRequests], copy' \in [Req -> BOOLEAN],
           deluxe_table' \in Seq(BadgeRow),
           Len(deluxe_table') = Len(deluxe_table) \/
               (Len(deluxe_table') = Len(deluxe_table) + 1 /\ Carried(r)'),
           at'[r] \notin {"unsent", "generate", "badgesAnswered"},
           at'[r] = "unanswered" => r \in failed'
    PROVE  IInv'
<1>1. TypeOK'
    BY TypeKept DEF IInv, TypeOK
<1>2. DataInv'
    BY DataKept DEF IInv
<1>3. CountInv'
    BY CountKept DEF IInv
<1>4. Aside(r)
    BY DEF Aside, IsGenerate, IsRemove, Downloads
<1>5. LinksInv'
    BY <1>4, LinksKept DEF IInv
<1> QED
    BY <1>1, <1>2, <1>3, <1>5 DEF IInv

\* A toggle that its database call leaves without an answer.
LEMMA ThrowsInv ==
    ASSUME IInv, NEW r \in Known, at[r] \in {"find", "update", "insert"}, Throws(r),
           UNCHANGED <<requests, before, key_token, now, data, tables, raced, page>>,
           found' \in [Req -> 0..MaxRequests], copy' \in [Req -> BOOLEAN],
           \A s \in Req \ {r} : found'[s] = found[s] /\ copy'[s] = copy[s]
    PROVE  IInv'
<1>1. Operation(r) = "add_to_favorites" /\ at[r] \in Busy /\ at[r] # "generate"
    BY DEF IInv, RequestInv, RequestOK, PlaceOK, Busy, Checked
<1>2. /\ GoTo(r, "unanswered") /\ r \in failed'
      /\ failed \subseteq failed' /\ failed' \subseteq failed \cup {r}
    BY DEF Throws, Fails
<1>3. "unanswered" \in Place \ {"unsent", "delete", "badgesAnswered", "answered"}
    BY DEF Place, Over
<1>4. TypeOK /\ r \in Req /\ deluxe_table \in Seq(BadgeRow)
    BY KnownType DEF IInv, TypeOK
<1>5. at'[r] = "unanswered"
    BY <1>2, <1>3, <1>4, GoToStep
<1>6. PlaceOK(r)'
    BY <1>5 DEF PlaceOK
<1>7. Frame(r)
    BY <1>2 DEF Frame
<1>8. /\ Step(r) /\ RequestInv' /\ Settled(r) /\ ~Carried(r)
      /\ at' \in [Req -> Place] /\ reply' \in [Req -> Status]
    BY <1>1, <1>2, <1>3, <1>6, <1>7, GoToParts
<1>9. deluxe_table' = deluxe_table /\ hc_shared_links' = hc_shared_links
    BY DEF tables
<1>10. ToggleInv'
    BY <1>4, <1>5, <1>8, <1>9, ToggleKept DEF IInv, Busy, Checked
<1> QED
    BY <1>1, <1>2, <1>4, <1>5, <1>8, <1>9, <1>10, FavouriteInv

LEMMA FindFavouriteInv ==
    ASSUME IInv, NEW r \in Known, FindFavourite(r), UNCHANGED page
    PROVE  IInv'
<1>1. /\ at[r] = "find" /\ at[r] \in Busy
      /\ UNCHANGED <<requests, before, key_token, now, data, deluxe_table, hc_shared_links>>
      /\ failed \subseteq failed' /\ failed' \subseteq failed \cup {r}
      /\ raced \subseteq raced' /\ raced' \subseteq raced \cup {r}
    BY DEF FindFavourite, Busy, Checked, sent, tables, Fails, Succeeds, Throws
<1>2. Operation(r) = "add_to_favorites" /\ Operation(r)' = Operation(r) /\ r \in Req
    BY <1>1, KnownType DEF IInv, RequestInv, RequestOK, PlaceOK, Operation
<1>3. /\ found \in [Req -> 0..MaxRequests] /\ copy \in [Req -> BOOLEAN]
      /\ deluxe_table \in Seq(BadgeRow) /\ TypeOK
    BY DEF IInv, TypeOK
<1>4. ASSUME GoTo(r, "update") \/ GoTo(r, "insert"),
             found' \in [Req -> 0..MaxRequests], copy' \in [Req -> BOOLEAN],
             \A s \in Req \ {r} : found'[s] = found[s] /\ copy'[s] = copy[s],
             GoTo(r, "update") =>
                 /\ found'[r] \in RowsOf(ItemOf(r)) /\ \A m \in RowsOf(ItemOf(r)) : found'[r] <= m
                 /\ copy'[r] = ~deluxe_table[found'[r]].is_favorite,
             GoTo(r, "insert") => RowsOf(ItemOf(r)) = {} \/ r \in raced'
      PROVE  IInv'
  <2>1. PICK where \in {"update", "insert"} : GoTo(r, where)
    BY <1>4
  <2>2. where \in Place \ {"unsent", "delete", "badgesAnswered", "answered"}
    BY DEF Place, Busy
  <2>3. at'[r] = where
    BY <1>2, <1>3, <2>1, <2>2, GoToStep
  <2>4. PlaceOK(r)'
    BY <1>2, <2>3 DEF PlaceOK
  <2>5. Frame(r)
    BY <1>1, <1>4 DEF Frame
  <2>6. /\ Step(r) /\ RequestInv' /\ Settled(r) /\ ~Carried(r)
        /\ at' \in [Req -> Place] /\ reply' \in [Req -> Status]
    BY <1>1, <2>1, <2>2, <2>4, <2>5, GoToParts
  <2>7. ToggleInv'
    BY <1>1, <1>4, <2>1, <2>3, <2>6, ToggleKept DEF IInv
  <2> QED
    BY <1>1, <1>2, <1>3, <1>4, <2>3, <2>6, <2>7, FavouriteInv
<1>5. CASE Throws(r) /\ UNCHANGED <<found, copy, raced>>
    BY <1>1, <1>3, <1>5, ThrowsInv DEF tables
<1>6. ASSUME NEW n \in RowsOf(ItemOf(r)), \A m \in RowsOf(ItemOf(r)) : n <= m,
             found' = [found EXCEPT ![r] = n], copy' = [copy EXCEPT ![r] = ~deluxe_table[n].is_favorite],
             GoTo(r, "update")
      PROVE  IInv'
  <2>1. n \in DOMAIN deluxe_table /\ Len(deluxe_table) <= MaxRequests
    <3>1. /\ Len(deluxe_table) + Cardinality({s \in Req : ~Carried(s)}) <= MaxRequests
          /\ Len(deluxe_table) \in Nat /\ MaxRequests \in Nat
        BY TableType DEF IInv, CountInv
    <3>2. Cardinality({s \in Req : ~Carried(s)}) \in Nat
      <4>1. IsFiniteSet(Req) /\ {s \in Req : ~Carried(s)} \in SUBSET Req
        BY FS_Interval DEF Req
      <4> QED
        BY <4>1, FS_Subset, FS_CardinalityType
    <3> QED
        BY <3>1, <3>2 DEF RowsOf
  <2>2. n \in 0..MaxRequests
    BY <1>3, <2>1, TableType
  <2>3. /\ found' \in [Req -> 0..MaxRequests] /\ found'[r] = n
        /\ copy' \in [Req -> BOOLEAN] /\ copy'[r] = ~deluxe_table[n].is_favorite
        /\ \A s \in Req \ {r} : found'[s] = found[s] /\ copy'[s] = copy[s]
    BY <1>2, <1>3, <1>6, <2>1, <2>2, TableType
  <2>4. ~GoTo(r, "insert")
    BY <1>2, <1>3, <1>6 DEF GoTo, TypeOK
  <2> QED
    BY <1>4, <1>6, <2>3, <2>4
<1>7. ASSUME GoTo(r, "insert"), UNCHANGED <<found, copy>>, RowsOf(ItemOf(r)) = {} \/ r \in raced'
      PROVE  IInv'
  <2>1. ~GoTo(r, "update")
    BY <1>2, <1>3, <1>7 DEF GoTo, TypeOK
  <2> QED
    BY <1>3, <1>4, <1>7, <2>1
<1> QED
    BY <1>5, <1>6, <1>7 DEF FindFavourite

\* The row that a toggle under way found.
LEMMA FoundRow ==
    ASSUME IInv, NEW r \in Known, at[r] = "update"
    PROVE  /\ Operation(r) = "add_to_favorites" /\ found[r] \in DOMAIN deluxe_table
           /\ deluxe_table[found[r]].item = ItemOf(r)
           /\ \A m \in RowsOf(ItemOf(r)) : found[r] <= m
           /\ r \notin raced => copy[r] = ~deluxe_table[found[r]].is_favorite
BY DEF IInv, ToggleInv, RowsOf, RequestInv, RequestOK, PlaceOK

\* The table when a row of it changes its flag.
LEMMA FlagSet ==
    ASSUME TypeOK, NEW n \in DOMAIN deluxe_table, NEW b \in BOOLEAN,
           deluxe_table' = [deluxe_table EXCEPT ![n].is_favorite = b]
    PROVE  /\ deluxe_table' \in Seq(BadgeRow) /\ Len(deluxe_table') = Len(deluxe_table)
           /\ \A i : RowsOf(i)' = RowsOf(i)
           /\ deluxe_table'[n].is_favorite = b
           /\ \A m \in DOMAIN deluxe_table \ {n} : deluxe_table'[m] = deluxe_table[m]
<1>1. /\ deluxe_table \in Seq(BadgeRow) /\ DOMAIN deluxe_table = 1..Len(deluxe_table)
    BY TableType DEF TypeOK
<1>2. PICK row : row = [deluxe_table[n] EXCEPT !.is_favorite = b]
    OBVIOUS
<1>3. deluxe_table[n] \in BadgeRow
    BY <1>1, ElementOfSeq
<1>4. row \in BadgeRow /\ row.is_favorite = b /\ row.item = deluxe_table[n].item
    BY <1>2, <1>3 DEF BadgeRow
<1>5. deluxe_table' = [deluxe_table EXCEPT ![n] = row]
    BY <1>2
<1>6. /\ deluxe_table' \in Seq(BadgeRow) /\ Len(deluxe_table') = Len(deluxe_table)
      /\ \A m \in 1..Len(deluxe_table) : deluxe_table'[m] = IF m = n THEN row ELSE deluxe_table[m]
    BY <1>1, <1>4, <1>5, ExceptSeq
<1>7. DOMAIN deluxe_table' = 1..Len(deluxe_table)
    BY <1>6, LenProperties
<1>8. ASSUME NEW i PROVE RowsOf(i)' = RowsOf(i)
    BY <1>1, <1>4, <1>6, <1>7 DEF RowsOf
<1> QED
    BY <1>1, <1>4, <1>6, <1>8

LEMMA FlagWrittenInv ==
    ASSUME IInv, NEW r \in Known, UpdateFavourite(r), UNCHANGED page, Answer(r, "200"),
           deluxe_table' = [deluxe_table EXCEPT ![found[r]].is_favorite = copy[r]]
    PROVE  IInv'
<1>1. /\ at[r] = "update" /\ at[r] \in Busy
      /\ found' = [found EXCEPT ![r] = 0] /\ copy' = [copy EXCEPT ![r] = FALSE]
      /\ UNCHANGED <<requests, before, key_token, now, data, hc_shared_links, raced>>
      /\ failed \subseteq failed' /\ failed' \subseteq failed \cup {r}
    BY DEF UpdateFavourite, Busy, sent, Fails, Succeeds, Throws
<1>2. /\ Operation(r) = "add_to_favorites" /\ found[r] \in DOMAIN deluxe_table
      /\ deluxe_table[found[r]].item = ItemOf(r) /\ r \in Req
    BY <1>1, FoundRow, KnownType DEF IInv
<1>3. /\ found \in [Req -> 0..MaxRequests] /\ copy \in [Req -> BOOLEAN] /\ TypeOK
      /\ deluxe_table \in Seq(BadgeRow) /\ MaxRequests \in Nat /\ copy[r] \in BOOLEAN
    BY <1>2 DEF IInv, TypeOK
<1>4. /\ found' \in [Req -> 0..MaxRequests] /\ copy' \in [Req -> BOOLEAN]
      /\ \A s \in Req \ {r} : found'[s] = found[s] /\ copy'[s] = copy[s]
  <2>1. 0 \in 0..MaxRequests /\ FALSE \in BOOLEAN
    BY <1>3
  <2>2. found' \in [Req -> 0..MaxRequests] /\ \A s \in Req \ {r} : found'[s] = found[s]
    BY <1>1, <1>3, <2>1
  <2>3. copy' \in [Req -> BOOLEAN] /\ \A s \in Req \ {r} : copy'[s] = copy[s]
    BY <1>1, <1>3, <2>1
  <2> QED
    BY <2>2, <2>3
<1>5. Frame(r) /\ "200" \in Status \ {"none"}
    BY <1>1, <1>4 DEF Frame, Status
<1>6. /\ Step(r) /\ RequestInv' /\ Settled(r) /\ ~Carried(r)
      /\ at' \in [Req -> Place] /\ reply' \in [Req -> Status]
      /\ at'[r] \in {"received", "badgesAnswered", "answered"}
      /\ at'[r] = "badgesAnswered" => at[r] = "badges"
    BY <1>1, <1>5, AnswerParts
<1>7. at'[r] \in {"received", "answered"} /\ at'[r] \notin Busy
    BY <1>1, <1>6 DEF Busy, Checked
<1> QED
  <2>1. /\ deluxe_table' \in Seq(BadgeRow) /\ Len(deluxe_table') = Len(deluxe_table)
        /\ \A i : RowsOf(i)' = RowsOf(i)
        /\ \A m \in DOMAIN deluxe_table \ {found[r]} : deluxe_table'[m] = deluxe_table[m]
    BY <1>2, <1>3, FlagSet
  <2>2. /\ requests' = requests /\ Known' = Known /\ Known \subseteq Req
        /\ \A s \in Known : Operation(s)' = Operation(s) /\ ItemOf(s)' = ItemOf(s)
        /\ \A s \in Known \ {r} : at'[s] = at[s]
    BY <1>3, <1>6, KnownType DEF Step, Known, Operation, ItemOf
  <2>3. ASSUME NEW s \in Known, at'[s] = "update"
        PROVE  /\ found'[s] \in RowsOf(ItemOf(s)) /\ \A m \in RowsOf(ItemOf(s)) : found'[s] <= m
               /\ s \notin raced => copy'[s] = ~deluxe_table'[found'[s]].is_favorite
    <3>1. s # r /\ at[s] = "update" /\ found'[s] = found[s] /\ copy'[s] = copy[s]
        BY <1>4, <1>7, <2>2, <2>3
    <3>2. /\ Operation(s) = "add_to_favorites" /\ found[s] \in DOMAIN deluxe_table
          /\ deluxe_table[found[s]].item = ItemOf(s)
          /\ s \notin raced => copy[s] = ~deluxe_table[found[s]].is_favorite
        BY <3>1, FoundRow
    <3>3. found[s] \in RowsOf(ItemOf(s)) /\ \A m \in RowsOf(ItemOf(s)) : found[s] <= m
        BY <3>1 DEF IInv, ToggleInv
    <3>4. s \notin raced => ItemOf(s) # ItemOf(r)
      <4>1. at[s] \in Busy
        BY <3>1 DEF Busy
      <4> QED
        BY <1>1, <1>2, <3>1, <3>2, <4>1 DEF IInv, ToggleInv
    <3>5. s \notin raced => found[s] # found[r]
        BY <1>2, <3>2, <3>4
    <3> QED
        BY <2>1, <3>1, <3>2, <3>3, <3>5
  <2>4. \A s \in Known : at'[s] \in Busy => at[s] \in Busy
    BY <1>7, <2>2
  <2>5. \A s \in Known : at'[s] = "insert" => at[s] = "insert"
    BY <1>7, <2>2
  <2>6. \A s \in Known : RowsOf(ItemOf(s))' = RowsOf(ItemOf(s))
    BY <2>1, <2>2
  <2>7. \A s, t \in Known :
            /\ Operation(s) = "add_to_favorites" /\ Operation(t) = "add_to_favorites"
            /\ at'[s] \in Busy /\ at'[t] \in Busy /\ ItemOf(s) = ItemOf(t) /\ s # t
            => s \in raced
    BY <2>4 DEF IInv, ToggleInv
  <2>8. \A s \in Known : at'[s] = "insert" /\ s \notin raced => RowsOf(ItemOf(s)) = {}
    BY <2>5 DEF IInv, ToggleInv
  <2>9. ToggleInv'
    <3>1. raced' = raced
        BY <1>1
    <3>2. \A s, t \in Known' :
              /\ Operation(s)' = "add_to_favorites" /\ Operation(t)' = "add_to_favorites"
              /\ at'[s] \in Busy /\ at'[t] \in Busy /\ ItemOf(s)' = ItemOf(t)' /\ s # t
              => s \in raced'
        BY <2>2, <2>7, <3>1
    <3>3. \A s \in Known' : at'[s] = "update" =>
              /\ found'[s] \in RowsOf(ItemOf(s))' /\ \A m \in RowsOf(ItemOf(s))' : found'[s] <= m
              /\ s \notin raced' => copy'[s] = ~deluxe_table'[found'[s]].is_favorite
        BY <2>2, <2>3, <2>6, <3>1
    <3>4. \A s \in Known' : at'[s] = "insert" /\ s \notin raced' => RowsOf(ItemOf(s))' = {}
        BY <2>2, <2>6, <2>8, <3>1
    <3> QED
        BY <3>2, <3>3, <3>4 DEF ToggleInv
  <2> QED
    BY <1>1, <1>2, <1>4, <1>6, <1>7, <2>1, <2>9, FavouriteInv

LEMMA UpdateFavouriteInv ==
    ASSUME IInv, NEW r \in Known, UpdateFavourite(r), UNCHANGED page
    PROVE  IInv'
<1>1. CASE Answer(r, "200") /\ deluxe_table' = [deluxe_table EXCEPT ![found[r]].is_favorite = copy[r]]
    BY <1>1, FlagWrittenInv
<1>2. CASE Throws(r) /\ UNCHANGED deluxe_table
  <2>1. /\ at[r] = "update" /\ UNCHANGED <<requests, before, key_token, now, data, tables, raced>>
        /\ found' = [found EXCEPT ![r] = 0] /\ copy' = [copy EXCEPT ![r] = FALSE]
    BY <1>2 DEF UpdateFavourite, sent, tables
  <2>2. /\ found \in [Req -> 0..MaxRequests] /\ copy \in [Req -> BOOLEAN]
        /\ 0 \in 0..MaxRequests /\ FALSE \in BOOLEAN
    BY DEF IInv, TypeOK
  <2>3. found' \in [Req -> 0..MaxRequests] /\ \A s \in Req \ {r} : found'[s] = found[s]
    BY <2>1, <2>2
  <2>4. copy' \in [Req -> BOOLEAN] /\ \A s \in Req \ {r} : copy'[s] = copy[s]
    BY <2>1, <2>2
  <2> QED
    BY <1>2, <2>1, <2>3, <2>4, ThrowsInv
<1> QED
    BY <1>1, <1>2 DEF UpdateFavourite

\* The table when a row is added.
LEMMA RowAdded ==
    ASSUME TypeOK, NEW i \in Item,
           deluxe_table' = Append(deluxe_table, [item |-> i, is_favorite |-> TRUE])
    PROVE  /\ deluxe_table' \in Seq(BadgeRow) /\ Len(deluxe_table') = Len(deluxe_table) + 1
           /\ \A j : RowsOf(j)' = IF j = i THEN RowsOf(j) \cup {Len(deluxe_table) + 1} ELSE RowsOf(j)
           /\ \A m \in DOMAIN deluxe_table :
                 m \in Nat /\ m < Len(deluxe_table) + 1 /\ deluxe_table'[m] = deluxe_table[m]
           /\ deluxe_table'[Len(deluxe_table) + 1].is_favorite = TRUE
<1> DEFINE row == [item |-> i, is_favorite |-> TRUE]
           size == Len(deluxe_table)
<1>1. /\ deluxe_table \in Seq(BadgeRow) /\ size \in Nat /\ DOMAIN deluxe_table = 1..size
    BY TableType DEF TypeOK
<1>2. row \in BadgeRow /\ row.item = i /\ row.is_favorite = TRUE
    BY DEF BadgeRow
<1> HIDE DEF row
<1>3. deluxe_table' = Append(deluxe_table, row)
    BY DEF row
<1>4. /\ deluxe_table' \in Seq(BadgeRow) /\ Len(deluxe_table') = size + 1
      /\ \A m \in 1..size : deluxe_table'[m] = deluxe_table[m]
      /\ deluxe_table'[size + 1] = row
    BY <1>1, <1>2, <1>3, AppendProperties
<1>5. DOMAIN deluxe_table' = 1..size + 1
    BY <1>4, LenProperties
<1>6. 1..size + 1 = (1..size) \cup {size + 1} /\ size + 1 \notin 1..size
    BY <1>1
<1> HIDE DEF size
<1>7. ASSUME NEW j
      PROVE  RowsOf(j)' = IF j = i THEN RowsOf(j) \cup {size + 1} ELSE RowsOf(j)
    BY <1>1, <1>2, <1>4, <1>5, <1>6 DEF RowsOf
<1>8. \A m \in 1..size : m \in Nat /\ m < size + 1
    BY <1>1
<1> QED
    BY <1>1, <1>2, <1>4, <1>7, <1>8 DEF size

LEMMA RowInsertedInv ==
    ASSUME IInv, NEW r \in Known, InsertFavourite(r), UNCHANGED page, Answer(r, "200"),
           deluxe_table' = Append(deluxe_table, [item |-> ItemOf(r), is_favorite |-> TRUE])
    PROVE  IInv'
<1>1. /\ at[r] = "insert" /\ at[r] \in Busy
      /\ UNCHANGED <<requests, before, found, copy, key_token, now, data, hc_shared_links, raced>>
      /\ failed \subseteq failed' /\ failed' \subseteq failed \cup {r}
    BY DEF InsertFavourite, Busy, sent, read, Fails, Succeeds, Throws
<1>2. Operation(r) = "add_to_favorites" /\ ItemOf(r) \in Item /\ r \in Req
    BY <1>1, KnownType DEF IInv, RequestInv, RequestOK, PlaceOK, ForPage
<1>3. /\ found' \in [Req -> 0..MaxRequests] /\ copy' \in [Req -> BOOLEAN] /\ TypeOK
      /\ deluxe_table \in Seq(BadgeRow)
    BY <1>1 DEF IInv, TypeOK
<1>4. Frame(r) /\ "200" \in Status \ {"none"}
    BY <1>1 DEF Frame, Status
<1>5. /\ Step(r) /\ RequestInv' /\ Settled(r) /\ ~Carried(r)
      /\ at' \in [Req -> Place] /\ reply' \in [Req -> Status]
      /\ at'[r] \in {"received", "badgesAnswered", "answered"}
      /\ at'[r] = "badgesAnswered" => at[r] = "badges"
      /\ at[r] # "badges" => Carried(r)'
    BY <1>1, <1>4, AnswerParts
<1>6. at'[r] \in {"received", "answered"} /\ at'[r] \notin Busy /\ Carried(r)'
    BY <1>1, <1>5 DEF Busy, Checked
<1> QED
  <2> DEFINE size == Len(deluxe_table)
  <2>1. /\ deluxe_table' \in Seq(BadgeRow) /\ Len(deluxe_table') = size + 1
        /\ \A j : RowsOf(j)' = IF j = ItemOf(r) THEN RowsOf(j) \cup {size + 1} ELSE RowsOf(j)
        /\ \A m \in DOMAIN deluxe_table :
              m \in Nat /\ m < size + 1 /\ deluxe_table'[m] = deluxe_table[m]
    BY <1>2, <1>3, RowAdded
  <2> HIDE DEF size
  <2>2. /\ requests' = requests /\ Known' = Known /\ Known \subseteq Req
        /\ \A s \in Known : Operation(s)' = Operation(s) /\ ItemOf(s)' = ItemOf(s)
        /\ \A s \in Known \ {r} : at'[s] = at[s]
    BY <1>3, <1>5, KnownType DEF Step, Known, Operation, ItemOf
  <2>3. ASSUME NEW s \in Known, at'[s] = "update"
        PROVE  /\ found[s] \in RowsOf(ItemOf(s))' /\ \A m \in RowsOf(ItemOf(s))' : found[s] <= m
               /\ s \notin raced => copy[s] = ~deluxe_table'[found[s]].is_favorite
    <3>1. s # r /\ at[s] = "update"
        BY <1>6, <2>2, <2>3
    <3>2. /\ found[s] \in DOMAIN deluxe_table
          /\ s \notin raced => copy[s] = ~deluxe_table[found[s]].is_favorite
        BY <3>1, FoundRow
    <3>3. found[s] \in RowsOf(ItemOf(s)) /\ \A m \in RowsOf(ItemOf(s)) : found[s] <= m
        BY <3>1 DEF IInv, ToggleInv
    <3>4. RowsOf(ItemOf(s))' = IF ItemOf(s) = ItemOf(r) THEN RowsOf(ItemOf(s)) \cup {size + 1}
                               ELSE RowsOf(ItemOf(s))
        BY <2>1, <2>2
    <3>5. found[s] <= size + 1 /\ deluxe_table'[found[s]] = deluxe_table[found[s]]
      <4>1. size \in Nat /\ found[s] \in Nat /\ found[s] < size + 1
        BY <1>3, <2>1, <3>2, TableType DEF size
      <4> QED
        BY <2>1, <3>2, <4>1
    <3> QED
        BY <3>2, <3>3, <3>4, <3>5
  <2>4. \A s \in Known : at'[s] \in Busy => at[s] \in Busy
    BY <1>6, <2>2
  <2>5. ASSUME NEW s \in Known, at'[s] = "insert", s \notin raced PROVE RowsOf(ItemOf(s))' = {}
    <3>1. s # r /\ at[s] = "insert" /\ at[s] \in Busy
        BY <1>6, <2>2, <2>5 DEF Busy
    <3>2. Operation(s) = "add_to_favorites"
        BY <3>1 DEF IInv, RequestInv, RequestOK, PlaceOK
    <3>3. ItemOf(s) # ItemOf(r)
        BY <1>1, <1>2, <2>5, <3>1, <3>2 DEF IInv, ToggleInv
    <3>4. RowsOf(ItemOf(s)) = {}
        BY <2>5, <3>1 DEF IInv, ToggleInv
    <3> QED
        BY <2>1, <2>2, <3>3, <3>4
  <2>6. ToggleInv'
    <3>1. raced' = raced /\ found' = found /\ copy' = copy
        BY <1>1
    <3>2. \A s, t \in Known' :
              /\ Operation(s)' = "add_to_favorites" /\ Operation(t)' = "add_to_favorites"
              /\ at'[s] \in Busy /\ at'[t] \in Busy /\ ItemOf(s)' = ItemOf(t)' /\ s # t
              => s \in raced'
        BY <2>2, <2>4, <3>1 DEF IInv, ToggleInv
    <3>3. \A s \in Known' : at'[s] = "update" =>
              /\ found'[s] \in RowsOf(ItemOf(s))' /\ \A m \in RowsOf(ItemOf(s))' : found'[s] <= m
              /\ s \notin raced' => copy'[s] = ~deluxe_table'[found'[s]].is_favorite
        BY <2>2, <2>3, <3>1
    <3>4. \A s \in Known' : at'[s] = "insert" /\ s \notin raced' => RowsOf(ItemOf(s))' = {}
        BY <2>2, <2>5, <3>1
    <3> QED
        BY <3>2, <3>3, <3>4 DEF ToggleInv
  <2>7. Len(deluxe_table') = Len(deluxe_table) + 1
    BY <2>1 DEF size
  <2> QED
    BY <1>1, <1>2, <1>3, <1>5, <1>6, <2>1, <2>6, <2>7, FavouriteInv

LEMMA InsertFavouriteInv ==
    ASSUME IInv, NEW r \in Known, InsertFavourite(r), UNCHANGED page
    PROVE  IInv'
<1>1. CASE /\ Answer(r, "200")
           /\ deluxe_table' = Append(deluxe_table, [item |-> ItemOf(r), is_favorite |-> TRUE])
    BY <1>1, RowInsertedInv
<1>2. CASE Throws(r) /\ UNCHANGED deluxe_table
  <2>1. /\ at[r] = "insert" /\ UNCHANGED <<found, copy>>
        /\ UNCHANGED <<requests, before, key_token, now, data, tables, raced>>
    BY <1>2 DEF InsertFavourite, sent, read, tables
  <2>2. found \in [Req -> 0..MaxRequests] /\ copy \in [Req -> BOOLEAN]
    BY DEF IInv, TypeOK
  <2> QED
    BY <1>2, <2>1, <2>2, ThrowsInv
<1> QED
    BY <1>1, <1>2 DEF InsertFavourite

-----------------------------------------------------------------------------
(***************************************************************************)
(* Links.                                                                  *)
(***************************************************************************)
LEMMA GenerateInv ==
    ASSUME IInv, NEW r \in Known, Generate(r), UNCHANGED page
    PROVE  IInv'
<1>1. /\ at[r] = "generate" /\ at[r] \in Busy /\ GoTo(r, "insertLink")
      /\ key_token' = [key_token EXCEPT ![r] = now] /\ now' \in {now, now + 1}
      /\ UNCHANGED <<requests, before, found, copy, data, deluxe_table, hc_shared_links,
                     failed, raced>>
    BY DEF Generate, sent, tables, Busy, Checked
<1>2. /\ TypeOK /\ r \in Req /\ key_token \in [Req -> 0..MaxRequests] /\ now \in 0..MaxRequests
      /\ deluxe_table \in Seq(BadgeRow) /\ hc_shared_links \in Seq(LinkRow)
      /\ found' \in [Req -> 0..MaxRequests] /\ copy' \in [Req -> BOOLEAN]
      /\ data' \in [Req -> Seq(BadgeRow) \cup Seq(LinkRow)]
    BY <1>1, KnownType DEF IInv, TypeOK
<1>3. /\ key_token' \in [Req -> 0..MaxRequests]
      /\ \A s \in Req \ {r} : key_token'[s] = key_token[s]
    BY <1>1, <1>2
<1>4. Frame(r)
    BY <1>1, <1>3 DEF Frame
<1>5. Operation(r) = "generate_share_link" /\ Operation(r)' = Operation(r)
    BY <1>1 DEF IInv, RequestInv, RequestOK, PlaceOK, Operation
<1>6. "insertLink" \in Place \ {"unsent", "delete", "badgesAnswered", "answered"}
    BY DEF Place, Busy
<1>7. at'[r] = "insertLink"
    BY <1>1, <1>2, <1>6, GoToStep
<1>8. PlaceOK(r)'
    BY <1>5, <1>7 DEF PlaceOK
<1>9. /\ Step(r) /\ RequestInv' /\ Settled(r) /\ ~Carried(r)
      /\ at' \in [Req -> Place] /\ reply' \in [Req -> Status] /\ reply'[r] = "none"
    BY <1>1, <1>4, <1>6, <1>8, GoToParts
<1>10. Aside(r)
    BY <1>7, <1>9 DEF Aside
<1>11. CountInv'
  <2>1. Len(deluxe_table') = Len(deluxe_table)
    BY <1>1
  <2> QED
    BY <1>1, <1>7, <1>9, <2>1, CountKept DEF IInv
<1>12. now' \in 0..MaxRequests
  <2> DEFINE timed == {s \in Req : at'[s] \in {"unsent", "generate"}}
  <2>1. IsFiniteSet(Req) /\ timed \subseteq Req
    BY FS_Interval DEF Req
  <2>2. Cardinality(timed) \in Nat
    BY <2>1, FS_Subset, FS_CardinalityType
  <2>3. now' + Cardinality(timed) <= MaxRequests
    BY <1>11 DEF CountInv
  <2> HIDE DEF timed
  <2> QED
    BY <1>1, <1>2, <2>2, <2>3
<1>13. TypeOK'
    BY <1>1, <1>2, <1>3, <1>9, <1>12, TypeKept
<1>14. DataInv'
    BY <1>7, <1>9, DataKept DEF IInv
<1>15. ToggleInv'
    BY <1>1, <1>5, <1>7, <1>9, ToggleKept DEF IInv
<1>16. LinksInv'
    BY <1>1, <1>9, <1>10, LinksKept DEF IInv
<1> QED
    BY <1>9, <1>11, <1>13, <1>14, <1>15, <1>16 DEF IInv

\* Handlers of links, with what they do to the tables as the step before.
LEMMA LinkStepInv ==
    ASSUME IInv, NEW r \in Known, Operation(r) \notin {"load", "add_to_favorites"},
           Step(r), RequestInv', ~Carried(r), LinksInv',
           UNCHANGED <<copy, key_token, now, data, deluxe_table, page>>,
           at' \in [Req -> Place], reply' \in [Req -> Status],
           found' \in [Req -> 0..MaxRequests], hc_shared_links' \in Seq(LinkRow),
           at'[r] \notin Busy \cup {"unsent", "badgesAnswered"}
    PROVE  IInv'
<1>1. TypeOK'
    BY TypeKept DEF IInv, TypeOK
<1>2. DataInv'
    BY DataKept DEF IInv
<1>3. CountInv'
  <2>1. /\ at'[r] \notin {"unsent", "generate"} /\ Len(deluxe_table') = Len(deluxe_table)
        /\ now' = now
    BY DEF Busy, Checked
  <2> QED
    BY <2>1, CountKept DEF IInv
<1>4. ToggleInv'
  <2>1. at'[r] \notin {"update", "insert"} /\ UNCHANGED deluxe_table
    BY DEF Busy
  <2> QED
    BY <2>1, ToggleKept DEF IInv
<1> QED
    BY <1>1, <1>2, <1>3, <1>4 DEF IInv

\* The table when a link is added.
LEMMA LinkAdded ==
    ASSUME TypeOK, NEW i \in Item, NEW t \in Nat, NEW r \in Req,
           hc_shared_links' = Append(hc_shared_links, [item |-> i, key_token |-> t, by |-> r])
    PROVE  /\ hc_shared_links' \in Seq(LinkRow)
           /\ \A n \in DOMAIN hc_shared_links :
                 n \in DOMAIN hc_shared_links' /\ hc_shared_links'[n] = hc_shared_links[n]
           /\ \E k \in DOMAIN hc_shared_links' :
                 /\ DOMAIN hc_shared_links' = DOMAIN hc_shared_links \cup {k}
                 /\ hc_shared_links'[k].item = i /\ hc_shared_links'[k].key_token = t
                 /\ hc_shared_links'[k].by = r
<1> DEFINE row == [item |-> i, key_token |-> t, by |-> r]
           size == Len(hc_shared_links)
<1>1. hc_shared_links \in Seq(LinkRow) /\ size \in Nat /\ DOMAIN hc_shared_links = 1..size
    BY TableType DEF TypeOK
<1>2. row \in LinkRow /\ row.item = i /\ row.key_token = t /\ row.by = r
    BY DEF LinkRow
<1> HIDE DEF row
<1>3. hc_shared_links' = Append(hc_shared_links, row)
    BY DEF row
<1> HIDE DEF size
<1>4. /\ hc_shared_links' \in Seq(LinkRow) /\ Len(hc_shared_links') = size + 1
      /\ \A m \in 1..size : hc_shared_links'[m] = hc_shared_links[m]
      /\ hc_shared_links'[size + 1] = row
    BY <1>1, <1>2, <1>3, AppendProperties DEF size
<1>5. DOMAIN hc_shared_links' = 1..size + 1
    BY <1>4, LenProperties
<1>6. 1..size + 1 = (1..size) \cup {size + 1}
    BY <1>1
<1>7. \A n \in DOMAIN hc_shared_links :
          n \in DOMAIN hc_shared_links' /\ hc_shared_links'[n] = hc_shared_links[n]
    BY <1>1, <1>4, <1>5, <1>6
<1>8. /\ size + 1 \in DOMAIN hc_shared_links'
      /\ DOMAIN hc_shared_links' = DOMAIN hc_shared_links \cup {size + 1}
    BY <1>1, <1>5, <1>6
<1> QED
    BY <1>2, <1>4, <1>7, <1>8

LEMMA InsertLinkInv ==
    ASSUME IInv, NEW r \in Known, InsertLink(r), UNCHANGED page
    PROVE  IInv'
<1>1. /\ at[r] = "insertLink" /\ at[r] \in Busy /\ Answer(r, "200")
      /\ \/ /\ hc_shared_links' = Append(hc_shared_links,
                   [item |-> ItemOf(r), key_token |-> key_token[r], by |-> r])
            /\ failed' = failed
         \/ UNCHANGED hc_shared_links /\ failed' = failed \cup {r}
      /\ UNCHANGED <<requests, before, found, copy, key_token, now, data, deluxe_table, raced>>
    BY DEF InsertLink, Busy, sent, read, Fails, Succeeds
<1>2. /\ TypeOK /\ r \in Req /\ key_token[r] \in Nat /\ found' \in [Req -> 0..MaxRequests]
      /\ hc_shared_links \in Seq(LinkRow)
  <2>1. /\ TypeOK /\ r \in Req /\ key_token \in [Req -> 0..MaxRequests]
        /\ found' \in [Req -> 0..MaxRequests] /\ hc_shared_links \in Seq(LinkRow)
    BY <1>1, KnownType DEF IInv, TypeOK
  <2>2. key_token[r] \in 0..MaxRequests
    BY <2>1
  <2> QED
    BY <2>1, <2>2
<1>3. IsGenerate(r) /\ ItemOf(r) \in Item
    BY <1>1 DEF IInv, RequestInv, RequestOK, PlaceOK, ForPage, IsGenerate
<1>4. Frame(r) /\ "200" \in Status \ {"none"} /\ UNCHANGED key_token
    BY <1>1 DEF Frame, Status
<1>5. /\ Step(r) /\ RequestInv' /\ Settled(r) /\ ~Carried(r)
      /\ at' \in [Req -> Place] /\ reply' \in [Req -> Status] /\ reply'[r] = "200"
      /\ at'[r] \in {"received", "badgesAnswered", "answered"}
      /\ at'[r] = "badgesAnswered" => at[r] = "badges"
      /\ at[r] # "badges" => Carried(r)'
    BY <1>1, <1>4, AnswerParts
<1>6. Carried(r)' /\ at'[r] \notin Busy \cup {"unsent", "badgesAnswered", "unanswered"}
    BY <1>1, <1>5 DEF Busy, Checked
<1>7. Operation(r) = "generate_share_link"
    BY <1>3 DEF IsGenerate
<1>8. CASE UNCHANGED hc_shared_links /\ failed' = failed \cup {r}
  <2>1. Aside(r)
    BY <1>6, <1>7, <1>8 DEF Aside, IsRemove, Downloads
  <2>2. LinksInv'
    BY <1>2, <1>5, <1>8, <2>1, LinksKept DEF IInv
  <2> QED
    BY <1>1, <1>2, <1>5, <1>6, <1>7, <1>8, <2>2, LinkStepInv
<1>9. CASE /\ hc_shared_links' = Append(hc_shared_links,
                  [item |-> ItemOf(r), key_token |-> key_token[r], by |-> r])
           /\ failed' = failed
  <2>1. /\ hc_shared_links' \in Seq(LinkRow)
        /\ \A n \in DOMAIN hc_shared_links :
              n \in DOMAIN hc_shared_links' /\ hc_shared_links'[n] = hc_shared_links[n]
    BY <1>2, <1>3, <1>9, LinkAdded
  <2>2. PICK k \in DOMAIN hc_shared_links' :
            /\ DOMAIN hc_shared_links' = DOMAIN hc_shared_links \cup {k}
            /\ hc_shared_links'[k].item = ItemOf(r)
            /\ hc_shared_links'[k].key_token = key_token[r]
            /\ hc_shared_links'[k].by = r
    BY <1>2, <1>3, <1>9, LinkAdded
  <2>3. /\ Known' = Known
        /\ \A s : /\ Operation(s)' = Operation(s) /\ ItemOf(s)' = ItemOf(s)
                  /\ IsGenerate(s)' = IsGenerate(s) /\ IsRemove(s)' = IsRemove(s)
        /\ before' = before
        /\ \A s \in Known : Carried(s) => Carried(s)'
        /\ \A s \in Known \ {r} : reply'[s] = reply[s] /\ (Carried(s)' <=> Carried(s))
    BY <1>2, <1>5, SettledFacts
  <2>4. LinkInv'
    <3>1. ASSUME NEW n \in DOMAIN hc_shared_links
          PROVE  LET row == hc_shared_links'[n]
                 IN  /\ IsGenerate(row.by) /\ at'[row.by] \in Over \cup {"answered"}
                     /\ row.item = ItemOf(row.by) /\ row.key_token = key_token[row.by]
      <4>1. PICK row : row = hc_shared_links[n] /\ row = hc_shared_links'[n]
        BY <2>1
      <4>2. /\ IsGenerate(row.by) /\ Carried(row.by)
            /\ row.item = ItemOf(row.by) /\ row.key_token = key_token[row.by]
        BY <4>1 DEF IInv, LinksInv, LinkInv
      <4>3. row.by \in Known
        BY <4>2 DEF IsGenerate
      <4>4. at'[row.by] \in Over \cup {"answered"}
        BY <2>3, <4>2, <4>3 DEF Carried
      <4> QED
        BY <4>1, <4>2, <4>4
    <3>2. /\ IsGenerate(r) /\ at'[r] \in Over \cup {"answered"}
          /\ hc_shared_links'[k].item = ItemOf(r) /\ hc_shared_links'[k].key_token = key_token[r]
        BY <1>3, <1>6, <2>2 DEF Carried
    <3>3. ASSUME NEW n \in DOMAIN hc_shared_links'
          PROVE  LET row == hc_shared_links'[n]
                 IN  /\ IsGenerate(row.by) /\ at'[row.by] \in Over \cup {"answered"}
                     /\ row.item = ItemOf(row.by) /\ row.key_token = key_token[row.by]
        BY <2>2, <3>1, <3>2
    <3>4. requests' = requests /\ key_token' = key_token
        BY <1>1
    <3> QED
        BY <3>3, <3>4 DEF LinkInv, IsGenerate, Carried, Operation, ItemOf, Known
  <2>5. RemovedInv'
    <3> SUFFICES ASSUME NEW m \in Known, IsRemove(m), reply'[m] = "200", m \notin failed,
                        NEW n \in DOMAIN hc_shared_links', hc_shared_links'[n].item = ItemOf(m)
                 PROVE  hc_shared_links'[n].by \notin before[m]
        BY <1>9, <2>3 DEF RemovedInv
    <3>1. m # r
        BY <1>7 DEF IsRemove
    <3>2. CASE n = k
      <4>1. r \notin before[m]
        BY <1>2, <1>5, BeforeOver DEF IInv
      <4> QED
        BY <2>2, <3>2, <4>1
    <3>3. CASE n \in DOMAIN hc_shared_links
      <4>1. reply[m] = "200"
        BY <2>3, <3>1
      <4> QED
        BY <2>1, <3>3, <4>1 DEF IInv, LinksInv, RemovedInv
    <3> QED
        BY <2>2, <3>2, <3>3
  <2>6. StoredInv'
    <3> SUFFICES ASSUME NEW g \in Known, IsGenerate(g), Carried(g)', reply'[g] = "200",
                        g \notin failed
                 PROVE  \/ \E n \in DOMAIN hc_shared_links' : hc_shared_links'[n].by = g
                        \/ \E m \in Known : Removes(m, g)'
        BY <1>9, <2>3 DEF StoredInv
    <3>1. CASE g = r
        BY <2>2, <3>1
    <3>2. CASE g # r
      <4>1. Carried(g) /\ reply[g] = "200"
        BY <2>3, <3>2
      <4>2. \/ \E n \in DOMAIN hc_shared_links : hc_shared_links[n].by = g
            \/ \E m \in Known : Removes(m, g)
        BY <4>1 DEF IInv, LinksInv, StoredInv
      <4> QED
        BY <1>2, <1>5, <2>1, <4>2, RemovesKept
    <3> QED
        BY <3>1, <3>2
  <2>7. DownloadOK(r)
    BY <1>6, <1>7 DEF DownloadOK, Downloads
  <2>8. LinksInv'
    BY <1>2, <1>5, <2>4, <2>5, <2>6, <2>7, DownloadsKept DEF IInv, LinksInv
  <2> QED
    BY <1>1, <1>2, <1>5, <1>6, <1>7, <2>1, <2>8, LinkStepInv
<1> QED
    BY <1>1, <1>8, <1>9

\* deleteMany leaves the rows of other items, and all of them.
LEMMA RowsKept ==
    ASSUME TypeOK, NEW i, KeepOthers(i)
    PROVE  /\ hc_shared_links' \in Seq(LinkRow)
           /\ \A k \in DOMAIN hc_shared_links' :
                 \E n \in DOMAIN hc_shared_links :
                     hc_shared_links[n].item # i /\ hc_shared_links'[k] = hc_shared_links[n]
           /\ \A n \in DOMAIN hc_shared_links : hc_shared_links[n].item # i =>
                 \E k \in DOMAIN hc_shared_links' : hc_shared_links'[k] = hc_shared_links[n]
<1> DEFINE kept == {n \in DOMAIN hc_shared_links : hc_shared_links[n].item # i}
           size == Cardinality(kept)
<1>1. /\ hc_shared_links \in Seq(LinkRow) /\ Len(hc_shared_links) \in Nat
      /\ DOMAIN hc_shared_links = 1..Len(hc_shared_links)
    BY TableType DEF TypeOK
<1>2. IsFiniteSet(DOMAIN hc_shared_links) /\ kept \subseteq DOMAIN hc_shared_links
    BY <1>1, FS_Interval
<1>3. IsFiniteSet(kept) /\ size \in Nat
    BY <1>2, FS_Subset, FS_CardinalityType
<1>4. PICK nth \in [1..size -> kept] :
          /\ \A j, k \in 1..size : j < k => nth[j] < nth[k]
          /\ hc_shared_links' = [k \in 1..size |-> hc_shared_links[nth[k]]]
    BY DEF KeepOthers
<1>5. \A n \in kept : n \in Nat /\ n \in DOMAIN hc_shared_links /\ hc_shared_links[n].item # i
    BY <1>1
<1>6. \A n \in DOMAIN hc_shared_links : hc_shared_links[n].item # i => n \in kept
    OBVIOUS
<1>7. \A n \in kept : hc_shared_links[n] \in LinkRow
    BY <1>1, <1>5, ElementOfSeq
<1> HIDE DEF kept
<1>8. IsInjective(nth)
  <2> SUFFICES ASSUME NEW j \in 1..size, NEW k \in 1..size, nth[j] = nth[k]
               PROVE  j = k
    BY <1>4 DEF IsInjective
  <2>1. j \in Nat /\ k \in Nat /\ nth[j] \in Nat /\ nth[k] \in Nat
    BY <1>3, <1>4, <1>5
  <2>2. ~(j < k) /\ ~(k < j)
    BY <1>4, <2>1
  <2> QED
    BY <2>1, <2>2
<1>9. \A n \in kept : \E k \in 1..size : nth[k] = n
  <2>1. nth \in Injection(1..size, kept)
    BY <1>4, <1>8 DEF Injection
  <2>2. Cardinality(1..size) = size
    BY <1>3, FS_Interval
  <2>3. nth \in Surjection(1..size, kept)
    BY <1>3, <2>1, <2>2, FS_Injection
  <2> QED
    BY <2>3 DEF Surjection
<1> HIDE DEF size
<1>10. hc_shared_links' \in Seq(LinkRow) /\ DOMAIN hc_shared_links' = 1..size
  <2>1. \A k \in 1..size : hc_shared_links[nth[k]] \in LinkRow
    BY <1>4, <1>7
  <2>2. hc_shared_links' \in [1..size -> LinkRow]
    BY <1>4, <2>1
  <2>3. hc_shared_links' \in Seq(LinkRow)
    BY <1>3, <2>2
  <2> QED
    BY <2>2, <2>3
<1>11. \A k \in 1..size : hc_shared_links'[k] = hc_shared_links[nth[k]] /\ nth[k] \in kept
    BY <1>4
<1>12. ASSUME NEW n \in DOMAIN hc_shared_links, hc_shared_links[n].item # i
       PROVE  \E k \in DOMAIN hc_shared_links' : hc_shared_links'[k] = hc_shared_links[n]
  <2>1. PICK k \in 1..size : nth[k] = n
    BY <1>6, <1>9, <1>12
  <2> QED
    BY <1>10, <1>11, <2>1
<1> QED
    BY <1>5, <1>10, <1>11, <1>12

LEMMA DeleteLinksInv ==
    ASSUME IInv, NEW r \in Known, DeleteLinks(r), UNCHANGED page
    PROVE  IInv'
<1>1. PICK status \in {"200", "501"} :
      /\ at[r] = "delete" /\ at[r] \in Busy /\ Answer(r, status)
      /\ \/ KeepOthers(ItemOf(r)) /\ failed' = failed
         \/ UNCHANGED hc_shared_links /\ failed' = failed \cup {r}
      /\ UNCHANGED <<requests, before, found, copy, key_token, now, data, deluxe_table, raced>>
    BY DEF DeleteLinks, Busy, Checked, sent, read, Fails, Succeeds
<1>2. /\ TypeOK /\ r \in Req /\ found' \in [Req -> 0..MaxRequests]
      /\ hc_shared_links \in Seq(LinkRow)
    BY <1>1, KnownType DEF IInv, TypeOK
<1>3. IsRemove(r) /\ Operation(r) = "remove_share_link" /\ r \notin failed
    BY <1>1 DEF IInv, RequestInv, RequestOK, PlaceOK, IsRemove
<1>4. Frame(r) /\ status \in Status \ {"none"} /\ UNCHANGED key_token
    BY <1>1 DEF Frame, Status
<1>5. /\ Step(r) /\ RequestInv' /\ Settled(r) /\ ~Carried(r)
      /\ at' \in [Req -> Place] /\ reply' \in [Req -> Status] /\ reply'[r] = status
      /\ at'[r] \in {"received", "badgesAnswered", "answered"}
      /\ at'[r] = "badgesAnswered" => at[r] = "badges"
      /\ at[r] # "badges" => Carried(r)'
    BY <1>1, <1>4, AnswerParts
<1>6. Carried(r)' /\ at'[r] \notin Busy \cup {"unsent", "badgesAnswered", "unanswered"}
    BY <1>1, <1>5 DEF Busy, Checked
<1>7. CASE UNCHANGED hc_shared_links /\ failed' = failed \cup {r}
  <2>1. Aside(r)
    BY <1>3, <1>6, <1>7 DEF Aside, IsGenerate, Downloads
  <2>2. LinksInv'
    BY <1>2, <1>5, <1>7, <2>1, LinksKept DEF IInv
  <2> QED
    BY <1>1, <1>2, <1>3, <1>5, <1>6, <1>7, <2>2, LinkStepInv
<1>8. CASE KeepOthers(ItemOf(r)) /\ failed' = failed
  <2>1. hc_shared_links' \in Seq(LinkRow)
    BY <1>2, <1>8, RowsKept
  <2>2. \A k \in DOMAIN hc_shared_links' :
            \E n \in DOMAIN hc_shared_links :
                hc_shared_links[n].item # ItemOf(r) /\ hc_shared_links'[k] = hc_shared_links[n]
    BY <1>2, <1>8, RowsKept
  <2>3. \A n \in DOMAIN hc_shared_links : hc_shared_links[n].item # ItemOf(r) =>
            \E k \in DOMAIN hc_shared_links' : hc_shared_links'[k] = hc_shared_links[n]
    BY <1>2, <1>8, RowsKept
  <2>4. /\ Known' = Known
        /\ \A s : /\ Operation(s)' = Operation(s) /\ ItemOf(s)' = ItemOf(s)
                  /\ IsGenerate(s)' = IsGenerate(s) /\ IsRemove(s)' = IsRemove(s)
        /\ before' = before
        /\ \A s \in Known : Carried(s) => Carried(s)'
        /\ \A s \in Known \ {r} : reply'[s] = reply[s] /\ (Carried(s)' <=> Carried(s))
    BY <1>2, <1>5, SettledFacts
  <2>5. LinkInv'
    <3>1. ASSUME NEW k \in DOMAIN hc_shared_links'
          PROVE  LET row == hc_shared_links'[k]
                 IN  /\ IsGenerate(row.by) /\ at'[row.by] \in Over \cup {"answered"}
                     /\ row.item = ItemOf(row.by) /\ row.key_token = key_token[row.by]
      <4>1. PICK n \in DOMAIN hc_shared_links : hc_shared_links'[k] = hc_shared_links[n]
        BY <2>2
      <4>2. PICK row : row = hc_shared_links[n] /\ row = hc_shared_links'[k]
        BY <4>1
      <4>3. /\ IsGenerate(row.by) /\ Carried(row.by)
            /\ row.item = ItemOf(row.by) /\ row.key_token = key_token[row.by]
        BY <4>2 DEF IInv, LinksInv, LinkInv
      <4>4. at'[row.by] \in Over \cup {"answered"}
        BY <2>4, <4>3 DEF Carried, IsGenerate
      <4> QED
        BY <4>2, <4>3, <4>4
    <3>2. requests' = requests /\ key_token' = key_token
        BY <1>1
    <3> QED
        BY <3>1, <3>2 DEF LinkInv, IsGenerate, Carried, Operation, ItemOf, Known
  <2>6. RemovedInv'
    <3> SUFFICES ASSUME NEW m \in Known, IsRemove(m), reply'[m] = "200", m \notin failed,
                        NEW k \in DOMAIN hc_shared_links', hc_shared_links'[k].item = ItemOf(m)
                 PROVE  hc_shared_links'[k].by \notin before[m]
        BY <1>8, <2>4 DEF RemovedInv
    <3>1. PICK n \in DOMAIN hc_shared_links :
            hc_shared_links[n].item # ItemOf(r) /\ hc_shared_links'[k] = hc_shared_links[n]
        BY <2>2
    <3>2. m # r
        BY <3>1
    <3>3. reply[m] = "200"
        BY <2>4, <3>2
    <3> QED
        BY <3>1, <3>3 DEF IInv, LinksInv, RemovedInv
  <2>7. StoredInv'
    <3> SUFFICES ASSUME NEW g \in Known, IsGenerate(g), Carried(g)', reply'[g] = "200",
                        g \notin failed
                 PROVE  \/ \E k \in DOMAIN hc_shared_links' : hc_shared_links'[k].by = g
                        \/ \E m \in Known : Removes(m, g)'
        BY <1>8, <2>4 DEF StoredInv
    <3>1. g # r
        BY <1>3 DEF IsGenerate
    <3>2. Carried(g) /\ reply[g] = "200"
        BY <2>4, <3>1
    <3>3. CASE \E m \in Known : Removes(m, g)
        BY <1>2, <1>5, <3>3, RemovesKept
    <3>4. CASE \E n \in DOMAIN hc_shared_links : hc_shared_links[n].by = g
      <4>1. PICK n \in DOMAIN hc_shared_links : hc_shared_links[n].by = g
        BY <3>4
      <4>2. CASE hc_shared_links[n].item # ItemOf(r)
        BY <2>3, <4>1, <4>2
      <4>3. CASE hc_shared_links[n].item = ItemOf(r)
        <5>1. ItemOf(g) = ItemOf(r)
            BY <4>1, <4>3 DEF IInv, LinksInv, LinkInv
        <5>2. r \notin before[g]
            BY <1>2, <1>5, BeforeOver DEF IInv
        <5>3. IsRemove(r)' /\ Carried(r)' /\ r \notin failed' /\ ItemOf(r)' = ItemOf(g)'
              /\ r \notin before'[g]
            BY <1>3, <1>6, <1>8, <2>4, <5>1, <5>2
        <5>4. Removes(r, g)'
            BY <5>3 DEF Removes
        <5> QED
            BY <5>4
      <4> QED
        BY <4>2, <4>3
    <3> QED
        BY <3>2, <3>3, <3>4 DEF IInv, LinksInv, StoredInv
  <2>8. DownloadOK(r)
    BY <1>3, <1>6 DEF DownloadOK, Downloads
  <2>9. LinksInv'
    BY <1>2, <1>5, <2>5, <2>6, <2>7, <2>8, DownloadsKept DEF IInv, LinksInv
  <2> QED
    BY <1>1, <1>2, <1>3, <1>5, <1>6, <2>1, <2>9, LinkStepInv
<1> QED
    BY <1>1, <1>7, <1>8

LEMMA FollowInv ==
    ASSUME IInv, NEW r \in Known, Follow(r), UNCHANGED page
    PROVE  IInv'
<1> DEFINE rows == RowsWithToken(key_token[requests[r].link])
<1>1. /\ at[r] = "follow" /\ at[r] \in Busy
      /\ UNCHANGED <<requests, before, copy, key_token, now, data, deluxe_table,
                     hc_shared_links, raced>>
      /\ failed \subseteq failed' /\ failed' \subseteq failed \cup {r}
    BY DEF Follow, Busy, sent, tables, Fails, Succeeds, Throws
<1>2. /\ TypeOK /\ RequestInv /\ LinksInv /\ r \in Req /\ found \in [Req -> 0..MaxRequests]
      /\ hc_shared_links \in Seq(LinkRow)
    BY KnownType DEF IInv, TypeOK
<1>3. r \in Downloads /\ Operation(r) = "download_shared" /\ Operation(r)' = Operation(r)
    BY <1>1, <1>2 DEF RequestInv, RequestOK, PlaceOK, Downloads, Operation
<1>4. /\ IsGenerate(LinkOf(r)) /\ Carried(LinkOf(r)) /\ reply[LinkOf(r)] = "200"
      /\ LinkOf(r) = requests[r].link
    BY <1>2, <1>3 DEF LinksInv, DownloadInv, Carried, Over, LinkOf
<1>5. ASSUME found' \in [Req -> 0..MaxRequests], Step(r), RequestInv', Settled(r), ~Carried(r),
             at' \in [Req -> Place], reply' \in [Req -> Status],
             at'[r] \notin Busy \cup {"unsent", "badgesAnswered"}, DownloadOK(r)
      PROVE  IInv'
  <2>1. TableAside(r)
    BY <1>3 DEF TableAside, IsGenerate, IsRemove
  <2>2. LinksInv'
    BY <1>1, <1>2, <1>5, <2>1, TableKept, DownloadsKept DEF LinksInv
  <2> QED
    BY <1>1, <1>2, <1>3, <1>5, <2>2, LinkStepInv
<1>6. ASSUME NEW n \in rows, found' = [found EXCEPT ![r] = hc_shared_links[n].by],
             Answer(r, "200")
      PROVE  IInv'
  <2>1. PICK row : row = hc_shared_links[n]
    OBVIOUS
  <2>2. n \in DOMAIN hc_shared_links /\ row.key_token = key_token[LinkOf(r)]
    BY <1>4, <2>1 DEF RowsWithToken
  <2>3. /\ IsGenerate(row.by) /\ Carried(row.by)
        /\ row.item = ItemOf(row.by) /\ row.key_token = key_token[row.by]
    BY <1>2, <2>1, <2>2 DEF LinksInv, LinkInv
  <2>4. row.by \in 0..MaxRequests
    BY <1>2, <2>1, <2>2, TableType DEF Req
  <2>5. /\ found' \in [Req -> 0..MaxRequests] /\ found'[r] = row.by
        /\ \A s \in Req \ {r} : found'[s] = found[s]
    BY <1>2, <1>6, <2>1, <2>4
  <2>6. Frame(r) /\ "200" \in Status \ {"none"} /\ UNCHANGED key_token
    BY <1>1, <2>5 DEF Frame, Status
  <2>7. /\ Step(r) /\ RequestInv' /\ Settled(r) /\ ~Carried(r)
        /\ at' \in [Req -> Place] /\ reply' \in [Req -> Status]
        /\ at'[r] \in {"received", "badgesAnswered", "answered"}
        /\ at'[r] = "badgesAnswered" => at[r] = "badges"
    BY <1>1, <1>6, <2>6, AnswerParts
  <2>8. at'[r] \notin Busy \cup {"unsent", "badgesAnswered", "unanswered"}
    BY <1>1, <2>7 DEF Busy, Checked
  <2>9. ASSUME NEW m \in before[r], Operation(m) = "remove_share_link", reply[m] = "200",
               row.by \in before[m], m \notin failed, ItemOf(m) = ItemOf(row.by)
        PROVE  FALSE
    <3>1. IsRemove(m)
        BY <1>2, <2>9, BeforeOver DEF IsRemove
    <3> QED
        BY <1>2, <2>1, <2>2, <2>3, <2>9, <3>1 DEF LinksInv, RemovedInv, IsRemove
  <2>10. DownloadOK(r)
    BY <2>2, <2>3, <2>5, <2>8, <2>9 DEF DownloadOK
  <2> QED
    BY <1>5, <2>5, <2>7, <2>8, <2>10
<1>7. ASSUME GoTo(r, "unanswered"), UNCHANGED found, rows = {} \/ r \in failed'
      PROVE  IInv'
  <2>1. "unanswered" \in Place \ {"unsent", "delete", "badgesAnswered", "answered"}
    BY DEF Place, Over
  <2>2. at'[r] = "unanswered"
    BY <1>2, <1>7, <2>1, GoToStep
  <2>3. PlaceOK(r)' /\ Frame(r) /\ UNCHANGED key_token
    BY <1>1, <1>7, <2>2 DEF PlaceOK, Frame
  <2>4. /\ Step(r) /\ RequestInv' /\ Settled(r) /\ ~Carried(r)
        /\ at' \in [Req -> Place] /\ reply' \in [Req -> Status] /\ reply'[r] = "none"
    BY <1>1, <1>7, <2>1, <2>3, GoToParts
  <2>5. rows = {} => LinkOf(r) \in failed \/ \E m \in Known : Removes(m, LinkOf(r))
    <3> SUFFICES ASSUME rows = {}, NEW n \in DOMAIN hc_shared_links,
                        hc_shared_links[n].by = LinkOf(r)
                 PROVE  FALSE
        BY <1>2, <1>4 DEF LinksInv, StoredInv, IsGenerate
    <3>1. hc_shared_links[n].key_token = key_token[LinkOf(r)]
        BY <1>2 DEF LinksInv, LinkInv
    <3> QED
        BY <1>4, <3>1 DEF RowsWithToken
  <2>6. DownloadOK(r)
    BY <1>3, <1>7, <2>4, <2>5 DEF DownloadOK
  <2>7. found' \in [Req -> 0..MaxRequests] /\ at'[r] \notin Busy \cup {"unsent", "badgesAnswered"}
    BY <1>2, <1>7, <2>2 DEF Busy, Checked
  <2> QED
    BY <1>5, <2>4, <2>6, <2>7
<1>8. \/ \E n \in rows :
            found' = [found EXCEPT ![r] = hc_shared_links[n].by] /\ Answer(r, "200")
      \/ GoTo(r, "unanswered") /\ UNCHANGED found /\ (rows = {} \/ r \in failed')
    BY DEF Follow, Fails, Throws
<1> QED
    BY <1>6, <1>7, <1>8

LEMMA HandleInv ==
    ASSUME IInv, NEW r \in Known, Handle(r), UNCHANGED page
    PROVE  IInv'
<1>1. CASE ListBadges(r) \/ ListLinks(r)
  <2>1. deluxe_table \in Seq(BadgeRow) /\ hc_shared_links \in Seq(LinkRow)
    BY DEF IInv, TypeOK
  <2>2. CASE ListBadges(r)
    BY <2>1, <2>2, ListInv DEF ListBadges
  <2>3. CASE ListLinks(r)
    BY <2>1, <2>3, ListInv DEF ListLinks
  <2> QED
    BY <1>1, <2>2, <2>3
<1> QED
    BY <1>1, RefuseInv, FindFavouriteInv, UpdateFavouriteInv, InsertFavouriteInv, TrashInv,
       IgnoreInv, GenerateInv, InsertLinkInv, DeleteLinksInv, FollowInv DEF Handle

-----------------------------------------------------------------------------
(***************************************************************************)
(* Answers at a page.                                                      *)
(***************************************************************************)
LEMMA AnsweredInv ==
    ASSUME IInv, NEW r \in Known, at[r] \in {"badgesAnswered", "answered"},
           NEW where \in {"links", "received", "lost"},
           at' = [at EXCEPT ![r] = where],
           where = "links" <=> at[r] = "badgesAnswered",
           reply' = [reply EXCEPT ![r] = IF where = "links" THEN "none" ELSE @],
           UNCHANGED <<requests, before, read, tables, raced>>,
           data' = [data EXCEPT ![r] = <<>>],
           failed \subseteq failed', failed' \subseteq failed \cup {r},
           where = "received" => failed' = failed,
           file_sys_badge' \in [Page -> {Undefined} \cup Seq(BadgeRow)],
           shared_links' \in [Page -> Seq(Item)]
    PROVE  IInv'
<1>1. /\ TypeOK /\ RequestInv /\ LinksInv /\ r \in Req /\ Known \subseteq Req
      /\ at \in [Req -> Place] /\ reply \in [Req -> Status]
      /\ data \in [Req -> Seq(BadgeRow) \cup Seq(LinkRow)]
      /\ UNCHANGED <<found, copy, key_token, now, deluxe_table, hc_shared_links>>
    BY KnownType DEF IInv, TypeOK, Place, Status, read, tables
<1>2. where \in Place /\ where \notin {"unsent", "generate", "delete", "update", "insert"}
    BY DEF Place, Busy, Checked, Over
<1>3. /\ at' \in [Req -> Place] /\ at'[r] = where
      /\ \A s \in Req \ {r} : at'[s] = at[s]
    BY <1>1, <1>2
<1>4. /\ reply' \in [Req -> Status] /\ reply'[r] = IF where = "links" THEN "none" ELSE reply[r]
      /\ \A s \in Req \ {r} : reply'[s] = reply[s]
  <2>1. "none" \in Status
    BY DEF Status
  <2> QED
    BY <1>1, <2>1
<1>5. /\ data' \in [Req -> Seq(BadgeRow) \cup Seq(LinkRow)]
      /\ \A s \in Req \ {r} : data'[s] = data[s]
  <2>1. <<>> \in Seq(BadgeRow) \cup Seq(LinkRow)
    OBVIOUS
  <2> QED
    BY <1>1, <2>1
<1>6. Step(r)
    BY <1>1, <1>2, <1>3, <1>4, <1>5 DEF Step, Over
<1>7. PlaceOK(r)'
  <2>1. at[r] = "badgesAnswered" => Operation(r) = "load"
    BY <1>1 DEF RequestInv, RequestOK, PlaceOK
  <2>2. Operation(r)' = Operation(r)
    BY DEF Operation
  <2> QED
    BY <1>3, <2>1, <2>2 DEF PlaceOK
<1>8. RequestInv'
  <2>1. where \in Busy => where = "links"
    BY DEF Busy, Checked
  <2> QED
    BY <1>1, <1>2, <1>3, <1>4, <1>6, <1>7, <2>1, RequestKept
<1>9. Settled(r)
    BY <1>1, <1>3, <1>4 DEF Settled, Over
<1>10. Aside(r)
    BY <1>3, <1>4 DEF Aside
<1>11. LinksInv'
    BY <1>1, <1>6, <1>9, <1>10, LinksKept
<1>12. DataInv'
    BY <1>1, <1>3, <1>6, DataKept DEF IInv
<1>13. CountInv'
  <2>1. Carried(r) => Carried(r)'
    BY <1>3 DEF Carried, Over
  <2>2. Len(deluxe_table') = Len(deluxe_table) /\ now' = now
    BY <1>1
  <2> QED
    BY <1>1, <1>2, <1>3, <1>6, <2>1, <2>2, CountKept DEF IInv
<1>14. ToggleInv'
  <2>1. Operation(r) = "add_to_favorites" => at'[r] \notin Busy
    <3>1. at[r] = "badgesAnswered" => Operation(r) = "load"
        BY <1>1 DEF RequestInv, RequestOK, PlaceOK
    <3> QED
        BY <1>3, <3>1 DEF Busy, Checked
  <2> QED
    BY <1>1, <1>2, <1>3, <1>6, <2>1, ToggleKept DEF IInv
<1>15. TypeOK'
    BY <1>1, <1>3, <1>4, <1>5, <1>6 DEF TypeOK, Place, Status, Step
<1> QED
    BY <1>8, <1>11, <1>12, <1>13, <1>14, <1>15 DEF IInv

LEMMA ReceiveBadgesInv ==
    ASSUME IInv, NEW r \in Known, ReceiveBadges(r)
    PROVE  IInv'
<1> DEFINE p == requests[r].page
<1>1. PICK badges \in {data[r], Undefined} :
      /\ at[r] = "badgesAnswered" /\ badges = data[r] => reply[r] = "200" \/ badges = Undefined
      /\ file_sys_badge' = [file_sys_badge EXCEPT ![p] = badges]
    BY DEF ReceiveBadges
<1>2. /\ at[r] = "badgesAnswered" /\ at' = [at EXCEPT ![r] = "links"]
      /\ reply' = [reply EXCEPT ![r] = "none"] /\ data' = [data EXCEPT ![r] = <<>>]
      /\ UNCHANGED <<requests, before, read, tables, shared_links, raced>>
      /\ failed \subseteq failed' /\ failed' \subseteq failed \cup {r}
    BY DEF ReceiveBadges, Fails, sent
<1>3. badges \in {Undefined} \cup Seq(BadgeRow)
  <2>1. reply[r] = "200" => data[r] \in Seq(BadgeRow)
    BY <1>2 DEF IInv, DataInv
  <2> QED
    BY <1>1, <1>2, <2>1
<1>4. file_sys_badge \in [Page -> {Undefined} \cup Seq(BadgeRow)] /\ shared_links \in [Page -> Seq(Item)]
    BY DEF IInv, TypeOK
<1>5. file_sys_badge' \in [Page -> {Undefined} \cup Seq(BadgeRow)]
    BY <1>1, <1>3, <1>4
<1> QED
    BY <1>2, <1>4, <1>5, AnsweredInv

LEMMA LoseInv ==
    ASSUME IInv, NEW r \in Known, Lose(r)
    PROVE  IInv'
<1>1. /\ at[r] = "answered" /\ at' = [at EXCEPT ![r] = "lost"] /\ reply' = reply
      /\ data' = [data EXCEPT ![r] = <<>>]
      /\ UNCHANGED <<requests, before, read, tables, file_sys_badge, shared_links, raced>>
      /\ failed \subseteq failed' /\ failed' \subseteq failed \cup {r}
    BY DEF Lose, GoTo, Fails, sent, page
<1>2. /\ file_sys_badge \in [Page -> {Undefined} \cup Seq(BadgeRow)]
      /\ shared_links \in [Page -> Seq(Item)] /\ reply \in [Req -> Status] /\ r \in Req
    BY KnownType DEF IInv, TypeOK, Status
<1>3. reply' = [reply EXCEPT ![r] = @]
    BY <1>1, <1>2
<1> QED
    BY <1>1, <1>2, <1>3, AnsweredInv

\* What the callbacks make of the lists is a list.
LEMMA BadgesType ==
    ASSUME NEW badges \in Seq(BadgeRow), NEW i \in Item
    PROVE  ToggleBadge(badges, i) \in Seq(BadgeRow)
<1> DEFINE rows == {n \in DOMAIN badges : badges[n].item = i}
<1>1. CASE rows = {}
  <2>1. [item |-> i, is_favorite |-> TRUE] \in BadgeRow
    BY DEF BadgeRow
  <2> QED
    BY <1>1, <2>1, AppendProperties DEF ToggleBadge
<1>2. CASE rows # {}
  <2> DEFINE n == CHOOSE n \in rows : \A m \in rows : n <= m
  <2>1. ToggleBadge(badges, i) = [badges EXCEPT ![n].is_favorite = ~@]
    BY <1>2 DEF ToggleBadge
  <2> HIDE DEF n, rows
  <2>2. CASE n \in DOMAIN badges
    <3>1. DOMAIN badges = 1..Len(badges) /\ badges[n] \in BadgeRow
        BY <2>2, LenProperties, ElementOfSeq
    <3>2. PICK row : row = [badges[n] EXCEPT !.is_favorite = ~@]
        OBVIOUS
    <3>3. row \in BadgeRow
        BY <3>1, <3>2 DEF BadgeRow
    <3>4. ToggleBadge(badges, i) = [badges EXCEPT ![n] = row]
        BY <2>1, <3>2
    <3> QED
        BY <2>2, <3>1, <3>3, <3>4, ExceptSeq
  <2>3. CASE n \notin DOMAIN badges
    <3>1. badges \in [DOMAIN badges -> BadgeRow]
        BY LenProperties, ElementOfSeq
    <3>2. ToggleBadge(badges, i) = badges
        BY <2>1, <2>3, <3>1
    <3> QED
        BY <3>2
  <2> QED
    BY <2>2, <2>3
<1> QED
    BY <1>1, <1>2

LEMMA RemoveAtType ==
    ASSUME NEW S, NEW list \in Seq(S), NEW n \in DOMAIN list
    PROVE  RemoveAt(list, n) \in Seq(S)
<1>1. Len(list) \in Nat /\ n \in 1..Len(list)
    BY LenProperties
<1>2. n - 1 \in Nat /\ n + 1 \in Nat /\ n - 1 <= Len(list)
    BY <1>1
<1>3. SubSeq(list, 1, n - 1) \in Seq(S) /\ SubSeq(list, n + 1, Len(list)) \in Seq(S)
    BY <1>1, <1>2, SubSeqProperties
<1> QED
    BY <1>3, ConcatProperties DEF RemoveAt

LEMMA ReceiveInv ==
    ASSUME IInv, NEW r \in Known, Receive(r)
    PROVE  IInv'
<1> DEFINE p == requests[r].page
<1>1. /\ at[r] = "answered" /\ at' = [at EXCEPT ![r] = "received"] /\ reply' = reply
      /\ data' = [data EXCEPT ![r] = <<>>] /\ failed' = failed
      /\ UNCHANGED <<requests, before, read, tables, raced>>
    BY DEF Receive, GoTo, sent
<1>2. /\ file_sys_badge \in [Page -> {Undefined} \cup Seq(BadgeRow)]
      /\ shared_links \in [Page -> Seq(Item)] /\ reply \in [Req -> Status] /\ r \in Req
    BY KnownType DEF IInv, TypeOK, Status
<1>3. p \in Page /\ Operation(r) \in ForPage /\ (Operation(r) # "load" => ItemOf(r) \in Item)
    BY <1>1 DEF IInv, RequestInv, RequestOK
<1>4. /\ file_sys_badge' \in [Page -> {Undefined} \cup Seq(BadgeRow)]
      /\ shared_links' \in [Page -> Seq(Item)]
  <2>1. CASE Operation(r) = "add_to_favorites"
    <3>1. FavouriteDone(r, p)
        BY <2>1 DEF Receive
    <3>2. file_sys_badge[p] # Undefined => ToggleBadge(file_sys_badge[p], ItemOf(r)) \in Seq(BadgeRow)
        BY <1>2, <1>3, <2>1, BadgesType
    <3> QED
        BY <1>2, <3>1, <3>2 DEF FavouriteDone
  <2>2. CASE Operation(r) = "generate_share_link"
    <3>1. ShareDone(r, p)
        BY <2>2 DEF Receive
    <3>2. Append(shared_links[p], ItemOf(r)) \in Seq(Item)
        BY <1>2, <1>3, <2>2, AppendProperties
    <3> QED
        BY <1>2, <3>1, <3>2 DEF ShareDone
  <2>3. CASE Operation(r) = "remove_share_link"
    <3>1. RemoveDone(r, p)
        BY <2>3 DEF Receive
    <3>2. \A n \in DOMAIN shared_links[p] : RemoveAt(shared_links[p], n) \in Seq(Item)
        BY <1>2, <1>3, RemoveAtType
    <3>3. file_sys_badge' = file_sys_badge
        BY <3>1 DEF RemoveDone
    <3>4. \/ shared_links' = shared_links
          \/ \E n \in DOMAIN shared_links[p] :
                shared_links' = [shared_links EXCEPT ![p] = RemoveAt(shared_links[p], n)]
        BY <3>1 DEF RemoveDone
    <3> HIDE DEF p
    <3> QED
        BY <1>2, <3>2, <3>3, <3>4
  <2>4. CASE Operation(r) = "load"
    <3>1. LinksDone(r, p)
        BY <2>4 DEF Receive
    <3>2. reply[r] = "200" => [n \in DOMAIN data[r] |-> data[r][n].item] \in Seq(Item)
      <4> SUFFICES ASSUME reply[r] = "200"
                   PROVE  [n \in DOMAIN data[r] |-> data[r][n].item] \in Seq(Item)
        OBVIOUS
      <4>1. data[r] \in Seq(LinkRow)
        BY <1>1, <2>4 DEF IInv, DataInv
      <4>2. PICK rows : rows = data[r]
        OBVIOUS
      <4>3. /\ Len(rows) \in Nat /\ DOMAIN rows = 1..Len(rows)
            /\ \A n \in 1..Len(rows) : rows[n] \in LinkRow
        BY <4>1, <4>2, LenProperties, ElementOfSeq
      <4>4. [n \in 1..Len(rows) |-> rows[n].item] \in Seq(Item)
        BY <4>3 DEF LinkRow
      <4> QED
        BY <4>2, <4>3, <4>4
    <3> QED
        BY <1>2, <3>1, <3>2 DEF LinksDone
  <2> QED
    BY <1>3, <2>1, <2>2, <2>3, <2>4 DEF ForPage
<1>5. reply' = [reply EXCEPT ![r] = @]
    BY <1>1, <1>2
<1> QED
    BY <1>1, <1>4, <1>5, AnsweredInv

-----------------------------------------------------------------------------
(***************************************************************************)
(* Clicks.                                                                 *)
(***************************************************************************)
LEMMA FirstStepFacts ==
    ASSUME NEW op \in OperationType
    PROVE  /\ FirstStep[op] \in Checked \cup {"follow"}
           /\ FirstStep[op] = "find" <=> op = "add_to_favorites"
           /\ FirstStep[op] = "trash" <=> op = "move_to_trash"
           /\ FirstStep[op] = "ignore" <=> op = "move_file"
           /\ FirstStep[op] = "badges" <=> op = "load"
           /\ FirstStep[op] = "generate" <=> op = "generate_share_link"
           /\ FirstStep[op] = "delete" <=> op = "remove_share_link"
           /\ FirstStep[op] = "follow" <=> op = "download_shared"
           /\ FirstStep[op] # "links"
BY DEF FirstStep, OperationType, Checked

\* The new request r, and what the others keep.
Sent(r, op, p, i, l) ==
    /\ r \in Req /\ r \notin Known
    /\ requests' \in Seq([op : OperationType, page : Page \cup {NoPage},
                          item : Item \cup {NoItem}, link : 0..MaxRequests])
    /\ Len(requests') <= MaxRequests /\ Known' = Known \cup {r}
    /\ at' \in [Req -> Place] /\ before' \in [Req -> SUBSET Req]
    /\ \A s \in Req \ {r} : at'[s] = at[s] /\ before'[s] = before[s]
    /\ \A s \in Known : requests'[s] = requests[s]
    /\ requests'[r].op = op /\ requests'[r].page = p /\ requests'[r].item = i /\ requests'[r].link = l
    /\ at[r] = "unsent" /\ reply[r] = "none" /\ r \notin failed
    /\ at'[r] = FirstStep[op] /\ at'[r] \in Checked \cup {"follow"}
    /\ before'[r] = {s \in Known : at[s] \in Over}
    /\ UNCHANGED <<reply, found, copy, key_token, now, data, deluxe_table, hc_shared_links,
                   file_sys_badge, shared_links, failed>>
    /\ raced \subseteq raced' /\ raced' \subseteq Req
    /\ \A s \in raced' \ raced : op = "add_to_favorites" /\ s \in Toggling(i) \cup {r}
    /\ Toggling(i) = {} => raced' = raced
    /\ op = "add_to_favorites" /\ Toggling(i) # {} => Toggling(i) \cup {r} \subseteq raced'

LEMMA SendParts ==
    ASSUME IInv, NEW op \in OperationType, NEW p \in Page \cup {NoPage},
           NEW i \in Item \cup {NoItem}, NEW l \in 0..MaxRequests, Send(op, p, i, l)
    PROVE  Sent(Len(requests) + 1, op, p, i, l)
<1> DEFINE r == Len(requests) + 1
           new == [op |-> op, page |-> p, item |-> i, link |-> l]
           Request == [op : OperationType, page : Page \cup {NoPage},
                       item : Item \cup {NoItem}, link : 0..MaxRequests]
<1>1. /\ r <= MaxRequests /\ requests' = Append(requests, new)
      /\ before' = [before EXCEPT ![r] = {s \in Known : at[s] \in Over}]
      /\ at' = [at EXCEPT ![r] = FirstStep[op]]
      /\ UNCHANGED <<reply, found, copy, key_token, now, data, deluxe_table, hc_shared_links,
                     file_sys_badge, shared_links, failed>>
    BY DEF Send, GoTo, read, tables, page
<1>2. /\ raced \subseteq raced'
      /\ \A s \in raced' \ raced : op = "add_to_favorites" /\ s \in Toggling(i) \cup {r}
      /\ Toggling(i) = {} => raced' = raced
      /\ op = "add_to_favorites" /\ Toggling(i) # {} => Toggling(i) \cup {r} \subseteq raced'
    BY DEF Send
<1>3. /\ TypeOK /\ RequestInv /\ requests \in Seq(Request) /\ Len(requests) \in Nat
      /\ at \in [Req -> Place] /\ before \in [Req -> SUBSET Req] /\ raced \subseteq Req
      /\ Known = 1..Len(requests) /\ Known \subseteq Req
    BY KnownType DEF IInv, TypeOK, Place
<1>4. r \in Req /\ r \notin Known /\ 1..r = Known \cup {r}
  <2>1. MaxRequests \in Nat
    OBVIOUS
  <2> QED
    BY <1>1, <1>3, <2>1 DEF Req
<1>5. new \in Request /\ new.op = op /\ new.page = p /\ new.item = i /\ new.link = l
    OBVIOUS
<1> HIDE DEF new
<1>6. /\ requests' \in Seq(Request) /\ Len(requests') = r
      /\ \A s \in 1..Len(requests) : requests'[s] = requests[s]
      /\ requests'[r] = new
    BY <1>1, <1>3, <1>5, AppendProperties
<1>7. DOMAIN requests' = 1..r
    BY <1>6, LenProperties
<1> HIDE DEF r, Request
<1>8. Known' = Known \cup {r}
    BY <1>4, <1>7 DEF Known
<1>9. FirstStep[op] \in Checked \cup {"follow"}
    BY FirstStepFacts
<1>10. FirstStep[op] \in Place
    BY <1>9 DEF Place, Busy
<1>11. /\ at' \in [Req -> Place] /\ at'[r] = FirstStep[op]
       /\ \A s \in Req \ {r} : at'[s] = at[s]
    BY <1>1, <1>3, <1>4, <1>10
<1>12. /\ before' \in [Req -> SUBSET Req] /\ before'[r] = {s \in Known : at[s] \in Over}
       /\ \A s \in Req \ {r} : before'[s] = before[s]
    BY <1>1, <1>3, <1>4
<1>13. at[r] = "unsent" /\ reply[r] = "none" /\ r \notin failed
    BY <1>3, <1>4 DEF RequestInv
<1>14. raced' \subseteq Req
  <2>1. Toggling(i) \subseteq Known
    BY DEF Toggling
  <2> QED
    BY <1>2, <1>3, <1>4, <2>1
<1>15. Sent(r, op, p, i, l)
    BY <1>1, <1>2, <1>3, <1>4, <1>5, <1>6, <1>8, <1>9, <1>11, <1>12, <1>13, <1>14
       DEF Sent, Request
<1> QED
    BY <1>15 DEF r

LEMMA SentOthers ==
    ASSUME IInv, NEW r, NEW op, NEW p, NEW i, NEW l, Sent(r, op, p, i, l)
    PROVE  /\ Known \subseteq Req
           /\ \A s \in Known : /\ s # r /\ Operation(s)' = Operation(s) /\ ItemOf(s)' = ItemOf(s)
                               /\ LinkOf(s)' = LinkOf(s) /\ at'[s] = at[s]
                               /\ before'[s] = before[s] /\ (Carried(s)' <=> Carried(s))
                               /\ (IsGenerate(s)' <=> IsGenerate(s))
                               /\ (IsRemove(s)' <=> IsRemove(s))
                               /\ (s \in Downloads' <=> s \in Downloads)
           /\ Operation(r)' = op /\ ItemOf(r)' = i /\ LinkOf(r)' = l
           /\ at'[r] \notin Over \cup {"answered", "unsent", "update", "insert", "badgesAnswered"}
           /\ ~Carried(r) /\ ~Carried(r)'
<1>1. Known \subseteq Req
    BY KnownType DEF IInv
<1>2. at[r] = "unsent" /\ at'[r] \in Checked \cup {"follow"}
    BY DEF Sent
<1>3. at'[r] \notin Over \cup {"answered", "unsent", "update", "insert", "badgesAnswered"}
    BY <1>2 DEF Checked, Over
<1>4. ~Carried(r) /\ ~Carried(r)'
    BY <1>2, <1>3 DEF Carried, Over
<1>5. ASSUME NEW s \in Known
      PROVE  /\ s # r /\ at'[s] = at[s] /\ before'[s] = before[s] /\ requests'[s] = requests[s]
             /\ s \in Known'
    BY <1>1 DEF Sent
<1>6. Operation(r)' = op /\ ItemOf(r)' = i /\ LinkOf(r)' = l
    BY DEF Sent, Operation, ItemOf, LinkOf
<1> QED
    BY <1>1, <1>3, <1>4, <1>5, <1>6
       DEF Operation, ItemOf, LinkOf, IsGenerate, IsRemove, Downloads, Carried

\* What is sent: a page's click, or a request that needs no page.
Sendable(op, p, i, l) ==
    /\ op \in OperationType /\ p \in Page \cup {NoPage} /\ i \in Item \cup {NoItem}
    /\ l \in 0..MaxRequests
    /\ op \in ForPage <=> p \in Page
    /\ op \in ForPage \ {"load"} => i \in Item
    /\ op = "download_shared" => IsGenerate(l) /\ at[l] = "received" /\ reply[l] = "200"
    /\ op = "generate_share_link" => ~HasShareLink(p, FileOf(i))

LEMMA SentRequests ==
    ASSUME IInv, NEW r, NEW op, NEW p, NEW i, NEW l, Sendable(op, p, i, l), Sent(r, op, p, i, l)
    PROVE  RequestInv' /\ DataInv' /\ CountInv'
<1>1. /\ Known \subseteq Req /\ r \in Req /\ Known' = Known \cup {r} /\ r \notin Known
      /\ TypeOK /\ RequestInv /\ UNCHANGED <<reply, data, now, deluxe_table, failed>>
      /\ \A s \in Known : /\ s # r /\ at'[s] = at[s] /\ before'[s] = before[s]
                          /\ requests'[s] = requests[s]
      /\ reply[r] = "none" /\ r \notin failed
  <2>1. /\ Known \subseteq Req /\ TypeOK /\ RequestInv
        /\ \A s \in Known : s # r /\ at'[s] = at[s] /\ before'[s] = before[s]
    BY SentOthers DEF IInv
  <2> QED
    BY <2>1 DEF Sent
<1>2. /\ requests'[r].op = op /\ requests'[r].page = p /\ requests'[r].item = i
      /\ at'[r] = FirstStep[op] /\ before'[r] = {s \in Known : at[s] \in Over}
      /\ \A s \in Req \ {r} : at'[s] = at[s]
    BY DEF Sent
<1>3. ASSUME NEW s \in Known PROVE RequestOK(s)'
  <2>1. \A q \in before'[s] : q \in Known' /\ at'[q] \in Over
    BY <1>1 DEF RequestInv, RequestOK
  <2> QED
    BY <1>1, <2>1 DEF RequestInv, RequestOK, PlaceOK, Operation, ItemOf
<1>4. RequestOK(r)'
  <2>1. /\ at'[r] \notin {"update", "insert", "badgesAnswered", "answered", "links",
                          "insertLink", "unsent"}
    BY <1>2, FirstStepFacts DEF Sendable, Checked
  <2>2. PlaceOK(r)'
    BY <1>2, <2>1, FirstStepFacts DEF Sendable, PlaceOK, Operation
  <2>3. \A q \in before'[r] : q \in Known' /\ at'[q] \in Over
    BY <1>1, <1>2
  <2> QED
    BY <1>1, <1>2, <2>1, <2>2, <2>3 DEF Sendable, RequestOK, Operation, ItemOf
<1>5. RequestInv'
    BY <1>1, <1>2, <1>3, <1>4 DEF RequestInv
<1>6. DataInv'
  <2>1. at'[r] \notin {"badgesAnswered", "answered"}
    BY SentOthers
  <2>2. \A s \in Known : Operation(s)' = Operation(s)
    BY SentOthers
  <2> QED
    BY <1>1, <2>1, <2>2 DEF IInv, DataInv
<1>7. CountInv'
  <2> DEFINE left   == {s \in Req : ~Carried(s)}
             leftN  == {s \in Req : ~Carried(s)'}
             timed  == {s \in Req : at[s] \in {"unsent", "generate"}}
             timedN == {s \in Req : at'[s] \in {"unsent", "generate"}}
  <2>1. MaxRequests \in Nat /\ IsFiniteSet(Req) /\ Len(deluxe_table) \in Nat /\ now \in Nat
    BY <1>1, FS_Interval, TableType DEF Req, TypeOK
  <2>2. leftN = left
    BY <1>2, SentOthers DEF Carried
  <2>3. timedN \subseteq timed
    BY <1>1, <1>2 DEF Sent
  <2>4. IsFiniteSet(timed) /\ IsFiniteSet(timedN) /\ IsFiniteSet(left)
    BY <2>1, FS_Subset
  <2> HIDE DEF left, leftN, timed, timedN
  <2>5. Cardinality(timedN) <= Cardinality(timed)
    BY <2>3, <2>4, FS_Subset
  <2>6. /\ Cardinality(timed) \in Nat /\ Cardinality(timedN) \in Nat
    BY <2>4, FS_CardinalityType
  <2>7. /\ Len(deluxe_table) + Cardinality(left) <= MaxRequests
        /\ now + Cardinality(timed) <= MaxRequests
    BY DEF IInv, CountInv, left, timed
  <2>8. now + Cardinality(timedN) <= MaxRequests
    BY <2>1, <2>5, <2>6, <2>7
  <2> QED
    BY <1>1, <2>2, <2>7, <2>8 DEF CountInv, leftN, timedN
<1> QED
    BY <1>5, <1>6, <1>7

LEMMA SentToggles ==
    ASSUME IInv, NEW r, NEW op, NEW p, NEW i, NEW l, Sent(r, op, p, i, l)
    PROVE  ToggleInv'
<1>1. /\ Known' = Known \cup {r} /\ UNCHANGED <<found, copy, deluxe_table>>
      /\ \A j : RowsOf(j)' = RowsOf(j)
      /\ raced \subseteq raced'
      /\ op = "add_to_favorites" /\ Toggling(i) # {} => Toggling(i) \cup {r} \subseteq raced'
    BY DEF Sent, RowsOf
<1>2. /\ \A s \in Known : s # r /\ Operation(s)' = Operation(s) /\ ItemOf(s)' = ItemOf(s)
                          /\ at'[s] = at[s]
      /\ Operation(r)' = op /\ ItemOf(r)' = i /\ at'[r] \notin {"update", "insert"}
    BY SentOthers
<1>3. ASSUME NEW s \in Known', NEW t \in Known',
             Operation(s)' = "add_to_favorites", Operation(t)' = "add_to_favorites",
             at'[s] \in Busy, at'[t] \in Busy, ItemOf(s)' = ItemOf(t)', s # t
      PROVE  s \in raced'
  <2>1. CASE s \in Known /\ t \in Known
    BY <1>1, <1>2, <1>3, <2>1 DEF IInv, ToggleInv
  <2>2. CASE s = r \/ t = r
    <3>1. PICK q \in Known : q \in {s, t} /\ Operation(q) = "add_to_favorites" /\ at[q] \in Busy
                             /\ ItemOf(q) = i
        BY <1>1, <1>2, <1>3, <2>2
    <3>2. q \in Toggling(i) /\ op = "add_to_favorites"
        BY <1>2, <1>3, <2>2, <3>1 DEF Toggling
    <3>3. {s, t} = {q, r}
        BY <1>2, <1>3, <2>2, <3>1
    <3> QED
        BY <1>1, <3>2, <3>3
  <2> QED
    BY <1>1, <2>1, <2>2
<1>4. ASSUME NEW s \in Known', at'[s] = "update"
      PROVE  /\ found'[s] \in RowsOf(ItemOf(s))' /\ \A m \in RowsOf(ItemOf(s))' : found'[s] <= m
             /\ s \notin raced' => copy'[s] = ~deluxe_table'[found'[s]].is_favorite
  <2>1. s \in Known /\ at[s] = "update" /\ RowsOf(ItemOf(s))' = RowsOf(ItemOf(s))
    BY <1>1, <1>2, <1>4
  <2> QED
    BY <1>1, <2>1 DEF IInv, ToggleInv
<1>5. ASSUME NEW s \in Known', at'[s] = "insert", s \notin raced' PROVE RowsOf(ItemOf(s))' = {}
  <2>1. s \in Known /\ at[s] = "insert" /\ s \notin raced /\ RowsOf(ItemOf(s))' = RowsOf(ItemOf(s))
    BY <1>1, <1>2, <1>5
  <2> QED
    BY <2>1 DEF IInv, ToggleInv
<1> QED
    BY <1>3, <1>4, <1>5 DEF ToggleInv

LEMMA SentLinks ==
    ASSUME IInv, NEW r, NEW op, NEW p, NEW i, NEW l, Sendable(op, p, i, l), Sent(r, op, p, i, l)
    PROVE  LinksInv'
<1>1. /\ Known' = Known \cup {r} /\ reply[r] = "none"
      /\ UNCHANGED <<reply, found, key_token, hc_shared_links, failed>>
    BY DEF Sent
<1>2. /\ TypeOK /\ RequestInv /\ LinksInv
      /\ \A s \in Known : /\ s # r /\ Operation(s)' = Operation(s) /\ ItemOf(s)' = ItemOf(s)
                          /\ LinkOf(s)' = LinkOf(s) /\ at'[s] = at[s] /\ before'[s] = before[s]
                          /\ (Carried(s)' <=> Carried(s))
                          /\ (IsGenerate(s)' <=> IsGenerate(s))
                          /\ (IsRemove(s)' <=> IsRemove(s))
                          /\ (s \in Downloads' <=> s \in Downloads)
    BY SentOthers DEF IInv
<1>3. /\ Operation(r)' = op /\ LinkOf(r)' = l /\ ~Carried(r)' /\ at'[r] # "unanswered"
    BY SentOthers DEF Over
<1>4. LinkInv'
  <2> SUFFICES ASSUME NEW n \in DOMAIN hc_shared_links
               PROVE  LET row == hc_shared_links[n]
                      IN  /\ IsGenerate(row.by)' /\ Carried(row.by)'
                          /\ row.item = ItemOf(row.by)' /\ row.key_token = key_token[row.by]
    BY <1>1 DEF LinkInv, IsGenerate, Carried, ItemOf, Known, Operation
  <2>1. PICK row : row = hc_shared_links[n]
    OBVIOUS
  <2>2. /\ IsGenerate(row.by) /\ Carried(row.by)
        /\ row.item = ItemOf(row.by) /\ row.key_token = key_token[row.by]
    BY <1>2, <2>1 DEF LinksInv, LinkInv
  <2>3. row.by \in Known
    BY <2>2 DEF IsGenerate
  <2>4. requests'[row.by] = requests[row.by] /\ row.by \in Known'
    BY <1>1, <2>3 DEF Sent
  <2> QED
    BY <1>1, <1>2, <2>1, <2>2, <2>3, <2>4 DEF IsGenerate, Carried, ItemOf, Operation
<1>5. RemovedInv'
  <2> SUFFICES ASSUME NEW m \in Known, IsRemove(m), reply[m] = "200", m \notin failed,
                      NEW n \in DOMAIN hc_shared_links, hc_shared_links[n].item = ItemOf(m)
               PROVE  hc_shared_links[n].by \notin before[m]
    BY <1>1, <1>2 DEF RemovedInv
  <2> QED
    BY <1>2 DEF LinksInv, RemovedInv
<1>6. \A m, g \in Known : Removes(m, g) => Removes(m, g)'
    BY <1>1, <1>2 DEF Removes
<1>7. StoredInv'
  <2> SUFFICES ASSUME NEW g \in Known, IsGenerate(g), Carried(g), reply[g] = "200", g \notin failed
               PROVE  \/ \E n \in DOMAIN hc_shared_links : hc_shared_links[n].by = g
                      \/ \E m \in Known : Removes(m, g)'
    BY <1>1, <1>2 DEF StoredInv
  <2> QED
    BY <1>2, <1>6 DEF LinksInv, StoredInv
<1>8. ASSUME NEW d \in Downloads, reply[d] = "200"
      PROVE  d \in Known /\ found[d] \in Known /\ LinkOf(d) \in Known
             /\ IsGenerate(found[d]) /\ Carried(found[d])
    BY <1>2, <1>8 DEF LinksInv, DownloadInv, Downloads, IsGenerate
<1>9. \A d \in Downloads' : d \in Downloads \/ (d = r /\ op = "download_shared")
  <2>1. \A d \in Downloads' : d \in Known' /\ Operation(d)' = "download_shared"
    BY DEF Downloads
  <2> QED
    BY <1>1, <1>2, <1>3, <2>1
<1>10. DownloadInv'
  <2>1. ASSUME NEW g, IsGenerate(g), at[g] = "received"
        PROVE  IsGenerate(g)' /\ at'[g] = "received" /\ g \in Known
    BY <1>1, <1>2, <2>1 DEF IsGenerate
  <2>2. ASSUME NEW d \in Downloads'
        PROVE  /\ IsGenerate(LinkOf(d)') /\ at[LinkOf(d)'] = "received" /\ reply[LinkOf(d)'] = "200"
               /\ reply[d] = "200" => IsGenerate(found[d]) /\ Carried(found[d]) /\ found[d] \in Known
    <3>1. CASE d \in Downloads
      <4>1. LinkOf(d)' = LinkOf(d)
        BY <1>2, <3>1 DEF Downloads
      <4> QED
        BY <1>2, <1>8, <3>1, <4>1 DEF LinksInv, DownloadInv
    <3>2. CASE d = r /\ op = "download_shared"
        BY <1>1, <1>3, <3>2 DEF Sendable
    <3> QED
        BY <1>9, <2>2, <3>1, <3>2
  <2>3. \A g \in Known : (IsGenerate(g) => Operation(g)' = "generate_share_link" /\ g \in Known')
                         /\ (Carried(g) => at'[g] \in Over \cup {"answered"}) /\ at'[g] = at[g]
    BY <1>1, <1>2 DEF IsGenerate, Carried
  <2>4. \A g : IsGenerate(g) => g \in Known
    BY DEF IsGenerate
  <2>5. ASSUME NEW d \in Downloads'
        PROVE  LET g == requests'[d].link
               IN  g \in Known' /\ requests'[g].op = "generate_share_link"
                   /\ at'[g] = "received" /\ reply'[g] = "200"
    BY <1>1, <2>2, <2>3, <2>4 DEF LinkOf, Operation
  <2>6. ASSUME NEW d \in Downloads', reply'[d] = "200"
        PROVE  LET g == found'[d]
               IN  g \in Known' /\ requests'[g].op = "generate_share_link"
                   /\ at'[g] \in Over \cup {"answered"}
    BY <1>1, <2>2, <2>3, <2>4, <2>6 DEF Operation
  <2> QED
    BY <2>5, <2>6 DEF DownloadInv, IsGenerate, Carried, LinkOf, Operation
<1>11. RemovedLinkIsDead'
  <2> SUFFICES ASSUME NEW d \in Downloads, reply[d] = "200"
               PROVE  /\ key_token[found[d]] = key_token[requests'[d].link]
                      /\ \A m \in before'[d] :
                            /\ requests'[m].op = "remove_share_link" /\ reply[m] = "200"
                            /\ found[d] \in before'[m]
                            /\ FileOf(requests'[m].item) = FileOf(requests'[found[d]].item)
                            => m \in failed \/ requests'[m].item # requests'[found[d]].item
    BY <1>1, <1>9 DEF RemovedLinkIsDead, FileOf, ItemOf, LinkOf, Operation
  <2>1. d \in Known /\ found[d] \in Known /\ \A m \in before[d] : m \in Known
    BY <1>2, <1>8, BeforeOver
  <2>2. \A s \in Known : requests'[s] = requests[s] /\ before'[s] = before[s]
    BY <1>2 DEF Sent
  <2>3. /\ key_token[found[d]] = key_token[LinkOf(d)]
        /\ \A m \in before[d] :
              /\ Operation(m) = "remove_share_link" /\ reply[m] = "200"
              /\ found[d] \in before[m]
              /\ FileOf(ItemOf(m)) = FileOf(ItemOf(found[d]))
              => m \in failed \/ ItemOf(m) # ItemOf(found[d])
    BY <1>2 DEF LinksInv, RemovedLinkIsDead
  <2> QED
    BY <2>1, <2>2, <2>3 DEF LinkOf, Operation, ItemOf
<1>12. UnansweredHasCause'
  <2> SUFFICES ASSUME NEW q \in Known, at[q] = "unanswered",
                      ~(Operation(q) = "move_file"),
                      ~(Operation(q) = "move_to_trash" /\ ItemOf(q) # NoItem),
                      ~(Operation(q) = "add_to_favorites" /\ q \in failed)
               PROVE  /\ q \in Downloads
                      /\ \/ q \in failed \/ requests'[q].link \in failed
                         \/ \E m \in Known' :
                               /\ Operation(m)' = "remove_share_link" /\ Carried(m)'
                               /\ (m \notin failed \/ at'[m] = "lost")
                               /\ requests'[m].item = requests'[requests'[q].link].item
                               /\ m \notin before'[requests'[q].link]
    BY <1>1, <1>2, <1>3 DEF UnansweredHasCause, LinkOf, ItemOf, Operation, Carried
  <2>1. /\ q \in Downloads
        /\ \/ q \in failed \/ LinkOf(q) \in failed
           \/ \E m \in Known : Removes(m, LinkOf(q))
    BY <1>2 DEF LinksInv, UnansweredHasCause, Removes, IsRemove
  <2>2. LinkOf(q) \in Known
    BY <1>2, <2>1 DEF LinksInv, DownloadInv, IsGenerate
  <2>3. \A s \in Known : requests'[s] = requests[s] /\ before'[s] = before[s]
    BY <1>2 DEF Sent
  <2> QED
    BY <1>1, <1>2, <2>1, <2>2, <2>3 DEF Removes, IsRemove, LinkOf, ItemOf, Operation
<1> QED
    BY <1>4, <1>5, <1>7, <1>10, <1>11, <1>12 DEF LinksInv

LEMMA SendInv ==
    ASSUME IInv, NEW op, NEW p, NEW i, NEW l, Sendable(op, p, i, l), Send(op, p, i, l)
    PROVE  IInv'
<1>1. PICK r : Sent(r, op, p, i, l)
    BY SendParts DEF Sendable
<1>2. RequestInv' /\ DataInv' /\ CountInv' /\ ToggleInv' /\ LinksInv'
    BY <1>1, SentRequests, SentToggles, SentLinks
<1>3. TypeOK'
  <2>1. TypeOK
    BY DEF IInv
  <2> QED
    BY <1>1, <2>1 DEF TypeOK, Sent, Place
<1> QED
    BY <1>2, <1>3 DEF IInv

LEMMA InitInv == Init => IInv
<1> SUFFICES ASSUME Init PROVE IInv
    OBVIOUS
<1>1. MaxRequests \in Nat /\ 0 \in 0..MaxRequests
    OBVIOUS
<1>2. /\ requests = <<>> /\ deluxe_table = <<>> /\ hc_shared_links = <<>> /\ now = 0
      /\ Known = {} /\ Downloads = {} /\ failed = {} /\ raced = {}
      /\ \A r \in Req : at[r] = "unsent" /\ reply[r] = "none"
  <2>1. requests = <<>>
    BY DEF Init
  <2>2. Known = {}
    BY <2>1 DEF Known
  <2> QED
    BY <2>2 DEF Init, Downloads
<1>3. TypeOK
  <2>1. "unsent" \in Place /\ <<>> \in Seq(BadgeRow) /\ <<>> \in Seq(LinkRow) /\ <<>> \in Seq(Item)
    BY DEF Place
  <2>2. /\ at \in [Req -> Place] /\ reply \in [Req -> {"none", "200", "500", "501", "redirect"}]
        /\ found \in [Req -> 0..MaxRequests] /\ copy \in [Req -> BOOLEAN]
        /\ key_token \in [Req -> 0..MaxRequests] /\ data \in [Req -> Seq(BadgeRow) \cup Seq(LinkRow)]
        /\ before \in [Req -> SUBSET Req]
        /\ file_sys_badge \in [Page -> {Undefined} \cup Seq(BadgeRow)]
        /\ shared_links \in [Page -> Seq(Item)]
    BY <1>1, <2>1 DEF Init
  <2>3. Len(requests) <= MaxRequests
    BY <1>1, <1>2
  <2>4. requests \in Seq([op : OperationType, page : Page \cup {NoPage},
                          item : Item \cup {NoItem}, link : 0..MaxRequests])
    BY <1>2
  <2> QED
    BY <1>1, <1>2, <2>1, <2>2, <2>3, <2>4 DEF TypeOK, Place
<1>4. RequestInv /\ DataInv /\ ToggleInv
    BY <1>2 DEF RequestInv, DataInv, ToggleInv
<1>5. CountInv
  <2>1. /\ {r \in Req : ~Carried(r)} \subseteq Req
        /\ {r \in Req : at[r] \in {"unsent", "generate"}} \subseteq Req
    OBVIOUS
  <2>2. IsFiniteSet(Req) /\ Cardinality(Req) = MaxRequests
    BY <1>1, FS_Interval DEF Req
  <2>3. /\ Cardinality({r \in Req : ~Carried(r)}) <= MaxRequests
        /\ Cardinality({r \in Req : at[r] \in {"unsent", "generate"}}) <= MaxRequests
        /\ Cardinality({r \in Req : ~Carried(r)}) \in Nat
        /\ Cardinality({r \in Req : at[r] \in {"unsent", "generate"}}) \in Nat
    BY <2>1, <2>2, FS_Subset, FS_CardinalityType
  <2>4. Len(deluxe_table) = 0 /\ now = 0
    BY <1>2
  <2> QED
    BY <2>3, <2>4 DEF CountInv
<1>6. LinksInv
  <2>1. DOMAIN hc_shared_links = {}
    BY <1>2
  <2> QED
    BY <1>2, <2>1 DEF LinksInv, LinkInv, RemovedInv, StoredInv, DownloadInv, RemovedLinkIsDead,
                      UnansweredHasCause
<1> QED
    BY <1>3, <1>4, <1>5, <1>6 DEF IInv

\* A step sends a request, or is one of a request that was sent.
LEMMA NextParts ==
    ASSUME IInv, Next
    PROVE  \/ \E op, p, i, l : Sendable(op, p, i, l) /\ Send(op, p, i, l)
           \/ \E r \in Known : Handle(r) /\ UNCHANGED page
           \/ \E r \in Known : ReceiveBadges(r) \/ Receive(r) \/ Lose(r)
<1> DEFINE Sends == \E op, p, i, l : Sendable(op, p, i, l) /\ Send(op, p, i, l)
<1>1. Known \subseteq Req /\ 0 \in 0..MaxRequests
    BY KnownType DEF IInv
<1>2. ASSUME NEW p \in Page, Click(p) PROVE Sends
  <2>1. CASE Load(p)
    <3>1. Sendable("load", p, NoItem, 0)
        BY <1>1 DEF Sendable, OperationType, ForPage
    <3> QED
        BY <2>1, <3>1 DEF Load
  <2>2. ASSUME NEW i \in Item, AddToFavorites(p, i) PROVE Sends
    <3>1. Sendable("add_to_favorites", p, i, 0)
        BY <1>1 DEF Sendable, OperationType, ForPage
    <3> QED
        BY <2>2, <3>1 DEF AddToFavorites
  <2>3. ASSUME NEW i \in Item, Share(p, i) PROVE Sends
    <3>1. PICK op \in {"remove_share_link", "generate_share_link"} :
          Send(op, p, i, 0) /\ (op = "generate_share_link" => ~HasShareLink(p, FileOf(i)))
        BY <2>3 DEF Share
    <3>2. Sendable(op, p, i, 0)
        BY <1>1, <3>1 DEF Sendable, OperationType, ForPage
    <3> QED
        BY <3>1, <3>2
  <2> QED
    BY <1>2, <2>1, <2>2, <2>3 DEF Click
<1>3. ASSUME NEW i \in Item \cup {NoItem}, Delete(i) PROVE Sends
  <2>1. Sendable("move_to_trash", NoPage, i, 0)
    BY <1>1 DEF Sendable, OperationType, ForPage
  <2> QED
    BY <1>3, <2>1 DEF Delete
<1>4. ASSUME MoveFile PROVE Sends
  <2>1. Sendable("move_file", NoPage, NoItem, 0)
    BY <1>1 DEF Sendable, OperationType, ForPage
  <2> QED
    BY <1>4, <2>1 DEF MoveFile
<1>5. ASSUME NEW g \in Known, FollowLink(g) PROVE Sends
  <2>1. g \in 0..MaxRequests
    BY <1>1 DEF Req
  <2>2. Sendable("download_shared", NoPage, NoItem, g)
    BY <1>5, <2>1 DEF Sendable, OperationType, ForPage, FollowLink, IsGenerate
  <2> QED
    BY <1>5, <2>2 DEF FollowLink
<1> HIDE DEF Sends
<1>6. CASE \/ \E p \in Page : Click(p)
           \/ \E i \in Item \cup {NoItem} : Delete(i)
           \/ MoveFile
           \/ \E g \in Known : FollowLink(g)
  <2>1. Sends
    BY <1>2, <1>3, <1>4, <1>5, <1>6
  <2> QED
    BY <2>1 DEF Sends
<1> QED
    BY <1>6 DEF Next

LEMMA NextInv == IInv /\ [Next]_vars => IInv'
<1> SUFFICES ASSUME IInv, [Next]_vars PROVE IInv'
    OBVIOUS
<1>1. CASE UNCHANGED vars
  <2>1. UNCHANGED <<requests, at, reply, found, copy, key_token, now, data, deluxe_table,
                    hc_shared_links, file_sys_badge, shared_links, failed, before, raced>>
    BY <1>1 DEF vars, handler, read, tables, page, history
  <2>2. TypeOK' /\ RequestInv' /\ DataInv' /\ CountInv' /\ ToggleInv'
    BY <2>1 DEF IInv, TypeOK, RequestInv, RequestOK, PlaceOK, DataInv, CountInv, ToggleInv,
                Known, Operation, ItemOf, RowsOf, Carried
  <2>3. LinksInv'
    BY <2>1 DEF IInv, LinksInv, LinkInv, RemovedInv, StoredInv, Removes, DownloadInv,
                RemovedLinkIsDead, UnansweredHasCause, IsGenerate, IsRemove, Downloads,
                LinkOf, Known, Operation, ItemOf, FileOf, Carried
  <2> QED
    BY <2>2, <2>3 DEF IInv
<1>2. CASE Next
    BY <1>2, NextParts, SendInv, HandleInv, ReceiveBadgesInv, ReceiveInv, LoseInv
<1> QED
    BY <1>1, <1>2

-----------------------------------------------------------------------------
(***************************************************************************)
(* deluxe_table implements FavouriteFlags.                                 *)
(***************************************************************************)
Asked    == [r \in Req |-> IF IsToggle(r) THEN ItemOf(r) ELSE NoItem]
Answered == [r \in Req |-> IF ~IsToggle(r) \/ reply[r] = "none" THEN "none"
                           ELSE IF reply[r] = "200" THEN "200" ELSE "other"]
Flag     == [i \in Item |-> IsFavourite(i)]

\* The steps of FavouriteFlags, in these words.
LEMMA FlagsStutter ==
    ASSUME Asked' = Asked, Answered' = Answered, raced' = raced, Flag' = Flag
    PROVE  [Flags!Next]_(Flags!fvars)
BY DEF Flags!fvars, Asked, Answered, Flag

LEMMA FlagsRace ==
    ASSUME raced \subseteq raced', \A s \in raced' \ raced : Asked'[s] # NoItem /\ Answered[s] = "none"
    PROVE  Flags!Race
BY DEF Flags!Race, Asked, Answered

LEMMA FlagsAsk ==
    ASSUME NEW r \in Req, NEW i \in Item, Asked[r] = NoItem, Asked' = [Asked EXCEPT ![r] = i],
           raced \subseteq raced', \A s \in raced' \ raced : Asked'[s] # NoItem /\ Answered[s] = "none",
           Answered' = Answered, Flag' = Flag
    PROVE  Flags!Next
<1>1. Flags!Race
    BY FlagsRace
<1>2. Flags!Ask(r)
    BY <1>1 DEF Flags!Ask, Asked, Answered, Flag
<1> QED
    BY <1>2 DEF Flags!Next

LEMMA FlagsFalter ==
    ASSUME raced \subseteq raced', \A s \in raced' \ raced : Asked'[s] # NoItem /\ Answered[s] = "none",
           Asked' = Asked, Answered' = Answered, Flag' = Flag
    PROVE  [Flags!Next]_(Flags!fvars)
<1>1. CASE raced' = raced
    BY <1>1, FlagsStutter
<1>2. CASE raced' # raced
  <2>1. Flags!Race
    BY FlagsRace
  <2>2. Flags!Falter
    BY <1>2, <2>1 DEF Flags!Falter, Asked, Answered, Flag
  <2> QED
    BY <2>2 DEF Flags!Next
<1> QED
    BY <1>1, <1>2

LEMMA FlagsToggle ==
    ASSUME NEW r \in Req, Asked[r] # NoItem, Answered[r] = "none", NEW b \in BOOLEAN,
           Answered' = [Answered EXCEPT ![r] = "200"],
           r \notin raced => b # Flag[Asked[r]], Flag' = [Flag EXCEPT ![Asked[r]] = b],
           Asked' = Asked, raced' = raced
    PROVE  Flags!Next
<1>1. Flags!Toggle(r)
    BY DEF Flags!Toggle, Flags!Open, Asked, Answered, Flag
<1> QED
    BY <1>1 DEF Flags!Next

LEMMA FlagsRefuse ==
    ASSUME NEW r \in Req, Asked[r] # NoItem, Answered[r] = "none",
           Answered' = [Answered EXCEPT ![r] = "other"],
           Asked' = Asked, raced' = raced, Flag' = Flag
    PROVE  Flags!Next
<1>1. Flags!Refuse(r)
    BY DEF Flags!Refuse, Flags!Open, Asked, Answered, Flag
<1> QED
    BY <1>1 DEF Flags!Next

\* The first row of an item is its flag.
LEMMA FirstRow ==
    ASSUME TypeOK, NEW i, NEW n \in RowsOf(i), \A m \in RowsOf(i) : n <= m
    PROVE  IsFavourite(i) <=> deluxe_table[n].is_favorite
<1>1. \A m \in RowsOf(i) : m \in Nat
    BY TableType DEF RowsOf
<1>2. \A k \in RowsOf(i) : (\A m \in RowsOf(i) : k <= m) => k = n
    BY <1>1
<1> QED
    BY <1>2 DEF IsFavourite

\* A step of one request, seen from FavouriteFlags.
LEMMA StepView ==
    ASSUME TypeOK, NEW r \in Known, UNCHANGED requests, \A s \in Req \ {r} : reply'[s] = reply[s]
    PROVE  /\ Asked' = Asked
           /\ Answered' = [Answered EXCEPT ![r] =
                              IF ~IsToggle(r) \/ reply'[r] = "none" THEN "none"
                              ELSE IF reply'[r] = "200" THEN "200" ELSE "other"]
<1>1. \A s : (IsToggle(s)' <=> IsToggle(s)) /\ ItemOf(s)' = ItemOf(s)
    BY DEF IsToggle, Known, Operation, ItemOf
<1>2. Asked' = Asked
    BY <1>1 DEF Asked
<1>3. r \in Req
    BY KnownType
<1> QED
    BY <1>1, <1>2, <1>3 DEF Answered

LEMMA QuietView ==
    ASSUME TypeOK, NEW r \in Known, UNCHANGED <<requests, deluxe_table, raced>>,
           \A s \in Req \ {r} : reply'[s] = reply[s], ~IsToggle(r) \/ reply'[r] = reply[r]
    PROVE  [Flags!Next]_(Flags!fvars)
<1>1. Asked' = Asked
    BY StepView
<1>2. \A s : IsToggle(s)' <=> IsToggle(s)
    BY DEF IsToggle, Known, Operation
<1>3. Answered' = Answered
    BY <1>2 DEF Answered
<1>4. Flag' = Flag
    BY DEF Flag, IsFavourite, RowsOf
<1> QED
    BY <1>1, <1>3, <1>4, FlagsStutter

\* A toggle under way, in the words of FavouriteFlags.
LEMMA ToggleView ==
    ASSUME IInv, NEW r \in Known, Operation(r) = "add_to_favorites", at[r] \in Busy
    PROVE  /\ IsToggle(r) /\ r \in Req /\ ItemOf(r) \in Item /\ ItemOf(r) # NoItem
           /\ Asked[r] = ItemOf(r) /\ Answered[r] = "none"
<1>1. IsToggle(r) /\ r \in Req /\ ItemOf(r) \in Item /\ reply[r] = "none"
    BY KnownType DEF IInv, RequestInv, RequestOK, ForPage, IsToggle
<1> QED
    BY <1>1 DEF Asked, Answered

LEMMA FindView ==
    ASSUME IInv, NEW r \in Known, FindFavourite(r)
    PROVE  [Flags!Next]_(Flags!fvars)
<1>1. TypeOK /\ at[r] = "find" /\ at[r] \in Busy /\ UNCHANGED <<requests, deluxe_table>>
    BY DEF IInv, FindFavourite, Busy, Checked, sent, tables
<1>2. Operation(r) = "add_to_favorites"
    BY <1>1 DEF IInv, RequestInv, RequestOK, PlaceOK
<1>3. /\ IsToggle(r) /\ r \in Req /\ ItemOf(r) # NoItem
      /\ Asked[r] = ItemOf(r) /\ Answered[r] = "none"
    BY <1>1, <1>2, ToggleView
<1>4. Flag' = Flag
    BY <1>1 DEF Flag, IsFavourite, RowsOf
<1>5. CASE UNCHANGED <<reply, raced>>
    BY <1>1, <1>5, QuietView
<1>6. CASE UNCHANGED reply /\ raced' = raced \cup {r}
  <2>1. Asked' = Asked /\ Answered' = Answered
    BY <1>1, <1>6 DEF Asked, Answered, IsToggle, Known, Operation, ItemOf
  <2> QED
    BY <1>3, <1>4, <1>6, <2>1, FlagsFalter
<1> QED
    BY <1>5, <1>6 DEF FindFavourite, GoTo, Throws

\* The record that is written back, or added, flips the flag of its item.
LEMMA WriteView ==
    ASSUME IInv, NEW r \in Known, UpdateFavourite(r) \/ InsertFavourite(r)
    PROVE  [Flags!Next]_(Flags!fvars)
<1>1. /\ at[r] \in {"update", "insert"} /\ UNCHANGED <<requests, raced>>
      /\ \/ Throws(r) /\ UNCHANGED deluxe_table
         \/ /\ Answer(r, "200")
            /\ \/ /\ at[r] = "update"
                  /\ deluxe_table' = [deluxe_table EXCEPT ![found[r]].is_favorite = copy[r]]
               \/ /\ at[r] = "insert"
                  /\ deluxe_table' = Append(deluxe_table, [item |-> ItemOf(r), is_favorite |-> TRUE])
    BY DEF UpdateFavourite, InsertFavourite, sent
<1>2. TypeOK /\ at[r] \in Busy
    BY <1>1 DEF IInv, Busy
<1>3. Operation(r) = "add_to_favorites"
    BY <1>1 DEF IInv, RequestInv, RequestOK, PlaceOK
<1>4. /\ IsToggle(r) /\ r \in Req /\ ItemOf(r) \in Item /\ ItemOf(r) # NoItem
      /\ Asked[r] = ItemOf(r) /\ Answered[r] = "none"
    BY <1>2, <1>3, ToggleView
<1>6. CASE Throws(r) /\ UNCHANGED deluxe_table
  <2>1. UNCHANGED <<requests, deluxe_table, raced>> /\ reply' = reply
    BY <1>1, <1>6 DEF Throws, GoTo
  <2> QED
    BY <1>2, <2>1, QuietView
<1>7. CASE /\ Answer(r, "200")
           /\ \/ /\ at[r] = "update"
                 /\ deluxe_table' = [deluxe_table EXCEPT ![found[r]].is_favorite = copy[r]]
              \/ /\ at[r] = "insert"
                 /\ deluxe_table' = Append(deluxe_table, [item |-> ItemOf(r), is_favorite |-> TRUE])
  <2>0. reply'[r] = "200" /\ \A s \in Req \ {r} : reply'[s] = reply[s]
    BY <1>2, <1>7, AnswerStep DEF Status
  <2>1. Asked' = Asked /\ Answered' = [Answered EXCEPT ![r] = "200"]
    BY <1>1, <1>2, <1>4, <2>0, <1>7, StepView
  <2>2. ASSUME NEW b \in BOOLEAN, r \notin raced => b = ~IsFavourite(ItemOf(r)),
               IsFavourite(ItemOf(r))' <=> b,
               \A j \in Item \ {ItemOf(r)} : IsFavourite(j)' <=> IsFavourite(j)
        PROVE  Flags!Next
    <3>1. Flag' = [Flag EXCEPT ![ItemOf(r)] = b]
      <4>1. \A j : IsFavourite(j) \in BOOLEAN /\ IsFavourite(j)' \in BOOLEAN
        BY DEF IsFavourite
      <4>2. ItemOf(r)' = ItemOf(r)
        BY <1>1 DEF ItemOf
      <4>3. \A j : j = ItemOf(r) => IsFavourite(j)' = b
        BY <2>2, <4>1, <4>2
      <4>4. \A j \in Item : Flag'[j] = IF j = ItemOf(r) THEN b ELSE Flag[j]
        BY <2>2, <4>1, <4>3 DEF Flag
      <4> QED
        BY <4>4 DEF Flag
    <3>2. r \notin raced => b # Flag[Asked[r]]
        BY <1>4, <2>2 DEF Flag
    <3> QED
        BY <1>1, <1>4, <2>1, <2>2, <3>1, <3>2, FlagsToggle
  <2>3. CASE /\ at[r] = "update"
             /\ deluxe_table' = [deluxe_table EXCEPT ![found[r]].is_favorite = copy[r]]
    <3>1. /\ found[r] \in DOMAIN deluxe_table /\ found[r] \in RowsOf(ItemOf(r))
          /\ deluxe_table[found[r]].item = ItemOf(r) /\ copy[r] \in BOOLEAN
          /\ \A m \in RowsOf(ItemOf(r)) : found[r] <= m
          /\ r \notin raced => copy[r] = ~deluxe_table[found[r]].is_favorite
        BY <1>2, <1>4, <2>3, FoundRow DEF TypeOK, RowsOf
    <3>2. /\ \A i : RowsOf(i)' = RowsOf(i)
          /\ deluxe_table'[found[r]].is_favorite = copy[r]
          /\ \A m \in DOMAIN deluxe_table \ {found[r]} : deluxe_table'[m] = deluxe_table[m]
        BY <1>2, <2>3, <3>1, FlagSet
    <3>3. IsFavourite(ItemOf(r)) <=> deluxe_table[found[r]].is_favorite
        BY <1>2, <3>1, FirstRow
    <3>4. \A i : IsFavourite(i)' <=>
              \E n \in RowsOf(i) : (\A m \in RowsOf(i) : n <= m) /\ deluxe_table'[n].is_favorite
        BY <3>2 DEF IsFavourite
    <3>5. IsFavourite(ItemOf(r))' <=> copy[r]
      <4>1. \A m \in RowsOf(ItemOf(r)) : m \in Nat
        BY <1>2, TableType DEF RowsOf
      <4>2. \A k \in RowsOf(ItemOf(r)) : (\A m \in RowsOf(ItemOf(r)) : k <= m) => k = found[r]
        BY <3>1, <4>1
      <4>3. ItemOf(r)' = ItemOf(r)
        BY <1>1 DEF ItemOf
      <4>4. (\E n \in RowsOf(ItemOf(r)) :
                (\A m \in RowsOf(ItemOf(r)) : n <= m) /\ deluxe_table'[n].is_favorite) <=> copy[r]
        BY <3>1, <3>2, <4>2
      <4> QED
        BY <3>4, <4>3, <4>4
    <3>6. ASSUME NEW j \in Item \ {ItemOf(r)} PROVE IsFavourite(j)' <=> IsFavourite(j)
      <4>1. \A n \in RowsOf(j) : deluxe_table'[n] = deluxe_table[n]
        BY <3>1, <3>2 DEF RowsOf
      <4> QED
        BY <3>4, <4>1 DEF IsFavourite
    <3> QED
        BY <2>2, <3>1, <3>3, <3>5, <3>6
  <2>4. CASE /\ at[r] = "insert"
             /\ deluxe_table' = Append(deluxe_table, [item |-> ItemOf(r), is_favorite |-> TRUE])
    <3> DEFINE size == Len(deluxe_table)
    <3>1. /\ \A j : RowsOf(j)' = IF j = ItemOf(r) THEN RowsOf(j) \cup {size + 1} ELSE RowsOf(j)
          /\ \A m \in DOMAIN deluxe_table :
                m \in Nat /\ m < size + 1 /\ deluxe_table'[m] = deluxe_table[m]
          /\ deluxe_table'[size + 1].is_favorite = TRUE /\ size \in Nat
        BY <1>2, <1>4, <2>4, RowAdded, TableType
    <3>2. r \notin raced => RowsOf(ItemOf(r)) = {}
        BY <2>4 DEF IInv, ToggleInv
    <3> HIDE DEF size
    <3>3. \A i : IsFavourite(i)' <=>
              \E n \in RowsOf(i)' : (\A m \in RowsOf(i)' : n <= m) /\ deluxe_table'[n].is_favorite
        BY DEF IsFavourite
    <3>4. ItemOf(r)' = ItemOf(r)
        BY <1>1 DEF ItemOf
    <3>5. r \notin raced => (IsFavourite(ItemOf(r))' <=> TRUE) /\ ~IsFavourite(ItemOf(r))
      <4> SUFFICES ASSUME r \notin raced
                   PROVE  IsFavourite(ItemOf(r))' /\ ~IsFavourite(ItemOf(r))
        OBVIOUS
      <4>1. RowsOf(ItemOf(r)) = {}
        BY <3>2
      <4>2. \A i : i = ItemOf(r) => RowsOf(i)' = {size + 1}
        BY <3>1, <4>1
      <4>3. size + 1 <= size + 1
        BY <3>1
      <4>4. \A i : i = ItemOf(r) => IsFavourite(i)'
        BY <3>1, <3>3, <4>2, <4>3
      <4>5. ~IsFavourite(ItemOf(r))
        BY <4>1 DEF IsFavourite
      <4> QED
        BY <3>4, <4>4, <4>5
    <3>6. ASSUME NEW j \in Item \ {ItemOf(r)} PROVE IsFavourite(j)' <=> IsFavourite(j)
      <4>1. RowsOf(j)' = RowsOf(j) /\ \A n \in RowsOf(j) : deluxe_table'[n] = deluxe_table[n]
        BY <3>1 DEF RowsOf
      <4> QED
        BY <3>3, <4>1 DEF IsFavourite
    <3>7. PICK b \in BOOLEAN : IsFavourite(ItemOf(r))' <=> b
        OBVIOUS
    <3> QED
        BY <2>2, <3>5, <3>6, <3>7
  <2> QED
    BY <1>1, <1>7, <2>3, <2>4
<1> QED
    BY <1>1, <1>6, <1>7

LEMMA HandleView ==
    ASSUME IInv, NEW r \in Known, Handle(r)
    PROVE  [Flags!Next]_(Flags!fvars)
<1>1. TypeOK
    BY DEF IInv
<1>2. ASSUME NEW status \in Status, Answer(r, status) \/ (reply' = reply)
      PROVE  \A s \in Req \ {r} : reply'[s] = reply[s]
    BY <1>1, <1>2, AnswerStep
<1>3. CASE Refuse(r)
  <2>1. /\ at[r] \in Busy /\ Answer(r, "redirect") /\ UNCHANGED <<requests, raced, deluxe_table>>
    BY <1>3 DEF Refuse, Busy, sent, tables
  <2>2. reply'[r] = "redirect" /\ \A s \in Req \ {r} : reply'[s] = reply[s]
    BY <1>1, <2>1, AnswerStep DEF Status
  <2>3. CASE ~IsToggle(r)
    BY <1>1, <2>1, <2>2, <2>3, QuietView
  <2>4. CASE IsToggle(r)
    <3>1. /\ r \in Req /\ ItemOf(r) # NoItem /\ Asked[r] = ItemOf(r) /\ Answered[r] = "none"
        BY <2>1, <2>4, ToggleView DEF IsToggle
    <3>2. Asked' = Asked /\ Answered' = [Answered EXCEPT ![r] = "other"]
        BY <1>1, <2>1, <2>2, <2>4, StepView
    <3>3. Flag' = Flag
        BY <2>1 DEF Flag, IsFavourite, RowsOf
    <3> QED
        BY <2>1, <3>1, <3>2, <3>3, FlagsRefuse
  <2> QED
    BY <2>3, <2>4
<1>4. CASE FindFavourite(r) \/ UpdateFavourite(r) \/ InsertFavourite(r)
    BY <1>4, FindView, WriteView
<1>5. ASSUME at[r] \notin {"find", "update", "insert"}, at[r] \in Busy,
             UNCHANGED <<requests, raced, deluxe_table>>,
             reply' = reply \/ \E status \in Status : Answer(r, status)
      PROVE  [Flags!Next]_(Flags!fvars)
  <2>1. ~IsToggle(r)
    BY <1>5 DEF IInv, RequestInv, RequestOK, PlaceOK, IsToggle, Busy, Checked
  <2>2. \A s \in Req \ {r} : reply'[s] = reply[s]
    BY <1>1, <1>5, AnswerStep
  <2> QED
    BY <1>1, <1>5, <2>1, <2>2, QuietView
<1>6. CASE Trash(r) \/ Ignore(r) \/ Generate(r) \/ InsertLink(r)
  <2>1. /\ at[r] \notin {"find", "update", "insert"} /\ at[r] \in Busy
        /\ UNCHANGED <<requests, raced, deluxe_table>>
        /\ reply' = reply \/ \E status \in Status : Answer(r, status)
    BY <1>6 DEF Trash, Ignore, Generate, InsertLink, GoTo, Busy, Checked, Status, sent, tables
  <2> QED
    BY <1>5, <2>1
<1>7. CASE DeleteLinks(r) \/ Follow(r) \/ ListBadges(r) \/ ListLinks(r)
  <2>1. /\ at[r] \notin {"find", "update", "insert"} /\ at[r] \in Busy
        /\ UNCHANGED <<requests, raced, deluxe_table>>
        /\ reply' = reply \/ \E status \in Status : Answer(r, status)
    BY <1>7 DEF DeleteLinks, Follow, ListBadges, ListLinks, List, GoTo, Throws, Busy, Checked, Status,
                sent, tables
  <2> QED
    BY <1>5, <2>1
<1> QED
    BY <1>3, <1>4, <1>6, <1>7 DEF Handle

LEMMA AnsweredView ==
    ASSUME IInv, NEW r \in Known, ReceiveBadges(r) \/ Receive(r) \/ Lose(r)
    PROVE  [Flags!Next]_(Flags!fvars)
<1>1. TypeOK /\ r \in Req
    BY KnownType DEF IInv
<1>2. UNCHANGED <<requests, deluxe_table, raced>>
    BY DEF ReceiveBadges, Receive, Lose, sent, tables
<1>3. CASE ReceiveBadges(r)
  <2>1. ~IsToggle(r)
    BY <1>3 DEF ReceiveBadges, IInv, RequestInv, RequestOK, PlaceOK, IsToggle
  <2>2. reply' = [reply EXCEPT ![r] = "none"]
    BY <1>3 DEF ReceiveBadges
  <2>3. \A s \in Req \ {r} : reply'[s] = reply[s]
    BY <1>1, <2>2 DEF TypeOK
  <2> QED
    BY <1>1, <1>2, <2>1, <2>3, QuietView
<1>4. CASE Receive(r) \/ Lose(r)
  <2>1. reply' = reply
    BY <1>4 DEF Receive, Lose, GoTo
  <2> QED
    BY <1>1, <1>2, <2>1, QuietView
<1> QED
    BY <1>3, <1>4

LEMMA SendView ==
    ASSUME IInv, NEW op, NEW p, NEW i, NEW l, Sendable(op, p, i, l), Send(op, p, i, l)
    PROVE  [Flags!Next]_(Flags!fvars)
<1>1. PICK r : Sent(r, op, p, i, l)
    BY SendParts DEF Sendable
<1>2. /\ r \in Req /\ r \notin Known /\ Known' = Known \cup {r} /\ reply[r] = "none"
      /\ UNCHANGED <<reply, deluxe_table>> /\ raced \subseteq raced'
      /\ \A s \in raced' \ raced : op = "add_to_favorites" /\ s \in Toggling(i) \cup {r}
    BY <1>1 DEF Sent
<1>3. /\ Known \subseteq Req /\ Operation(r)' = op /\ ItemOf(r)' = i
      /\ \A s \in Known : s # r /\ Operation(s)' = Operation(s) /\ ItemOf(s)' = ItemOf(s)
    BY <1>1, SentOthers
<1>4. \A s \in Req \ {r} : (IsToggle(s)' <=> IsToggle(s)) /\ (IsToggle(s) => ItemOf(s)' = ItemOf(s))
    BY <1>2, <1>3 DEF IsToggle
<1>5. ~IsToggle(r) /\ (IsToggle(r)' <=> op = "add_to_favorites")
    BY <1>2, <1>3 DEF IsToggle
<1>6. Flag' = Flag
    BY <1>2 DEF Flag, IsFavourite, RowsOf
<1>7. Answered' = Answered
    BY <1>2, <1>4, <1>5 DEF Answered
<1>8. /\ \A s \in Req \ {r} : Asked'[s] = Asked[s]
      /\ Asked[r] = NoItem
      /\ op = "add_to_favorites" => Asked'[r] = i
      /\ op # "add_to_favorites" => Asked'[r] = NoItem
    BY <1>2, <1>3, <1>4, <1>5 DEF Asked
<1>9. CASE op # "add_to_favorites"
  <2>1. Asked' = Asked
    BY <1>8, <1>9 DEF Asked
  <2>2. raced' = raced
    BY <1>2, <1>9
  <2> QED
    BY <1>6, <1>7, <2>1, <2>2, FlagsStutter
<1>10. CASE op = "add_to_favorites"
  <2>1. i \in Item /\ i # NoItem
    BY <1>10 DEF Sendable, ForPage
  <2>2. Asked' = [Asked EXCEPT ![r] = i]
    BY <1>2, <1>8, <1>10 DEF Asked
  <2>3. ASSUME NEW s \in raced' \ raced PROVE Asked'[s] # NoItem /\ Answered[s] = "none"
    <3>1. CASE s = r
        BY <1>2, <1>5, <1>8, <1>10, <2>1, <3>1 DEF Answered
    <3>2. CASE s \in Toggling(i)
      <4>1. s \in Known /\ Operation(s) = "add_to_favorites" /\ at[s] \in Busy
        BY <3>2 DEF Toggling
      <4>2. s # r /\ s \in Req /\ ItemOf(s) # NoItem /\ Asked[s] = ItemOf(s) /\ Answered[s] = "none"
        BY <1>3, <4>1, ToggleView
      <4> QED
        BY <1>8, <4>2
    <3> QED
        BY <1>2, <2>3, <3>1, <3>2
  <2> QED
    BY <1>2, <1>6, <1>7, <1>8, <2>1, <2>2, <2>3, FlagsAsk
<1> QED
    BY <1>9, <1>10

LEMMA FlagsInit == Init => Flags!Init
<1> SUFFICES ASSUME Init PROVE Flags!Init
    OBVIOUS
<1>1. requests = <<>> /\ raced = {} /\ DOMAIN deluxe_table = {}
    BY DEF Init
<1>2. \A r : ~IsToggle(r)
    BY <1>1 DEF IsToggle, Known
<1>3. \A i : IsFavourite(i) = FALSE
    BY <1>1 DEF IsFavourite, RowsOf
<1> QED
    BY <1>1, <1>2, <1>3 DEF Flags!Init

LEMMA FlagsNext == IInv /\ [Next]_vars => [Flags!Next]_(Flags!fvars)
<1> SUFFICES ASSUME IInv, [Next]_vars PROVE [Flags!Next]_(Flags!fvars)
    OBVIOUS
<1>1. CASE UNCHANGED vars
  <2>1. UNCHANGED <<requests, reply, deluxe_table, raced>>
    BY <1>1 DEF vars, handler, tables, history
  <2>2. Asked' = Asked /\ Answered' = Answered /\ Flag' = Flag
    BY <2>1 DEF Asked, Answered, Flag, IsToggle, Known, Operation, ItemOf, IsFavourite, RowsOf
  <2> QED
    BY <2>1, <2>2, FlagsStutter
<1>2. CASE Next
    BY <1>2, NextParts, SendView, HandleView, AnsweredView
<1> QED
    BY <1>1, <1>2

-----------------------------------------------------------------------------
(***************************************************************************)
(* Theorems.                                                               *)
(***************************************************************************)

\* The invariant that the others rest on: where each request is and what its
\* handler has read, what the tables hold of it, and which toggles race.
THEOREM PageInvariant == Spec => []IInv
BY InitInv, NextInv, PTL DEF Spec

\* Every variable of the pages, the requests and the tables keeps its type,
\* with the clock and the rows within the bound on requests.
THEOREM TypeCorrect == Spec => []TypeOK
<1>1. IInv => TypeOK
    BY DEF IInv
<1> QED
    BY <1>1, PageInvariant, PTL

\* A link opens the file it was made for, and not after the removal of
\* remove_share_link that followed it was answered 200, but for the exceptions
\* that RemovedLinkIsDead names.
THEOREM RemovedCorrect == Spec => []RemovedLinkIsDead
<1>1. IInv => RemovedLinkIsDead
    BY DEF IInv, LinksInv
<1> QED
    BY <1>1, PageInvariant, PTL

\* A request of deluxerequest or download_shared is only left without an answer
\* for one of the causes that the code leaves without one.
THEOREM UnansweredExplained == Spec => []UnansweredHasCause
<1>1. IInv => UnansweredHasCause
    BY DEF IInv, LinksInv
<1> QED
    BY <1>1, PageInvariant, PTL

\* Favourites: the first row of an item is a flag that each toggle answered 200
\* flips exactly once and no other answer touches, unless the toggle raced.
THEOREM Refinement == Spec => ImplementsFavourites
BY FlagsInit, FlagsNext, PageInvariant, PTL DEF Spec, ImplementsFavourites, Flags!Spec
=============================================================================
