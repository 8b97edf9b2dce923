------------------------- MODULE WebSessionsProofs -------------------------
(***************************************************************************)
(* Cookies, refusals and types of WebSessions for every set of browsers    *)
(* and every number of requests.                                           *)
(***************************************************************************)
EXTENDS WebSessions, TLAPS

\* The sessions whose absence from the table has an explanation, and those in it.
Known == sessions_table \cup deleted \cup failed

\* What a request not yet sent looks like.
UnsentInv ==
    \A r \in Req : r > sent => at[r] = "unsent" /\ reply[r] = "none"

\* Which servlet a request in flight is for, and with what.
PlaceInv ==
    \A r \in Req :
        /\ at[r] = "lookup" => servlet[r] \in {"logout", "api", "page"}
        /\ at[r] = "delete" => servlet[r] = "logout" /\ carried[r] # NoSession

\* Cookies, on their way to the browser, in it, and on their way back.
CookieInv ==
    \A r \in Req :
        /\ reply[r] = "OK" => r \in Known
        /\ carried[r] # NoSession => carried[r] \in Known

IInv ==
    /\ TypeOK
    /\ UnsentInv
    /\ PlaceInv
    /\ CookieInv
    /\ CookieNamesSession
    /\ RefusalHasCause

USE WebSessionsAssumption

LEMMA InitInv == Init => IInv
BY DEF Init, IInv, TypeOK, UnsentInv, PlaceInv, CookieInv, CookieNamesSession,
       RefusalHasCause, Req, InFlight

\* A session that was explained stays explained.
LEMMA SendInv ==
    ASSUME IInv, NEW b \in Browser, NEW s \in {"login", "logout", "api", "page"}, Send(b, s)
    PROVE  IInv'
<1>1. sent + 1 \in Req /\ sent < sent + 1
    BY DEF IInv, TypeOK, Send, Req
<1>2. /\ at' = [at EXCEPT ![sent + 1] = IF s = "login" THEN "credentials" ELSE "lookup"]
      /\ reply[sent + 1] = "none"
      /\ cookie[b] # NoSession => cookie[b] \in Known
    BY <1>1 DEF IInv, UnsentInv, CookieNamesSession, Send, GoTo, Known
<1>3. TypeOK'
    BY <1>1, <1>2 DEF IInv, TypeOK, Send, GoTo, Req, InFlight
<1>4. UnsentInv'
    BY <1>1, <1>2 DEF IInv, TypeOK, UnsentInv, Send, GoTo, Req
<1>5. PlaceInv'
    BY <1>1, <1>2 DEF IInv, TypeOK, PlaceInv, Send, GoTo
<1>6. CookieInv'
    BY <1>1, <1>2 DEF IInv, TypeOK, CookieInv, Known, Send, GoTo
<1>7. CookieNamesSession'
    BY DEF IInv, CookieNamesSession, Send
<1>8. RefusalHasCause'
    BY <1>1, <1>2 DEF IInv, TypeOK, RefusalHasCause, Send, GoTo
<1> QED BY <1>3, <1>4, <1>5, <1>6, <1>7, <1>8 DEF IInv

LEMMA CheckCredentialsInv ==
    ASSUME IInv, NEW r \in Req, CheckCredentials(r) PROVE IInv'
<1>1. /\ \/ at' = [at EXCEPT ![r] = "insert"] /\ reply' = reply
         \/ at' = [at EXCEPT ![r] = "answered"] /\ reply' = [reply EXCEPT ![r] = "401"]
      /\ at[r] = "credentials"
    BY DEF CheckCredentials, GoTo, Answer
<1>2. TypeOK' /\ UnsentInv' /\ PlaceInv'
    BY <1>1, ZenonT(30) DEF IInv, TypeOK, UnsentInv, PlaceInv, CheckCredentials, request, InFlight, Req
<1>3. CookieInv' /\ CookieNamesSession' /\ RefusalHasCause'
    BY <1>1 DEF IInv, TypeOK, CookieInv, CookieNamesSession, RefusalHasCause, Known,
                CheckCredentials, request
<1> QED BY <1>2, <1>3 DEF IInv

LEMMA InsertSessionInv ==
    ASSUME IInv, NEW r \in Req, InsertSession(r) PROVE IInv'
<1>1. /\ Known \subseteq Known' /\ deleted' = deleted /\ failed \subseteq failed'
      /\ r \in sessions_table' \cup failed'
      /\ at[r] = "insert"
    BY DEF InsertSession, Fails, Succeeds, Known
<1>2. TypeOK' /\ UnsentInv' /\ PlaceInv'
    BY ZenonT(30) DEF IInv, TypeOK, UnsentInv, PlaceInv, InsertSession, Answer, GoTo, Fails, Succeeds,
           request, InFlight, Req
<1>3. CookieInv' /\ CookieNamesSession'
    BY <1>1 DEF IInv, TypeOK, CookieInv, CookieNamesSession, Known, InsertSession, Answer,
                GoTo, request
<1>4. RefusalHasCause'
    BY <1>1 DEF IInv, TypeOK, RefusalHasCause, InsertSession, Answer, GoTo, request
<1> QED BY <1>2, <1>3, <1>4 DEF IInv

LEMMA LookUpInv ==
    ASSUME IInv, NEW r \in Req, LookUp(r) PROVE IInv'
<1>1. at[r] = "lookup" /\ servlet[r] \in {"logout", "api", "page"}
    BY DEF IInv, PlaceInv, LookUp
<1>2. NoSession \notin sessions_table
    BY DEF IInv, TypeOK, Req
<1>3. CASE carried[r] \in sessions_table /\ Accepted(r) /\ Succeeds(r)
    <2>1. TypeOK' /\ UnsentInv' /\ PlaceInv'
        BY <1>1, <1>2, <1>3, ZenonT(30) DEF IInv, TypeOK, UnsentInv, PlaceInv, LookUp, Accepted, Succeeds,
                                Answer, GoTo, request, InFlight, Req
    <2>2. CookieInv' /\ CookieNamesSession' /\ RefusalHasCause'
        BY <1>1, <1>3 DEF IInv, TypeOK, CookieInv, CookieNamesSession, RefusalHasCause, Known,
                          LookUp, Accepted, Succeeds, Answer, GoTo, request
    <2> QED BY <2>1, <2>2 DEF IInv
<1>4. CASE /\ Rejected(r) /\ failed \subseteq failed' /\ failed' \subseteq Req
           /\ carried[r] \in {NoSession} \cup deleted \cup failed \/ r \in failed'
    <2>1. /\ at' = [at EXCEPT ![r] = "unanswered"] /\ reply' = reply
          \/ /\ at' = [at EXCEPT ![r] = "answered"]
             /\ \/ reply' = [reply EXCEPT ![r] = "redirect"]
                \/ reply' = [reply EXCEPT ![r] = "invalid"]
                \/ reply' = [reply EXCEPT ![r] = "500"] /\ servlet[r] = "logout"
        BY <1>1, <1>4 DEF Rejected, Answer, GoTo
    <2>2. TypeOK' /\ UnsentInv' /\ PlaceInv'
        BY <1>1, <1>4, <2>1, ZenonT(30) DEF IInv, TypeOK, UnsentInv, PlaceInv, LookUp, request, InFlight, Req
    <2>3. CookieInv' /\ CookieNamesSession'
        BY <1>4, <2>1 DEF IInv, TypeOK, CookieInv, CookieNamesSession, Known, LookUp, request
    <2>4. RefusalHasCause'
        BY <1>4, <2>1 DEF IInv, TypeOK, RefusalHasCause, LookUp, request
    <2> QED BY <2>2, <2>3, <2>4 DEF IInv
<1>5. CASE carried[r] \notin sessions_table /\ Rejected(r) /\ Succeeds(r)
    <2>1. carried[r] \in {NoSession} \cup deleted \cup failed
        BY <1>5 DEF IInv, CookieInv, Known
    <2> QED BY <1>4, <1>5, <2>1 DEF Succeeds, IInv, TypeOK
<1>6. CASE Rejected(r) /\ Fails(r)
    BY <1>4, <1>6 DEF Fails, IInv, TypeOK
<1> QED BY <1>3, <1>5, <1>6 DEF LookUp

LEMMA DeleteSessionInv ==
    ASSUME IInv, NEW r \in Req, DeleteSession(r) PROVE IInv'
<1>1. servlet[r] = "logout" /\ carried[r] \in Req /\ at[r] = "delete"
    BY DEF IInv, TypeOK, PlaceInv, DeleteSession
<1>2. Known \subseteq Known' /\ deleted \subseteq deleted' /\ failed \subseteq failed'
    BY DEF DeleteSession, Fails, Succeeds, Known
<1>3. TypeOK' /\ UnsentInv' /\ PlaceInv'
    BY <1>1 DEF IInv, TypeOK, UnsentInv, PlaceInv, DeleteSession, Answer, Fails, Succeeds,
                request, InFlight, Req
<1>4. CookieInv' /\ CookieNamesSession'
    BY <1>2 DEF IInv, TypeOK, CookieInv, CookieNamesSession, Known, DeleteSession, Answer,
                request
<1>5. RefusalHasCause'
    BY <1>1, <1>2 DEF IInv, TypeOK, RefusalHasCause, DeleteSession, Answer, request
<1> QED BY <1>3, <1>4, <1>5 DEF IInv

LEMMA ReceiveInv ==
    ASSUME IInv, NEW r \in Req, Receive(r) PROVE IInv'
<1>1. at[r] = "answered" /\ at' = [at EXCEPT ![r] = "received"] /\ reply' = reply
    BY DEF Receive, GoTo
<1>2. \/ reply[r] = "OK" /\ cookie' = [cookie EXCEPT ![from[r]] = r]
      \/ cookie' = [cookie EXCEPT ![from[r]] = NoSession]
      \/ cookie' = cookie
    BY DEF Receive
<1>3. TypeOK' /\ UnsentInv' /\ PlaceInv'
    BY <1>1, <1>2 DEF IInv, TypeOK, UnsentInv, PlaceInv, Receive, request, InFlight, Req
<1>4. CookieInv' /\ RefusalHasCause'
    BY <1>1 DEF IInv, CookieInv, RefusalHasCause, Known, Receive, request
<1>5. CookieNamesSession'
    BY <1>2 DEF IInv, TypeOK, CookieInv, CookieNamesSession, Known, Receive
<1> QED BY <1>3, <1>4, <1>5 DEF IInv

LEMMA LoseInv ==
    ASSUME IInv, NEW r \in Req, Lose(r) PROVE IInv'
BY DEF IInv, TypeOK, UnsentInv, PlaceInv, CookieInv, CookieNamesSession, RefusalHasCause,
       Known, Lose, GoTo, request, InFlight, Req

LEMMA CrashInv ==
    ASSUME IInv, Crash PROVE IInv'
BY DEF IInv, TypeOK, UnsentInv, PlaceInv, CookieInv, CookieNamesSession, RefusalHasCause,
       Known, Crash, request, InFlight, Req

LEMMA NextInv == IInv /\ [Next]_vars => IInv'
<1> SUFFICES ASSUME IInv, [Next]_vars PROVE IInv'
    OBVIOUS
<1>1. CASE UNCHANGED vars
    BY <1>1 DEF IInv, TypeOK, UnsentInv, PlaceInv, CookieInv, CookieNamesSession,
                RefusalHasCause, Known, vars, request
<1>2. CASE Next
    BY <1>2, SendInv, CheckCredentialsInv, InsertSessionInv, LookUpInv, DeleteSessionInv,
       ReceiveInv, LoseInv, CrashInv DEF Next, Handle
<1> QED BY <1>1, <1>2

\* The inductive invariant of WebSessions.
THEOREM SessionsInvariant == Spec => []IInv
BY InitInv, NextInv, PTL DEF Spec

\* Every variable keeps its type; in particular a logout deletes a session, and
\* never the lack of one.
THEOREM TypeCorrect == Spec => []TypeOK
BY SessionsInvariant, PTL DEF IInv

\* However answers cross, a cookie names a session of the table, a deleted one,
\* or one whose insert could not connect.
THEOREM CookiesCorrect == Spec => []CookieNamesSession
BY SessionsInvariant, PTL DEF IInv

\* No browser is told without a cause that it has no session.
THEOREM RefusalsExplained == Spec => []RefusalHasCause
BY SessionsInvariant, PTL DEF IInv

-----------------------------------------------------------------------------
(***************************************************************************)
(* Orphaned sessions.                                                      *)
(***************************************************************************)

\* Where the login of a session is: done with if the session is in the table,
\* and before it the session is nowhere.
LoginInv ==
    \A s \in Req :
        /\ s \in sessions_table => reply[s] = "OK" /\ at[s] \in {"answered", "lost", "received"}
        /\ at[s] \in {"unsent", "credentials", "insert"} => s \notin Known

\* A redirect answered to a request whose session is still there: a call failed.
RedirectInv ==
    \A r \in Req : reply[r] = "redirect" /\ carried[r] \in sessions_table => r \in failed

\* A cookie comes from a login of that browser.
OwnerInv ==
    \A b \in Browser : cookie[b] # NoSession =>
        from[cookie[b]] = b /\ at[cookie[b]] = "received"

JInv == LoginInv /\ RedirectInv /\ OwnerInv /\ OrphanHasCause

LEMMA InitOrphan == Init => JInv
BY DEF Init, JInv, LoginInv, RedirectInv, OwnerInv, OrphanHasCause, Known, Req

\* A step in which no answer arrives and no session is inserted.
Quiet ==
    /\ UNCHANGED cookie
    /\ sessions_table' \subseteq sessions_table
    /\ failed \subseteq failed'
    /\ \A r \in Req : at[r] \in {"answered", "received", "lost"} =>
            /\ from'[r] = from[r]
            /\ carried'[r] = carried[r]
            /\ reply'[r] = reply[r]
            /\ at'[r] = at[r] \/ (at[r] = "answered" /\ at'[r] = "lost")

\* Such a step orphans no session.
LEMMA KeepsOrphan == ASSUME IInv, JInv, IInv', Quiet PROVE OrphanHasCause'
<1> SUFFICES ASSUME NEW s \in sessions_table'
             PROVE  \/ \E b \in Browser : cookie'[b] = s
                    \/ at'[s] \in {"answered", "lost"}
                    \/ \E r \in Req : Parted(r, s)'
    BY DEF OrphanHasCause
<1>1. s \in Req /\ s \in sessions_table /\ at[s] \in {"answered", "lost", "received"}
    BY DEF IInv, TypeOK, JInv, LoginInv, Quiet
<1>2. CASE \E b \in Browser : cookie[b] = s
    BY <1>2 DEF Quiet
<1>3. CASE at[s] \in {"answered", "lost"}
    BY <1>1, <1>3 DEF Quiet
<1>4. CASE \E r \in Req : Parted(r, s)
    <2>1. PICK r \in Req : Parted(r, s)
        BY <1>4
    <2>2. Parted(r, s)'
        BY <1>1, <2>1 DEF Parted, Quiet
    <2> QED BY <2>2
<1> QED BY <1>1, <1>2, <1>3, <1>4 DEF JInv, OrphanHasCause

LEMMA SendOrphan ==
    ASSUME IInv, IInv', JInv, NEW b \in Browser,
           NEW k \in {"login", "logout", "api", "page"}, Send(b, k)
    PROVE  JInv'
<1>1. sent + 1 \in Req /\ sent < sent + 1
    BY DEF IInv, TypeOK, Send, Req
<1>2. /\ at[sent + 1] = "unsent" /\ reply[sent + 1] = "none" /\ sent + 1 \notin Known
      /\ at' = [at EXCEPT ![sent + 1] = IF k = "login" THEN "credentials" ELSE "lookup"]
      /\ reply' = reply /\ from' = [from EXCEPT ![sent + 1] = b]
      /\ carried' = [carried EXCEPT ![sent + 1] = cookie[b]]
      /\ UNCHANGED <<sessions_table, cookie, failed, deleted>>
    BY <1>1 DEF IInv, UnsentInv, JInv, LoginInv, Send, GoTo
<1>3. OrphanHasCause'
    <2>1. \A r \in Req \ {sent + 1} :
            at'[r] = at[r] /\ from'[r] = from[r] /\ carried'[r] = carried[r]
        BY <1>1, <1>2 DEF IInv, TypeOK
    <2>2. Quiet
        BY <1>1, <1>2, <2>1 DEF Quiet
    <2> QED BY <2>2, KeepsOrphan
<1>4. LoginInv' /\ RedirectInv'
    BY <1>1, <1>2 DEF IInv, TypeOK, JInv, LoginInv, RedirectInv, Known
<1>5. OwnerInv'
    BY <1>1, <1>2 DEF IInv, TypeOK, JInv, OwnerInv
<1> QED BY <1>3, <1>4, <1>5 DEF JInv

\* A handler that leaves sessions_table alone, or deletes a session.
LEMMA HandleOrphan ==
    ASSUME IInv, IInv', JInv, NEW r \in Req,
           CheckCredentials(r) \/ LookUp(r) \/ DeleteSession(r) \/ Lose(r)
    PROVE  JInv'
<1>1. /\ at[r] \in {"credentials", "lookup", "delete", "answered"}
      /\ UNCHANGED <<request, cookie>>
      /\ sessions_table' \subseteq sessions_table
      /\ failed \subseteq failed' /\ failed' \subseteq failed \cup {r}
      /\ sessions_table \subseteq sessions_table' \cup deleted'
      /\ deleted' \subseteq deleted \cup sessions_table \cup {carried[r]}
      /\ deleted \subseteq deleted'
    BY DEF CheckCredentials, LookUp, DeleteSession, Lose, Fails, Succeeds
<1>2. \/ /\ at[r] = "credentials" /\ failed' = failed /\ deleted' = deleted
         /\ at' = [at EXCEPT ![r] = "insert"] /\ reply' = reply
      \/ /\ at[r] = "credentials" /\ failed' = failed /\ deleted' = deleted
         /\ at' = [at EXCEPT ![r] = "answered"] /\ reply' = [reply EXCEPT ![r] = "401"]
      \/ /\ at[r] \in {"lookup", "delete"}
         /\ \E x \in {"delete", "unanswered"} : at' = [at EXCEPT ![r] = x]
         /\ reply' = reply
      \/ /\ at[r] \in {"lookup", "delete"}
         /\ at' = [at EXCEPT ![r] = "answered"]
         /\ \E x \in {"valid", "invalid", "500"} : reply' = [reply EXCEPT ![r] = x]
      \/ /\ at[r] \in {"lookup", "delete"}
         /\ at' = [at EXCEPT ![r] = "answered"] /\ reply' = [reply EXCEPT ![r] = "redirect"]
         /\ carried[r] \in sessions_table' => r \in failed'
      \/ /\ at[r] = "answered" /\ failed' = failed /\ deleted' = deleted
         /\ at' = [at EXCEPT ![r] = "lost"] /\ reply' = reply
    <2>1. CASE CheckCredentials(r)
        BY <2>1 DEF CheckCredentials, GoTo, Answer
    <2>2. CASE LookUp(r)
        <3>1. servlet[r] \in {"logout", "api", "page"}
            BY <2>2 DEF LookUp, IInv, PlaceInv
        <3> QED BY <2>2, <3>1 DEF LookUp, Accepted, Rejected, GoTo, Answer, Fails, Succeeds
    <2>3. CASE DeleteSession(r)
        BY <2>3 DEF DeleteSession, Answer, Fails
    <2>4. CASE Lose(r)
        BY <2>4 DEF Lose, GoTo
    <2> QED BY <2>1, <2>2, <2>3, <2>4
<1>3. carried[r] # NoSession => carried[r] \in Known
    BY DEF IInv, CookieInv
<1>4. DeleteSession(r) => carried[r] # NoSession
    BY DEF IInv, PlaceInv, DeleteSession
<1>5. \A s \in Req : s # r /\ s \in Known' => s \in Known
    BY <1>1, <1>3, <1>4 DEF Known, CheckCredentials, LookUp, DeleteSession, Lose
<1>6. LoginInv'
    BY <1>1, <1>2, <1>5 DEF IInv, TypeOK, JInv, LoginInv, Known
<1>7. RedirectInv'
    BY <1>1, <1>2 DEF IInv, TypeOK, JInv, RedirectInv, request
<1>8. OwnerInv'
    BY <1>1, <1>2 DEF IInv, TypeOK, JInv, OwnerInv, request
<1>9. OrphanHasCause'
    <2>1. \A s \in Req \ {r} : reply'[s] = reply[s] /\ at'[s] = at[s]
        BY <1>2 DEF IInv, TypeOK
    <2>2. at[r] \in {"answered", "received", "lost"} =>
            reply'[r] = reply[r] /\ at[r] = "answered" /\ at'[r] = "lost"
        BY <1>1, <1>2 DEF IInv, TypeOK
    <2>3. Quiet
        BY <1>1, <2>1, <2>2 DEF Quiet, request
    <2> QED BY <2>3, KeepsOrphan
<1> QED BY <1>6, <1>7, <1>8, <1>9 DEF JInv

LEMMA InsertOrphan ==
    ASSUME IInv, IInv', JInv, NEW r \in Req, InsertSession(r) PROVE JInv'
<1>1. /\ at[r] = "insert" /\ r \notin Known /\ UNCHANGED <<request, cookie, deleted>>
      /\ failed \subseteq failed' /\ failed' \subseteq failed \cup {r}
      /\ \/ /\ at' = [at EXCEPT ![r] = "answered"] /\ reply' = [reply EXCEPT ![r] = "OK"]
            /\ sessions_table' \subseteq sessions_table \cup {r}
         \/ /\ at' = [at EXCEPT ![r] = "unanswered"] /\ reply' = reply
            /\ sessions_table' = sessions_table
      /\ sessions_table \subseteq sessions_table'
    BY DEF InsertSession, Answer, GoTo, Fails, Succeeds, JInv, LoginInv
<1>2. LoginInv'
    BY <1>1 DEF IInv, TypeOK, JInv, LoginInv, Known
<1>3. RedirectInv'
    <2>1. \A q \in Req : carried[q] # r
        BY <1>1 DEF IInv, CookieInv, Req
    <2> QED BY <1>1, <2>1 DEF IInv, TypeOK, JInv, RedirectInv, request
<1>4. OwnerInv'
    BY <1>1 DEF IInv, TypeOK, JInv, OwnerInv, request
<1>5. OrphanHasCause'
    <2> SUFFICES ASSUME NEW s \in sessions_table'
                 PROVE  \/ \E b \in Browser : cookie'[b] = s
                        \/ at'[s] \in {"answered", "lost"}
                        \/ \E q \in Req : Parted(q, s)'
        BY DEF OrphanHasCause
    <2>1. CASE s = r
        BY <1>1, <2>1 DEF IInv, TypeOK, Known
    <2>2. CASE s # r /\ \E q \in Req : Parted(q, s)
        <3>1. PICK q \in Req : Parted(q, s)
            BY <2>2
        <3>2. Parted(q, s)'
            BY <1>1, <3>1 DEF Parted, request, IInv, TypeOK
        <3> QED BY <3>2
    <2>3. CASE s # r /\ ~ \E q \in Req : Parted(q, s)
        BY <1>1, <2>3 DEF IInv, TypeOK, JInv, OrphanHasCause
    <2> QED BY <2>1, <2>2, <2>3
<1> QED BY <1>2, <1>3, <1>4, <1>5 DEF JInv

LEMMA ReceiveOrphan ==
    ASSUME IInv, IInv', JInv, NEW r \in Req, Receive(r) PROVE JInv'
<1>1. /\ at[r] = "answered" /\ at' = [at EXCEPT ![r] = "received"]
      /\ UNCHANGED <<request, reply, sessions_table, failed, deleted>>
      /\ from[r] \in Browser
    BY DEF Receive, GoTo, IInv, TypeOK
<1>2. \/ reply[r] = "OK" /\ cookie' = [cookie EXCEPT ![from[r]] = r]
      \/ reply[r] = "redirect" /\ cookie' = [cookie EXCEPT ![from[r]] = NoSession]
      \/ reply[r] \notin {"OK", "redirect"} /\ cookie' = cookie
    BY DEF Receive
<1>3. LoginInv' /\ RedirectInv'
    BY <1>1 DEF IInv, TypeOK, JInv, LoginInv, RedirectInv, Known, request
<1>4. OwnerInv'
    BY <1>1, <1>2 DEF IInv, TypeOK, JInv, OwnerInv, request
<1>5. OrphanHasCause'
    <2> SUFFICES ASSUME NEW s \in sessions_table
                 PROVE  \/ \E b \in Browser : cookie'[b] = s
                        \/ at'[s] \in {"answered", "lost"}
                        \/ \E q \in Req : Parted(q, s)'
        BY <1>1 DEF OrphanHasCause
    <2>1. s \in Req /\ reply[s] = "OK"
        BY DEF IInv, TypeOK, JInv, LoginInv
    <2>2. CASE s = r
        BY <1>1, <1>2, <2>1, <2>2 DEF IInv, TypeOK
    <2>3. CASE s # r /\ at[s] \in {"answered", "lost"}
        BY <1>1, <2>1, <2>3 DEF IInv, TypeOK
    <2>4. CASE s # r /\ \E q \in Req : Parted(q, s)
        <3>1. PICK q \in Req : Parted(q, s)
            BY <2>4
        <3>2. Parted(q, s)'
            BY <1>1, <3>1 DEF Parted, request, IInv, TypeOK
        <3> QED BY <3>2
    <2>5. ASSUME s # r, NEW b \in Browser, cookie[b] = s
          PROVE  (\E c \in Browser : cookie'[c] = s) \/ Parted(r, s)'
        <3>1. s # NoSession /\ from[s] = b
            BY <2>1, <2>5 DEF Req, JInv, OwnerInv
        <3>2. CASE b # from[r] \/ reply[r] \notin {"OK", "redirect"}
            BY <1>1, <1>2, <2>5, <3>2 DEF IInv, TypeOK
        <3>3. CASE b = from[r] /\ reply[r] \in {"OK", "redirect"}
            <4>1. reply[r] = "redirect" => carried[r] # s \/ r \in failed
                BY DEF JInv, RedirectInv
            <4>2. at'[r] = "received"
                BY <1>1 DEF IInv, TypeOK
            <4> QED BY <1>1, <2>5, <3>1, <3>3, <4>1, <4>2 DEF Parted, request
        <3> QED BY <3>2, <3>3
    <2> QED BY <2>2, <2>3, <2>4, <2>5 DEF JInv, OrphanHasCause
<1> QED BY <1>3, <1>4, <1>5 DEF JInv

LEMMA CrashOrphan ==
    ASSUME IInv, IInv', JInv, Crash PROVE JInv'
<1>0. at' = [r \in Req |-> IF at[r] \in InFlight THEN "crashed" ELSE at[r]]
    BY DEF Crash
<1>1. /\ UNCHANGED <<request, reply, sessions_table, cookie, failed, deleted>>
      /\ \A r \in Req : at'[r] = at[r] \/ (at[r] \in InFlight /\ at'[r] = "crashed")
    <2>1. \A r \in Req : at'[r] = at[r] \/ (at[r] \in InFlight /\ at'[r] = "crashed")
        BY <1>0 DEF InFlight
    <2> QED BY <2>1 DEF Crash
<1>2. LoginInv' /\ RedirectInv' /\ OwnerInv'
    BY <1>1 DEF IInv, TypeOK, JInv, LoginInv, RedirectInv, OwnerInv, Known, request, InFlight
<1>3. Quiet
    BY <1>1 DEF Quiet, request, InFlight
<1>4. OrphanHasCause'
    BY <1>3, KeepsOrphan
<1> QED BY <1>2, <1>4 DEF JInv

LEMMA NextOrphan == IInv /\ IInv' /\ JInv /\ [Next]_vars => JInv'
<1> SUFFICES ASSUME IInv, IInv', JInv, [Next]_vars PROVE JInv'
    OBVIOUS
<1>1. CASE UNCHANGED vars
    BY <1>1 DEF JInv, LoginInv, RedirectInv, OwnerInv, OrphanHasCause, Parted, Known, vars,
                request
<1>2. CASE Next
    BY <1>2, SendOrphan, HandleOrphan, InsertOrphan, ReceiveOrphan, CrashOrphan
       DEF Next, Handle
<1> QED BY <1>1, <1>2

\* Every session in the table is some browser's, on its way to one, or was lost
\* for one of the causes OrphanHasCause names: a logout that worked leaves none.
THEOREM OrphansExplained == Spec => []OrphanHasCause
<1>1. Spec => [](IInv /\ JInv)
    BY SessionsInvariant, InitOrphan, NextOrphan, PTL DEF Spec
<1> QED BY <1>1, PTL DEF JInv

=============================================================================
