---------------------------- MODULE WebSessions ----------------------------
(***************************************************************************)
(* Login, logout and the session check that guards every other handler of  *)
(* main_server.js, with the cookie each browser keeps.  A browser has any  *)
(* number of requests under way, so that answers reach it in any order; a  *)
(* database call may fail, an answer may be lost, and the web server may   *)
(* crash, which costs it its handlers but not sessions_table.              *)
(*                                                                         *)
(* A login's token is 48 random bytes, here the login itself.              *)
(***************************************************************************)
EXTENDS Naturals

CONSTANTS
    Browser,
    MaxRequests,    \* bound on the requests sent
    NoSession

ASSUME WebSessionsAssumption ==
    /\ MaxRequests \in Nat \ {0}
    /\ NoSession \notin 1..MaxRequests

Req == 1..MaxRequests

VARIABLES
    sent,           \* requests 1..sent were sent
    from,           \* the browser of each
    servlet,        \* "login", "logout"; "api": its refusal is a redirect that
                    \* clears the cookie; "page": its refusal leaves it alone
    carried,        \* the cookie it was sent with
    at,             \* where the request is
    reply,          \* what the handler answered
    sessions_table,
    cookie          \* each browser's session cookie

\* History.
VARIABLES
    failed,         \* requests of which a database call failed
    deleted         \* sessions that were deleted

request == <<sent, from, servlet, carried>>
vars    == <<request, at, reply, sessions_table, cookie, failed, deleted>>

InFlight == {"credentials", "insert", "lookup", "delete"}

TypeOK ==
    /\ sent \in 0..MaxRequests
    /\ from \in [Req -> Browser]
    /\ servlet \in [Req -> {"login", "logout", "api", "page"}]
    /\ carried \in [Req -> Req \cup {NoSession}]
    /\ at \in [Req -> InFlight \cup {"unsent", "answered", "received", "lost",
                                     "unanswered", "crashed"}]
    /\ reply \in [Req -> {"none", "OK", "401", "500", "valid", "invalid", "redirect"}]
    /\ sessions_table \subseteq Req
    /\ cookie \in [Browser -> Req \cup {NoSession}]
    /\ failed \subseteq Req /\ deleted \subseteq Req

Init ==
    /\ sent = 0
    /\ \E b \in Browser : from = [r \in Req |-> b]
    /\ servlet = [r \in Req |-> "page"]
    /\ carried = [r \in Req |-> NoSession]
    /\ at = [r \in Req |-> "unsent"]
    /\ reply = [r \in Req |-> "none"]
    /\ sessions_table = {}
    /\ cookie = [b \in Browser |-> NoSession]
    /\ failed = {} /\ deleted = {}

-----------------------------------------------------------------------------
Answer(r, what) ==
    /\ at' = [at EXCEPT ![r] = "answered"]
    /\ reply' = [reply EXCEPT ![r] = what]

GoTo(r, where) ==
    /\ at' = [at EXCEPT ![r] = where]
    /\ UNCHANGED reply

Fails(r)    == failed' = failed \cup {r}
Succeeds(r) == UNCHANGED failed

\* A browser sends a request.
Send(b, s) ==
    LET r == sent + 1
    IN  /\ sent < MaxRequests
        /\ sent' = r
        /\ from' = [from EXCEPT ![r] = b]
        /\ servlet' = [servlet EXCEPT ![r] = s]
        /\ carried' = [carried EXCEPT ![r] = cookie[b]]
        /\ GoTo(r, IF s = "login" THEN "credentials" ELSE "lookup")
        /\ UNCHANGED <<sessions_table, cookie, failed, deleted>>

\* Mutation: the answer does not wait for the session to be inserted.
CheckCredentialsMutant(r) ==
    /\ at[r] = "credentials"
    /\ Answer(r, "OK")
    /\ UNCHANGED <<request, sessions_table, cookie, failed, deleted>>

\* db_account_validate_credintials: a failed query is a wrong password.
CheckCredentials(r) ==
    /\ at[r] = "credentials"
    /\ GoTo(r, "insert") \/ Answer(r, "401")
    /\ UNCHANGED <<request, sessions_table, cookie, failed, deleted>>

\* Mutation: the callback is only called when there is an error.
InsertSessionMutant(r) ==
    /\ at[r] = "insert"
    /\ \/ /\ sessions_table' = sessions_table \cup {r}
          /\ GoTo(r, "unanswered") /\ Succeeds(r)
       \/ /\ UNCHANGED sessions_table
          /\ Answer(r, "OK") /\ Fails(r)
    /\ UNCHANGED <<request, cookie, deleted>>

\* db_account_add_new_session: when it can not connect, its error is ignored
\* and the browser gets the cookie; when the insert fails, it never calls back.
InsertSession(r) ==
    /\ at[r] = "insert"
    /\ \/ /\ sessions_table' = sessions_table \cup {r}
          /\ Answer(r, "OK") /\ Succeeds(r)
       \/ /\ UNCHANGED sessions_table
          /\ Answer(r, "OK") /\ Fails(r)
       \/ /\ UNCHANGED sessions_table
          /\ GoTo(r, "unanswered") /\ Fails(r)
    /\ UNCHANGED <<request, cookie, deleted>>

\* A request whose session is found: a logout goes on to delete it, another
\* one is served.
Accepted(r) == IF servlet[r] = "logout" THEN GoTo(r, "delete") ELSE Answer(r, "valid")

\* A request whose session is not found.  Logout passes send_status_code no
\* response: a TypeError.  Without a cookie it is thrown inside the handler and
\* Express answers; in the callback of the look-up, uncaughtException logs it.
Rejected(r) ==
    CASE servlet[r] = "logout" -> IF carried[r] = NoSession THEN Answer(r, "500")
                                  ELSE GoTo(r, "unanswered")
      [] servlet[r] = "api"    -> Answer(r, "redirect")
      [] servlet[r] = "page"   -> Answer(r, "invalid")

\* Mutation: a look-up also succeeds without finding a session.
LookUpMutant(r) ==
    /\ at[r] = "lookup"
    /\ \/ Accepted(r) /\ Succeeds(r)
       \/ carried[r] # NoSession /\ Rejected(r) /\ Fails(r)
    /\ UNCHANGED <<request, sessions_table, cookie, deleted>>

\* is_valid_session: without a cookie there is no look-up, and a failed one is
\* a session that is not found.
LookUp(r) ==
    /\ at[r] = "lookup"
    /\ \/ carried[r] \in sessions_table /\ Accepted(r) /\ Succeeds(r)
       \/ carried[r] \notin sessions_table /\ Rejected(r) /\ Succeeds(r)
       \/ carried[r] # NoSession /\ Rejected(r) /\ Fails(r)
    /\ UNCHANGED <<request, sessions_table, cookie, deleted>>

\* Mutation: the redirect does not wait for the delete, which is forgotten.
DeleteSessionMutant(r) ==
    /\ at[r] = "delete"
    /\ UNCHANGED <<sessions_table, deleted, failed>>
    /\ Answer(r, "redirect")
    /\ UNCHANGED <<request, cookie>>

\* delete_session_from_db, of which the handler ignores the result.
DeleteSession(r) ==
    /\ at[r] = "delete"
    /\ \/ /\ sessions_table' = sessions_table \ {carried[r]}
          /\ deleted' = deleted \cup {carried[r]}
          /\ Succeeds(r)
       \/ UNCHANGED <<sessions_table, deleted>> /\ Fails(r)
    /\ Answer(r, "redirect")
    /\ UNCHANGED <<request, cookie>>

\* The answer reaches the browser: a login sets the cookie, send_logout_redirect
\* clears it.
Receive(r) ==
    /\ at[r] = "answered"
    /\ cookie' = CASE reply[r] = "OK"       -> [cookie EXCEPT ![from[r]] = r]
                   [] reply[r] = "redirect" -> [cookie EXCEPT ![from[r]] = NoSession]
                   [] OTHER                 -> cookie
    /\ GoTo(r, "received")
    /\ UNCHANGED <<request, sessions_table, failed, deleted>>

\* The answer is lost, or its page was closed.
Lose(r) ==
    /\ at[r] = "answered"
    /\ GoTo(r, "lost")
    /\ UNCHANGED <<request, sessions_table, cookie, failed, deleted>>

\* The web server dies and is started again.
Crash ==
    /\ \E r \in Req : at[r] \in InFlight
    /\ at' = [r \in Req |-> IF at[r] \in InFlight THEN "crashed" ELSE at[r]]
    /\ UNCHANGED <<request, reply, sessions_table, cookie, failed, deleted>>

Handle(r) == CheckCredentials(r) \/ InsertSession(r) \/ LookUp(r) \/ DeleteSession(r)

Next ==
    \/ \E b \in Browser : \E s \in {"login", "logout", "api", "page"} : Send(b, s)
    \/ \E r \in Req : Handle(r) \/ Receive(r) \/ Lose(r)
    \/ Crash

\* Database calls return.  Browsers and the network owe nothing.
Fairness == \A r \in Req : WF_vars(Handle(r))

Spec == Init /\ [][Next]_vars /\ Fairness

-----------------------------------------------------------------------------
(***************************************************************************)
(* Properties.                                                             *)
(***************************************************************************)

\* A browser's cookie names a session of the table, in whatever order the
\* answers reached it, unless a logout deleted the session or its login could
\* not connect to the database.
CookieNamesSession ==
    \A b \in Browser : cookie[b] # NoSession =>
        cookie[b] \in sessions_table \cup deleted \cup failed

\* The answer to r took the cookie for s away from the browser that had it:
\* another login, the refusal of a request that had been sent with another
\* cookie, or a logout or check of which a database call failed.
Parted(r, s) ==
    /\ r # s /\ from[r] = from[s] /\ at[r] = "received"
    /\ \/ reply[r] = "OK"
       \/ reply[r] = "redirect" /\ (carried[r] # s \/ r \in failed)

\* A session stays in the table although no browser has it, or is still to
\* receive it, only if the answer to its login was lost or the browser parted
\* with it: a logout that worked leaves nothing behind.
OrphanHasCause ==
    \A s \in sessions_table :
        \/ \E b \in Browser : cookie[b] = s
        \/ at[s] \in {"answered", "lost"}
        \/ \E r \in Req : Parted(r, s)

\* A browser is told that it has no session only if the cookie it sent named
\* none, or one that was deleted or never inserted, or the look-up failed.
RefusalHasCause ==
    \A r \in Req :
        servlet[r] \in {"api", "page"} /\ reply[r] \in {"redirect", "invalid"} =>
            carried[r] \in {NoSession} \cup deleted \cup failed \/ r \in failed

\* Every request is answered unless the server crashed, but for a login whose
\* insert failed and a logout whose cookie named no session that was found.
EveryRequestAnswered ==
    \A r \in Req :
        (at[r] # "unsent") ~> \/ reply[r] # "none" \/ at[r] = "crashed"
                              \/ servlet[r] = "login" /\ r \in failed /\ at[r] = "unanswered"
                              \/ servlet[r] = "logout" /\ carried[r] # NoSession /\ at[r] = "unanswered"

=============================================================================
