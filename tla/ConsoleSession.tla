----------------------------- MODULE ConsoleSession -----------------------------
(* A browser tab of console-ui and its session (src/console/console-ui/src):   *)
(* stores/AuthContext.tsx keeps the user and the token in React state and in   *)
(* localStorage, api/client.ts sends the requests of the pages and retries     *)
(* those that change nothing, and the pages act on the answers, which may be   *)
(* late, lost, or meant for a session that is over.                            *)
EXTENDS ConsoleApi

CONSTANTS Request,      \* calls of apiFetch
          Retries,      \* apiFetch's default
          FormPages,    \* bound: the pages beside which the forms are tried as well
          Leavers       \* bound: the users who may be removed

ASSUME SessionAssumption ==
  /\ RoleOf \in [User -> DOMAIN RoleLevel] /\ Retries \in Nat
  /\ "none" \notin User /\ Leavers \subseteq User
  /\ \A jwt \in {"none", "empty", "undefined"} : jwt \notin Token

VARIABLES store,        \* localStorage: ultralisk_jwt and ultralisk_user
          cookie,       \* the jwt cookie, which scripts cannot read
          tab,          \* AuthContext's user and jwt
          req,          \* the calls
          probes        \* getMe calls under way: the jwt each was begun for, the token it carries

session == <<store, cookie, tab, req, probes>>
sessionVars == <<api, session>>

Nobody == [user |-> "none", jwt |-> "none"]

Unused == [op |-> "none", row |-> "none", token |-> "none", net |-> "idle", ui |-> "idle", tries |-> 0,
           status |-> 0, json |-> FALSE, login |-> Nobody,
           shown |-> "none", ran |-> 0, audit |-> "none"]

\* What is left of a call that is over: what the page says and what was done.
Over(call, ui) == [Unused EXCEPT !.op = "over", !.ui = ui, !.ran = call.ran]
Changes == {"create", "delete", "scale", "rollback"}

\* The tab has just been loaded, by somebody with a session or by nobody.
SessionInit ==
  /\ resource \in Resources
  /\ table \in [Row -> [owner : User, state : {"active"}] \cup {[owner |-> "none", state |-> "none"]}]
  /\ age = [t \in Token |-> "fresh"] /\ gone = {}
  /\ \/ /\ tab = Nobody /\ issued = [t \in Token |-> "none"] /\ probes = {}
     \/ \E u \in User, t \in Token :
          /\ tab = [user |-> u, jwt |-> t]
          /\ issued = [x \in Token |-> IF x = t THEN u ELSE "none"]
          /\ probes = {[jwt |-> t, token |-> t]}
  /\ store = tab /\ cookie = tab.jwt
  /\ req = [r \in Request |-> Unused]

-----------------------------------------------------------------------------
(* AuthContext *)

\* utils/jwt.ts: what cannot be decoded counts as expired.
Expired(jwt) == jwt \notin Token \/ age[jwt] = "expired"

\* The effects of a new jwt: a probe.  The timer is TimerLogout.
Begin(user, jwt) ==
  /\ tab' = [user |-> user, jwt |-> jwt]
  /\ probes' = IF jwt \in Token /\ jwt # tab.jwt
               THEN probes \cup {[jwt |-> jwt, token |-> jwt]} ELSE probes

SaveAuth(user, jwt, stored) ==
  /\ Begin(user, jwt)
  /\ store' = [user |-> user, jwt |-> stored]

Logout == tab' = Nobody /\ store' = Nobody /\ UNCHANGED probes

\* TopBar.  The cookie stays: nothing calls the logout route.
ClickLogout ==
  /\ tab.user # "none"
  /\ Logout
  /\ UNCHANGED <<api, cookie, req>>

\* setTimeout for half a minute before exp, and at once when that has passed.
TimerLogout ==
  /\ tab.jwt \in Token /\ age[tab.jwt] # "fresh"
  /\ Logout
  /\ UNCHANGED <<api, cookie, req>>

\* Nobody waits for the call any more; one that changes something may still get there.
Abandoned(r, net) ==
  IF net = "sent" /\ req[r].op \in Changes
  THEN [req[r] EXCEPT !.ui = "unknown"]
  ELSE Over(req[r], IF req[r].op \in Changes THEN "unknown" ELSE "over")

\* A new page: React and react-query start empty, and the browser gives up what
\* the old page was waiting for.
Reload ==
  /\ LET kept == store.user # "none" /\ ~Expired(store.jwt)
     IN  /\ store' = IF kept THEN store ELSE Nobody
         /\ tab' = store'
         /\ probes' = IF kept THEN {[jwt |-> store.jwt, token |-> store.jwt]} ELSE {}
  /\ req' = [r \in Request |-> IF req[r].ui = "pending" THEN Abandoned(r, req[r].net) ELSE req[r]]
  /\ UNCHANGED <<api, cookie>>

-----------------------------------------------------------------------------
(* The probe: getMe, a GET, which apiFetch may send again *)

Carried == ExtractToken(IF store.jwt = "empty" THEN "none" ELSE store.jwt, cookie)

\* Network trouble, a 5xx or a 403, with an attempt left or not: the session stays.
ProbeFails(p, again) ==
  /\ probes' = (probes \ {p}) \cup (IF again THEN {[p EXCEPT !.token = Carried]} ELSE {})
  /\ UNCHANGED <<api, store, cookie, tab, req>>

\* A 401 logs out, whichever session it was about, and so does a 404; a user is
\* shown only if the effect has not been cleaned up.  For a 403, see ProbeFails.
ProbeAnswered(p) ==
  /\ \/ MeStatus(p.token) \in {401, 404} /\ tab' = Nobody /\ store' = Nobody
     \/ /\ MeStatus(p.token) = 200
        /\ tab' = IF p.jwt = tab.jwt THEN [tab EXCEPT !.user = issued[p.token]] ELSE tab
        /\ UNCHANGED store
  /\ probes' = probes \ {p}
  /\ UNCHANGED <<api, cookie, req>>

-----------------------------------------------------------------------------
(* The pages: each handler starts a call *)

StartCall(r, op, row, login) ==
  /\ req[r].op = "none"
  /\ req' = [req EXCEPT ![r] =
       [Unused EXCEPT !.op = op, !.row = row, !.login = login, !.token = Carried,
                      !.net = "sent", !.ui = "pending",
                      !.shown = IF store.jwt = tab.jwt /\ tab.jwt \in Token
                                THEN tab.user ELSE "none"]]
  /\ UNCHANGED <<api, store, cookie, tab, probes>>

\* AuthGuard: no page without a user.
Guarded == tab.user # "none"
On(page) == Guarded /\ resource = page

Read(r, row) == StartCall(r, "list", row, Nobody)
Create(r) == StartCall(r, "create", "none", Nobody)
Delete(r, row) == StartCall(r, "delete", row, Nobody)

\* A list offers the rows of react-query's cache, which outlives the session, and
\* a detail page reads the row its address names: any row.  The table is read when
\* a page opens, and again after a change.
KeyList(r, row) == On("api-keys") /\ (Read(r, "none") \/ Delete(r, row))
CreateKeyModal(r) == On("api-keys") /\ Create(r)

EndpointList(r, row) == On("endpoints") /\ (Read(r, "none") \/ Delete(r, row))
EndpointDetailPage(r, row) == On("endpoints") /\ (Read(r, row) \/ Delete(r, row))
CreateEndpointPage(r) == On("endpoints") /\ Create(r)

BatchJobList(r, row) == On("batch-jobs") /\ (Read(r, "none") \/ Delete(r, row))
BatchJobDetailPage(r, row) == On("batch-jobs") /\ (Read(r, row) \/ Delete(r, row))
CreateBatchJobPage(r) == On("batch-jobs") /\ Create(r)

DeploymentList(r) == On("deployments") /\ Read(r, "none")
DeploymentDetailPage(r, row) ==
  On("deployments") /\ (Read(r, row) \/ \E op \in {"scale", "rollback"} : StartCall(r, op, row, Nobody))

ModelRegistryPage(r, row) == On("models") /\ (Read(r, "none") \/ Delete(r, row))
ImportModelModal(r) == On("models") /\ Create(r)

Page(r) ==
  \/ CreateKeyModal(r) \/ CreateEndpointPage(r) \/ CreateBatchJobPage(r)
  \/ DeploymentList(r) \/ ImportModelModal(r)
  \/ \E row \in Row :
       \/ KeyList(r, row) \/ EndpointList(r, row) \/ EndpointDetailPage(r, row)
       \/ BatchJobList(r, row) \/ BatchJobDetailPage(r, row)
       \/ DeploymentDetailPage(r, row) \/ ModelRegistryPage(r, row)

\* The two forms that start a session show a loading button, and no guard.
Waiting == \E r \in Request : req[r].op \in Public /\ req[r].ui = "pending"

Form == resource \in FormPages /\ ~Waiting

SubmitLogin(r, u) == Form /\ StartCall(r, "login", "none", [user |-> u, jwt |-> "none"])

SubmitInvitation(r) == Form /\ StartCall(r, "accept", "none", Nobody)

-----------------------------------------------------------------------------
(* console-api gets a call, perhaps after the tab has given it up *)

\* Whoever was there when it began.
Import(row) ==
  /\ ImportDone(row)
  /\ UNCHANGED <<resource, issued, age, gone, session>>

RemoveUser(u) ==
  /\ u \in Leavers /\ UserRemoved(u)
  /\ UNCHANGED <<resource, table, issued, age, session>>

\* auditLog.ts takes x-user-id when the reply is made.
Caller(r) ==
  IF req[r].op \notin Public /\ Verified(req[r].token) THEN issued[req[r].token] ELSE "null"

Reply(r, answer, audit) ==
  [req EXCEPT ![r].net = IF req[r].ui = "pending" THEN "answered" ELSE "done",
              ![r].status = answer.status, ![r].json = answer.json,
              ![r].ran = @ + answer.changes, ![r].audit = audit]

Serve(r) ==
  /\ req[r].net = "sent" /\ req[r].op \notin Public
  /\ \E answer \in Answers(req[r].op, req[r].row, req[r].token) :
       /\ table' = answer.table
       /\ \E audit \in Trail(req[r].op, answer, Caller(r)) : req' = Reply(r, answer, audit)
  /\ UNCHANGED <<resource, issued, age, gone, store, cookie, tab, probes>>

ServeLogin(r) ==
  /\ req[r].net = "sent" /\ req[r].op = "login"
  /\ \/ /\ \E role \in PublicRoles : ~Permitted(role, "login")
        /\ req' = Reply(r, Refusal(403), "none")
        /\ UNCHANGED issued
     \/ /\ \E role \in PublicRoles : Permitted(role, "login")
        /\ \E answer \in {"totp", "wrong", "down"} :
             /\ answer = "totp" => req[r].login.user \notin gone
             /\ req' = [Reply(r, Refusal(LoginStatus[answer]), "none") EXCEPT
                          ![r].login = IF answer = "totp" THEN [@ EXCEPT !.jwt = "empty"] ELSE Nobody]
        /\ UNCHANGED issued
     \/ /\ \E role \in PublicRoles : Permitted(role, "login")
        /\ req[r].login.user \notin gone
        /\ \E t \in Token :
             /\ issued[t] = "none"
             /\ issued' = [issued EXCEPT ![t] = req[r].login.user]
             /\ req' = [Reply(r, Refusal(LoginStatus.token), "none") EXCEPT ![r].login.jwt = t]
  /\ UNCHANGED <<resource, table, age, gone, store, cookie, tab, probes>>

\* The invitation is accepted once; what it names is not the session's affair.
ServeInvitation(r) ==
  /\ req[r].net = "sent" /\ req[r].op = "accept"
  /\ \E role \in PublicRoles, status \in {200, 400, 500} :
       req' = Reply(r, Refusal(IF Permitted(role, "accept") THEN status ELSE 403), "none")
  /\ UNCHANGED <<api, store, cookie, tab, probes>>

-----------------------------------------------------------------------------
(* api/client.ts *)

\* Only a GET is sent again.
\* (mutant: every call is)
SafeRetry_All(op) == TRUE
SafeRetry(op) == Method(op) = "GET"

Another(r) == SafeRetry(req[r].op) /\ req[r].tries < Retries

\* The next attempt takes the token anew.
Again(r) == [req EXCEPT ![r].tries = @ + 1, ![r].token = Carried, ![r].net = "sent"]

\* The connection breaks, before the call has arrived, under way, or with the answer.
Lose(r) ==
  /\ req[r].ui = "pending"
  /\ \/ Another(r) /\ req' = Again(r)
     \/ /\ ~Another(r)
        /\ \E net \in {"done", req[r].net} : req' = [req EXCEPT ![r] = Abandoned(r, net)]
  /\ UNCHANGED <<api, store, cookie, tab, probes>>

\* Thirty seconds without headers: a TimeoutError, which is not retried.
Timeout(r) ==
  /\ req[r].ui = "pending" /\ req[r].net = "sent"
  /\ \E net \in {"sent", "done"} : req' = [req EXCEPT ![r] = Abandoned(r, net)]
  /\ UNCHANGED <<api, store, cookie, tab, probes>>

Retryable(status) == status \in {408, 425, 429, 500, 502, 503, 504}

\* login, acceptInvitation and getMe.
\* (mutant: login is not among them)
SkipAuthExpired_Invitation(op) == op = "accept"
SkipAuthExpired(op) == op \in Public

Settle(r, ui) == [req EXCEPT ![r] = Over(@, IF @.op \in Changes THEN ui ELSE "over")]

Answered(r) == req[r].ui = "pending" /\ req[r].net = "answered"

\* res.ok without a body: res.json rejects.
ReceiveNothing(r) ==
  /\ Answered(r) /\ req[r].status < 300 /\ ~req[r].json
  /\ req' = Settle(r, "unknown")
  /\ UNCHANGED <<api, store, cookie, tab, probes>>

\* The page's success handler; after a change it has the list fetched again, Read.
ReceiveOk(r) ==
  /\ Answered(r) /\ req[r].status < 300 /\ req[r].json
  /\ req' = Settle(r, "ok")
  /\ CASE req[r].op = "login" ->
            /\ SaveAuth(req[r].login.user, req[r].login.jwt, req[r].login.jwt)
            /\ cookie' = IF req[r].login.jwt = "empty" THEN cookie ELSE req[r].login.jwt
       [] req[r].op = "accept" -> SaveAuth("none", "none", "undefined") /\ UNCHANGED cookie
       [] OTHER -> UNCHANGED <<store, cookie, tab, probes>>
  /\ UNCHANGED api

ReceiveError(r) ==
  /\ Answered(r) /\ req[r].status >= 400
  /\ \/ /\ Retryable(req[r].status) /\ Another(r)
        /\ req' = Again(r)
        /\ UNCHANGED <<store, tab, probes>>
     \/ /\ ~(Retryable(req[r].status) /\ Another(r))
        /\ req' = Settle(r, IF req[r].status < 500 THEN "refused" ELSE "failed")
        /\ IF req[r].status = 401 /\ ~SkipAuthExpired(req[r].op)
           THEN Logout ELSE UNCHANGED <<store, tab, probes>>
  /\ UNCHANGED <<api, cookie>>

-----------------------------------------------------------------------------
(* Time, and another tab of the same browser, which shares store and cookie *)

Age(t) ==
  /\ issued[t] # "none" /\ age[t] # "expired"
  /\ age' = [age EXCEPT ![t] = IF @ = "fresh" THEN "ending" ELSE "expired"]
  /\ UNCHANGED <<resource, table, issued, gone, session>>

OtherTabLogout ==
  /\ store # Nobody
  /\ store' = Nobody
  /\ UNCHANGED <<api, cookie, tab, req, probes>>

-----------------------------------------------------------------------------
SessionNext ==
  \/ \E r \in Request :
       \/ Page(r) \/ SubmitInvitation(r)
       \/ \E u \in User : SubmitLogin(r, u)
       \/ Serve(r) \/ ServeLogin(r) \/ ServeInvitation(r)
       \/ Lose(r) \/ Timeout(r) \/ ReceiveNothing(r) \/ ReceiveOk(r) \/ ReceiveError(r)
  \/ \E p \in probes : ProbeAnswered(p) \/ \E again \in BOOLEAN : ProbeFails(p, again)
  \/ ClickLogout \/ TimerLogout \/ Reload \/ OtherTabLogout
  \/ \E t \in Token : Age(t)
  \/ \E row \in Row : Import(row)
  \/ \E u \in User : RemoveUser(u)

SessionSpec == SessionInit /\ [][SessionNext]_sessionVars

-----------------------------------------------------------------------------
SessionTypeOK ==
  /\ table \in [Row -> [owner : User \cup {"none"},
                        state : {"none", "active", "importing", "revoked", "gone", "scaled", "rolling_back"}]]
  /\ issued \in [Token -> User \cup {"none"}] /\ age \in [Token -> {"fresh", "ending", "expired"}]
  /\ store.user \in User \cup {"none"} /\ store.jwt \in Token \cup {"none", "empty", "undefined"}
  /\ tab.user \in User \cup {"none"} /\ tab.jwt \in Token \cup {"none", "empty"}
  /\ cookie \in Token \cup {"none"} /\ gone \subseteq User
  /\ \A r \in Request : req[r].tries <= Retries /\ req[r].shown \in User \cup {"none"}

\* What the page says of a call is true of the tables: success means the change
\* was made once, an error with a status below 500 that it was not, and no call
\* makes its change twice, whatever is lost, late or retried.  Only a timeout, a
\* lost answer, a 500 and a reply without a body leave it open.  (client.ts:
\* "Don't retry mutating verbs - a retry could double-execute".)
OutcomeTruthful ==
  /\ SessionTypeOK
  /\ \A r \in Request :
       /\ req[r].ran <= 1
       /\ req[r].ui = "ok" => req[r].ran = 1
       /\ req[r].ui = "refused" => req[r].ran = 0

\* A change is made by the row's owner, whose role allows it (by any member, in the
\* registry of models, which is the organization's) and, if the tab sent the token
\* it shows the session of, by the user on the screen.  The audit trail may miss it,
\* but blames nobody else: its entry, where there is one, has that user's name.
\* (Without a token of its own - after a login that waits for TOTP, or another tab's
\* logout - the browser sends the cookie of the session before.)
ChangesByOwner ==
  \A r \in Request : req[r].ran > 0 /\ req[r].op # "over" =>
    LET by == issued[req[r].token]
    IN  /\ by \in User /\ RoleLevel[RoleOf[by]] >= RoleLevel.developer
        /\ req[r].row # "none" => Shared \/ table[req[r].row].owner = by
        /\ req[r].shown # "none" => by = req[r].shown
        /\ req[r].audit \in {"none", by}

\* A session whose token the server still accepts ends by the user's own act -
\* logging out here or in another tab and reloading, accepting an invitation - or
\* by the answer to a request that carried another token, or by a probe that finds
\* the user's row gone; never by a wrong password, a refused or failed request, or a
\* probe that did not get through.  (AuthContext, client.ts)
EndsForCause ==
  tab.user # "none" /\ tab.jwt \in Token /\ age[tab.jwt] = "fresh" /\ tab'.user = "none" =>
    \/ ClickLogout
    \/ Reload /\ store.jwt # tab.jwt
    \/ \E r \in Request : ReceiveOk(r) /\ req[r].op = "accept"
    \/ \E r \in Request : ReceiveError(r) /\ req[r].token # tab.jwt
    \/ \E p \in probes : ProbeAnswered(p) /\ (p.token # tab.jwt \/ tab.user \in gone)

SessionEndsForCause == [][EndsForCause]_sessionVars
=============================================================================
