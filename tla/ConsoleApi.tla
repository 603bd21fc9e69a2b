------------------------------- MODULE ConsoleApi -------------------------------
(* What console-api makes of one request of the browser                        *)
(* (src/console/console-api/src): who it comes from (middleware/auth.ts), what *)
(* that role may do (middleware/rbac.ts), what the route does to its table     *)
(* (routes/*.ts) and whether the audit trail hears of it                       *)
(* (services/auditLog.ts).                                                     *)
EXTENDS Integers, Sequences, SequencesExt, FiniteSets

CONSTANTS User, Token,
          Row,          \* the rows the routes' table may hold
          RoleOf        \* users.role, which the tokens of the user repeat

VARIABLES resource,     \* the table and the page this behaviour is about
          table,        \* its rows; a row that is gone keeps its owner, for the record
          issued,       \* whose each token is
          gone,         \* users without a row in the table of users
          age           \* of each token: "fresh", "ending" half a minute before exp, "expired"

api == <<resource, table, issued, age, gone>>

Resources == {"api-keys", "endpoints", "batch-jobs", "deployments", "models"}
Present(row) == table[row].state \notin {"none", "gone"}

-----------------------------------------------------------------------------
(* middleware/auth.ts *)

\* The Authorization header, and the cookie where there is none.
ExtractToken(header, cookie) == IF header # "none" THEN header ELSE cookie

Verified(token) == token \in Token /\ issued[token] # "none" /\ age[token] # "expired"

Public == {"login", "accept"}

-----------------------------------------------------------------------------
(* middleware/rbac.ts *)

RoleLevel == [readonly |-> 0, billing |-> 20, developer |-> 40, admin |-> 80, owner |-> 100]

Rules(paths, methods, role) ==
  {[path |-> <<"v1", "admin">> \o p, methods |-> methods, role |-> role] : p \in paths}

\* No methods is every method.  The two rules for paths outside /v1/admin are left out.
PERMISSIONS == UNION {
  Rules({<<"audit-logs">>, <<"settings", "sso">>, <<"license">>}, {}, "admin"),
  Rules({<<"organization">>}, {"PUT", "PATCH", "DELETE"}, "admin"),
  Rules({<<"billing">>, <<"cost-analytics">>}, {}, "billing"),
  Rules({<<"endpoints">>, <<"sessions">>}, {"POST", "PATCH", "DELETE"}, "developer"),
  Rules({<<"batch-jobs">>, <<"models", "registry">>, <<"api-keys">>}, {"POST", "DELETE"}, "developer"),
  Rules({<<"deployments">>}, {"POST"}, "developer"),
  Rules({<<"incidents">>, <<"settings">>}, {"PATCH", "POST"}, "developer"),
  Rules({<<p>> : p \in {"models", "usage", "gpu-utilization", "clusters", "nodes", "endpoints",
                        "batch-jobs", "deployments", "incidents", "alerts", "sessions",
                        "settings", "compliance", "api-keys", "organization"}}, {"GET"}, "readonly")}

\* The longest path that is a prefix, of the rules for the method.
Matching(method, path) ==
  {rule \in PERMISSIONS :
     IsPrefix(rule.path, path) /\ (rule.methods = {} \/ method \in rule.methods)}

\* A path no rule matches takes a developer.
RequiredRole(method, path) ==
  LET best == {rule \in Matching(method, path) :
                 \A other \in Matching(method, path) : Len(other.path) <= Len(rule.path)}
  IN  IF best = {} THEN "developer" ELSE (CHOOSE rule \in best : TRUE).role

Method(op) == IF op \in {"list", "me"} THEN "GET" ELSE IF op = "delete" THEN "DELETE" ELSE "POST"

Path(op) ==
  <<"v1", "admin">> \o
  CASE op = "login"        -> <<"auth", "login">>
    [] op = "accept"       -> <<"auth", "accept-invitation">>
    [] op = "me"           -> <<"auth", "me">>
    [] resource = "models" -> <<"models", "registry", "id">>
    [] OTHER               -> <<resource, "id">>

Permitted(role, op) == RoleLevel[role] >= RoleLevel[RequiredRole(Method(op), Path(op))]

-----------------------------------------------------------------------------
(* The routes.  What one of them may answer, and the table after it. *)

Refusal(status) == [status |-> status, json |-> TRUE, table |-> table, changes |-> 0]

\* The registry of models is the organization's, and User is one organization.
Shared == resource = "models"

\* WHERE id = $1 AND user_id = $2, or org_id.
\* (mutant: the row is looked up by its id)
Owned_ById(row, user) == Present(row)
Owned(row, user) == Present(row) /\ (Shared \/ table[row].owner = user)

\* The list, or one row.
Select(row, user) == {Refusal(IF row = "none" \/ Owned(row, user) THEN 200 ELSE 404)}

\* The table refers to the table of users; a failure is OrFails' below.
Insert(user, state) ==
  {[Refusal(201) EXCEPT !.table = [table EXCEPT ![row] = [owner |-> user, state |-> state]],
                        !.changes = 1]
     : row \in {row \in Row : table[row].state = "none" /\ (Shared \/ user \notin gone)}}

\* An UPDATE or DELETE of an owned row; express sends the other 404s and the 204
\* without a body.
Write(row, user, state, status, json) ==
  IF Owned(row, user)
  THEN {[Refusal(status) EXCEPT !.json = json, !.table = [table EXCEPT ![row].state = state],
                                !.changes = 1]}
  ELSE {[Refusal(404) EXCEPT !.json = json]}

ApiKeys(op, row, user) ==
  CASE op = "list"   -> Select(row, user)
    [] op = "create" -> Insert(user, "active")
    [] op = "delete" -> Write(row, user, "revoked", 200, TRUE)

\* The form offers a reserved endpoint first, and has no field for the guarantee
\* the route asks one for.
Endpoints(op, row, user) ==
  CASE op = "list"   -> Select(row, user)
    [] op = "create" -> {Refusal(400)} \cup Insert(user, "active")
    [] op = "delete" -> Write(row, user, "gone", 204, FALSE)

BatchJobs(op, row, user) ==
  CASE op = "list"   -> Select(row, user)
    [] op = "create" -> Insert(user, "active")
    [] op = "delete" -> Write(row, user, "gone", 204, FALSE)

\* Scaling to none, which the page's field allows, is refused.
Deployments(op, row, user) ==
  CASE op = "list"     -> Select(row, user)
    [] op = "scale"    -> {Refusal(400)} \cup Write(row, user, "scaled", 200, TRUE)
    [] op = "rollback" -> Write(row, user, "rolling_back", 200, TRUE)

\* A timer of three seconds ends the import.
ModelRegistry(op, row, user) ==
  CASE op = "list"   -> Select(row, user)
    [] op = "create" -> Insert(user, "importing")
    [] op = "delete" -> Write(row, user, "gone", 200, TRUE)

ImportDone(row) ==
  /\ table[row].state = "importing"
  /\ table' = [table EXCEPT ![row].state = "active"]

Route(op, row, user) ==
  CASE resource = "api-keys"    -> ApiKeys(op, row, user)
    [] resource = "endpoints"   -> Endpoints(op, row, user)
    [] resource = "batch-jobs"  -> BatchJobs(op, row, user)
    [] resource = "deployments" -> Deployments(op, row, user)
    [] resource = "models"      -> ModelRegistry(op, row, user)

\* A query that fails is a 500; its statement may have been committed all the same.
OrFails(answers) == answers \cup {[a EXCEPT !.status = 500, !.json = TRUE] : a \in answers}
                            \cup {Refusal(500)}

\* The answers to a request of a page that carries this token.
Answers(op, row, token) ==
  IF ~Verified(token) THEN {Refusal(401)}
  ELSE IF ~Permitted(RoleOf[issued[token]], op) THEN {Refusal(403)}
  ELSE OrFails(Route(op, row, issued[token]))

-----------------------------------------------------------------------------
(* routes/auth.ts and services/authService.ts *)

\* Login: a token, the first half of a login with TOTP, which comes without one,
\* wrong credentials, or no auth-service.
LoginStatus == [token |-> 200, totp |-> 200, wrong |-> 401, down |-> 503]

\* RBAC comes before the public routes too, and takes the role from x-user-role as
\* it arrives: "readonly" unless something in front of console-api has put one there.
PublicRoles == {"readonly", "developer"}

\* GET /auth/me: the token may be good and its user's row gone.
MeStatus(token) ==
  IF ~Verified(token) THEN 401
  ELSE IF ~Permitted(RoleOf[issued[token]], "me") THEN 403
  ELSE IF issued[token] \in gone THEN 404 ELSE 200

\* Nothing in console-api removes a user; the references to the row must have gone
\* before (those of the audit trail are not kept here).
Referred(user) == ~Shared /\ \E row \in Row : Present(row) /\ table[row].owner = user

UserRemoved(user) ==
  /\ user \notin gone /\ ~Referred(user)
  /\ gone' = gone \cup {user}

-----------------------------------------------------------------------------
(* services/auditLog.ts, around res.json: a reply without a body passes it by.  *)
(* It is mounted before middleware/auth.ts and runs after it.                   *)

Audited(op, answer) == Method(op) # "GET" /\ answer.json /\ answer.status < 500

\* The INSERT is not awaited: it may fail, which is only logged, as it must for a
\* user without a row, or the process may stop before it.  (Replies to nobody's
\* requests leave an entry without a user; those are left out.)
Trail(op, answer, caller) ==
  {"none"} \cup {u \in User \ gone : u = caller /\ Audited(op, answer)}
=============================================================================
