---------------------------- MODULE RequestPath ----------------------------
(***************************************************************************)
(* What a request meets on its way to a handler of the backend (app.ts,    *)
(* middleware/, routes/): the body parser, the count of requests, the      *)
(* origins allowed, the session, the guards of the three routers mounted   *)
(* at /admin one after the other, the rule of the route, the shape of the  *)
(* input; and what is made of an error on the way back.  AdminDesk models  *)
(* how rules change, the other modules the work.                           *)
(* Below are the rate limits of sign-in and registration (rateLimit.ts): a *)
(* count for each key, in Valkey (VALKEY_URL) where every command is a     *)
(* step of its own and may fail, or in the process, whose steps nothing    *)
(* interrupts.  They share no state with the rest.                         *)
(***************************************************************************)
EXTENDS Naturals, FiniteSets, Sequences

CONSTANTS Chosen,     \* bound on the rules a level was chosen for
          Tries,      \* requests with a limit
          Keys,       \* rate-limit:<name>:<hash of the address or e-mail>
          Allowed,    \* max
          Window,     \* windowSeconds
          MaxClock,   \* bound on the time
          None

LimitsAssumption ==
    Allowed \in Nat \ {0} /\ Window \in Nat \ {0} /\ MaxClock \in Nat /\ None \notin Keys

VARIABLES
    override, \* rule -> the role level chosen for it, or None for the default
    answer,   \* to the request: [q, status, ran, label], or None before
    shared,   \* VALKEY_URL is set
    clock,
    counter,  \* key -> [count, until]: until is None for a key without TTL
    try,      \* request -> [key, at, count, time]: time is when it was counted (history)
    opened    \* key -> times at which its windows began (history)

qvars == <<override, answer>>
mvars == <<shared, clock, counter, try, opened>>

Level == 0..3 \* ROLE_LEVEL: user, support, admin, super_admin

-----------------------------------------------------------------------------
\* permissionMatrix: the least level of each rule.
DefaultLevel == [
    dashboard_read |-> 1, scrapers_read |-> 1, observability_health |-> 1,
    users_read |-> 2, users_block |-> 2, users_unblock |-> 2, users_reset_password |-> 2,
    scrapers_trigger |-> 2, observability_metrics |-> 2, audit_read |-> 2, permissions_read |-> 2,
    users_change_role |-> 3, users_delete |-> 3, permissions_manage |-> 3]
RuleNames == DOMAIN DefaultLevel
Immutable == {"users_change_role", "users_delete", "permissions_manage"}

LeastOf(rule) == IF override[rule] = None THEN DefaultLevel[rule] ELSE override[rule]

\* A route: where it is mounted, its template, its rule, the router of /admin it is in,
\* and whether its input is checked before its handler.  below: what is left of the path
\* without the mount, if that is itself one of the names that are kept in the count.
Route(mount, paths, rule, router, checked) ==
    {[mount |-> mount, path |-> p, rule |-> rule, router |-> router, checked |-> checked, below |-> None] : p \in paths}

SupportRoutes ==
    Route("/admin", {"/dashboard"}, "dashboard_read", 1, FALSE)
    \cup Route("/admin", {"/scrapers", "/scrapers/jobs/count"}, "scrapers_read", 1, FALSE)
    \cup Route("/admin", {"/observability/health"}, "observability_health", 1, FALSE)
AdminRoutes ==
    Route("/admin", {"/users", "/users/:id"}, "users_read", 2, FALSE)
    \cup Route("/admin", {"/users/:id/block"}, "users_block", 2, FALSE)
    \cup Route("/admin", {"/users/:id/unblock"}, "users_unblock", 2, FALSE)
    \cup Route("/admin", {"/users/:id/reset"}, "users_reset_password", 2, FALSE)
    \cup Route("/admin", {"/scrapers/:id/run"}, "scrapers_trigger", 2, FALSE)
    \cup Route("/admin", {"/observability", "/observability/dashboards"}, "observability_metrics", 2, FALSE)
    \cup Route("/admin", {"/audit"}, "audit_read", 2, FALSE)
    \cup Route("/admin", {"/permissions/rules"}, "permissions_read", 2, FALSE)
SuperAdminRoutes ==
    Route("/admin", {"/users/:id/role"}, "users_change_role", 3, FALSE)
    \cup Route("/admin", {"/users/:id"}, "users_delete", 3, FALSE)
    \cup Route("/admin", {"/permissions/rules"}, "permissions_manage", 3, FALSE)
    \cup Route("/admin", {"/jobs/cache"}, None, 3, FALSE)
AuthRoutes ==
    Route("/auth", {"/login", "/register", "/:provider/url"}, None, 0, TRUE)
    \cup Route("/auth", {"/:provider/callback", "/me", "/logout", "/connections"}, None, 0, FALSE)
UserRoutes == Route("/users", {"/profile", "/preferences"}, None, 0, TRUE)
SavedJobsRoutes ==
    Route("/saved-jobs", {"/", "/:id", "/:id/notes", "/:id/notes/:noteId"}, None, 0, TRUE)
    \cup Route("/saved-jobs", {"/:id/events"}, None, 0, FALSE)
NotificationsRoutes ==
    Route("/notifications", {"/", "/read-all"}, None, 0, TRUE)
    \cup Route("/notifications", {"/:id/read"}, None, 0, FALSE)
JobsRoutes == Route("/jobs", {"/search", "/filters/options"}, None, 0, FALSE)
KeywordsRoutes == Route("/keywords", {"/"}, None, 0, FALSE)

Routes == SupportRoutes \cup AdminRoutes \cup SuperAdminRoutes \cup AuthRoutes \cup UserRoutes
            \cup SavedJobsRoutes \cup NotificationsRoutes \cup JobsRoutes \cup KeywordsRoutes

RequestPathAssumption == Chosen \subseteq RuleNames \ Immutable /\ \A t \in Routes : t.path # None

\* And what no route is for, under each mount.  /saved-jobs/health is a saved job, and
\* /admin/health nothing.
PriorityPaths == {"/health", "/jobs/search"}
Unknown(mount, below) ==
    [mount |-> mount, path |-> None, rule |-> None, router |-> 4, checked |-> FALSE, below |-> below]
Targets ==
    Routes \cup {Unknown(m, b) : m \in {"/admin", "/auth", "/saved-jobs"}, b \in {None} \cup PriorityPaths}
           \cup {[t EXCEPT !.below = "/health"] : t \in {u \in SavedJobsRoutes : u.path = "/:id"}}

\* priorityRoutes: those whose path keeps its name in the count without a route.
Priority(t) == <<t.mount, t.path>> \in {<<"/jobs", "/search">>, <<"/auth", "/login">>, <<"/admin", "/scrapers">>,
                                        <<"/admin", "/observability">>}

Arrivals == [target : Targets,
             level : Level \cup {None},                        \* of the session, None without one
             body : {"fine", "invalid", "unreadable"},
             origin : BOOLEAN,                                 \* whether it is one allowed
             end : {"answered", "refused", "thrown"}]          \* what the handler makes of it

-----------------------------------------------------------------------------
\* errorHandler: an AppError has its status, everything else is internal.
ErrorStatus(error) == CASE error = "origin" -> 403 [] error = "invalid" -> 400 [] error = "app" -> 404 [] OTHER -> 500

\* metricsMiddleware, when the answer is out: the template of the route with its mount; the
\* mount is lost when an error was passed on.
Mountless == ""
CountedAs(t, passedOn) == IF passedOn THEN <<Mountless, t.path>> ELSE <<t.mount, t.path>>
\* Mutant: whatever was asked for is counted by its path.
NotRoutedByPath(q) == <<q.target.mount, q.target.path>>

\* Without a route, the path if it is on the list: the whole of it before the mounts and
\* after they were left, but only what is below the mount when a guard of it answers.
Unmatched == <<"__unmatched__">>
NotRouted(q) == IF Priority(q.target) THEN <<q.target.mount, q.target.path>> ELSE Unmatched
TurnedAway(q) == IF q.target.below # None THEN <<Mountless, q.target.below>> ELSE Unmatched

Answer(q, status, ran, label) == answer' = [q |-> q, status |-> status, ran |-> ran, label |-> label]

\* express.json comes before everything else, the count included.
Unreadable(q) == q.body = "unreadable" /\ Answer(q, ErrorStatus("body"), FALSE, None)

OriginRefused(q) ==
    q.body # "unreadable" /\ ~q.origin /\ Answer(q, ErrorStatus("origin"), FALSE, NotRouted(q))

Received(q) == q.body # "unreadable" /\ q.origin

\* requireAuth, mounted before the router of everything but /auth.
NeedsSession(t) == t.mount # "/auth" \/ t.path = "/connections"
Unauthenticated(q) ==
    /\ Received(q) /\ NeedsSession(q.target) /\ q.level = None
    /\ Answer(q, 401, FALSE, IF q.target.mount = "/auth" THEN CountedAs(q.target, FALSE) ELSE TurnedAway(q))

Known(q) == Received(q) /\ (NeedsSession(q.target) => q.level # None)

\* requireRole: a request passes the guards of the routers before its own, too; one that no
\* route is for passes them all.
LevelOfRouter(t) == IF t.mount = "/admin" THEN IF t.router > 3 THEN 3 ELSE t.router ELSE 0
RoleRefused(q) ==
    /\ Known(q) /\ q.target.mount = "/admin" /\ q.level < LevelOfRouter(q.target)
    /\ Answer(q, 403, FALSE, TurnedAway(q))

Routed(q) == Known(q) /\ (q.target.mount = "/admin" => q.level >= LevelOfRouter(q.target))
NotFound(q) == Routed(q) /\ q.target.path = None /\ Answer(q, 404, FALSE, NotRouted(q))

\* requirePermission
Permits(q) == q.target.rule # None => q.level >= LeastOf(q.target.rule)
PermissionRefused(q) ==
    Routed(q) /\ q.target.path # None /\ ~Permits(q) /\ Answer(q, 403, FALSE, CountedAs(q.target, FALSE))

\* validate
Reached(q) == Routed(q) /\ q.target.path # None /\ Permits(q)
InputRefused(q) ==
    Reached(q) /\ q.target.checked /\ q.body = "invalid" /\ Answer(q, ErrorStatus("invalid"), FALSE, CountedAs(q.target, TRUE))

\* The handler: what it does not answer for itself is passed on.
AnswersItself(mount) ==
    CASE mount = "/admin" -> {"answered", "refused", "thrown"} [] mount = "/jobs" -> {"answered", "thrown"}
      [] mount = "/keywords" -> {"answered", "refused"} [] OTHER -> {"answered"}
Handled(q) ==
    /\ Reached(q) /\ ~(q.target.checked /\ q.body = "invalid")
    /\ Answer(q, CASE q.end = "answered" -> 200 [] q.end = "refused" -> ErrorStatus("app") [] q.end = "thrown" -> ErrorStatus("other"),
              TRUE, CountedAs(q.target, q.end \notin AnswersItself(q.target.mount)))

Serve ==
    /\ answer = None
    /\ \E q \in Arrivals :
         \/ Unreadable(q) \/ OriginRefused(q) \/ Unauthenticated(q) \/ RoleRefused(q) \/ NotFound(q)
         \/ PermissionRefused(q) \/ InputRefused(q) \/ Handled(q)
    /\ UNCHANGED override

\* A level was chosen for one rule, or for none; nothing else is kept between two requests.
RInit ==
    /\ \E r \in Chosen, l \in Level \cup {None} : override = [k \in RuleNames |-> IF k = r THEN l ELSE None]
    /\ answer = None

RSpec == RInit /\ [][Serve]_qvars

-----------------------------------------------------------------------------
RTypeOK ==
    /\ override \in [RuleNames -> Level \cup {None}]
    /\ answer # None => answer.q \in Arrivals /\ answer.status \in {200, 400, 401, 403, 404, 500} /\ answer.ran \in BOOLEAN

\* A handler of /admin runs for a session of the level that was chosen for its rule, and
\* whoever has that level is let in unless it was chosen below the one of the router; only
\* the highest is told that a path does not exist.
LetInAsChosen ==
    answer # None /\ answer.q.target.mount = "/admin" =>
        LET t == answer.q.target
        IN  /\ answer.ran /\ t.rule # None => answer.q.level >= LeastOf(t.rule)
            /\ answer.status = 403 /\ answer.q.origin /\ t.rule # None /\ answer.q.level >= LeastOf(t.rule) =>
                   LeastOf(t.rule) < DefaultLevel[t.rule]
            /\ answer.status = 404 /\ ~answer.ran => answer.q.level = 3

\* What is counted names templates and the paths of the list only; a request is counted
\* under its route, with its mount or without, just when it reached it, and one of the list
\* also when its origin was refused: a guard of the mount takes even those their name.
CountedByTemplate ==
    answer # None /\ answer.label # None =>
        LET t == answer.q.target
        IN  /\ answer.label \in {Unmatched} \cup ({Mountless, t.mount} \X {u.path : u \in Routes}) \cup ({Mountless} \X PriorityPaths)
            /\ t.path # None =>
                 (answer.label \in {Mountless, t.mount} \X {t.path} <=>
                    \/ Routed(answer.q) \/ (Priority(t) /\ ~answer.q.origin)
                    \/ (t.mount = "/auth" /\ answer.status = 401))

-----------------------------------------------------------------------------
(* The rate limits *)

Count == [count : Nat, until : Nat \cup {None}]
Gone == [count |-> 0, until |-> 0]
MTypeOK ==
    /\ shared \in BOOLEAN /\ clock \in 0..MaxClock
    /\ counter \in [Keys -> Count] /\ opened \in [Keys -> Seq(0..MaxClock)]
    /\ try \in [Tries -> [key : Keys \cup {None}, count : Nat, time : 0..MaxClock,
                          at : {"new", "count", "expire", "ttl", "passed", "refused", "failed"}]]

-----------------------------------------------------------------------------
\* A request with a key (an address, or an e-mail in its body) is counted; others pass.
Begin(t, k) ==
    /\ try[t].at = "new"
    /\ try' = [try EXCEPT ![t].key = k, ![t].at = "count"]
    /\ UNCHANGED <<shared, clock, counter, opened>>

Over(k) == counter[k].count = 0 \/ (counter[k].until # None /\ counter[k].until <= clock)

Counted(t, next) ==
    LET k == try[t].key
    IN  /\ opened' = IF counter'[k].count = 1 THEN [opened EXCEPT ![k] = Append(@, clock)] ELSE opened
        /\ try' = [try EXCEPT ![t].count = counter'[k].count, ![t].time = clock, ![t].at = next]

\* Mutant: one request too many.
VerdictLate(count) == IF count > Allowed + 1 THEN "refused" ELSE "passed"

Verdict(count) == IF count > Allowed THEN "refused" ELSE "passed"

\* consumeFromMemory: the entry starts anew at its end.
ConsumeFromMemory(t) ==
    /\ ~shared /\ try[t].at = "count"
    /\ LET k == try[t].key
       IN  /\ counter' = [counter EXCEPT ![k] = IF Over(k) THEN [count |-> 1, until |-> clock + Window]
                                                ELSE [counter[k] EXCEPT !.count = @ + 1]]
           /\ Counted(t, Verdict(counter'[k].count))
    /\ UNCHANGED <<shared, clock>>

\* consumeFromValkey: INCR, EXPIRE after the first, TTL; on an error the answer is 503.
Incr(t) ==
    /\ shared /\ try[t].at = "count"
    /\ LET k == try[t].key
       IN  /\ counter' = [counter EXCEPT ![k] = IF Over(k) THEN [count |-> 1, until |-> None]
                                                ELSE [counter[k] EXCEPT !.count = @ + 1]]
           /\ Counted(t, IF counter'[k].count = 1 THEN "expire" ELSE "ttl")
    /\ UNCHANGED <<shared, clock>>

Expire(t) ==
    /\ try[t].at = "expire"
    /\ LET k == try[t].key
       IN  counter' = [counter EXCEPT ![k].until = IF @ = None \/ @ > clock THEN clock + Window ELSE @]
    /\ try' = [try EXCEPT ![t].at = "ttl"]
    /\ UNCHANGED <<shared, clock, opened>>

Decide(t) ==
    /\ try[t].at = "ttl"
    /\ try' = [try EXCEPT ![t].at = Verdict(try[t].count)]
    /\ UNCHANGED <<shared, clock, counter, opened>>

\* The error comes before the command or instead of its reply.
Unavailable(t) ==
    /\ shared /\ try[t].at \in {"count", "expire", "ttl"}
    /\ try' = [try EXCEPT ![t].at = "failed"]
    /\ UNCHANGED <<shared, clock, counter, opened>>

Tick == clock < MaxClock /\ clock' = clock + 1 /\ UNCHANGED <<shared, counter, try, opened>>

-----------------------------------------------------------------------------
MInit ==
    /\ shared \in BOOLEAN /\ clock = 0 /\ counter = [k \in Keys |-> Gone]
    /\ try = [t \in Tries |-> [key |-> None, at |-> "new", count |-> 0, time |-> 0]]
    /\ opened = [k \in Keys |-> <<>>]

MNext ==
    \/ \E t \in Tries : \/ \E k \in Keys : Begin(t, k)
                        \/ ConsumeFromMemory(t) \/ Incr(t) \/ Expire(t) \/ Decide(t) \/ Unavailable(t)
    \/ Tick

MSpec == MInit /\ [][MNext]_mvars

-----------------------------------------------------------------------------
\* However requests interleave and whatever fails, no more than max requests of one key
\* pass within windowSeconds of the first one of a window.
OnlySoMany ==
    \A k \in Keys : \A i \in DOMAIN opened[k] :
        Cardinality({t \in Tries : /\ try[t].key = k /\ try[t].at = "passed"
                                  /\ try[t].time \in opened[k][i]..(opened[k][i] + Window - 1)}) <= Allowed
=============================================================================
