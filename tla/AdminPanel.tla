----------------------------- MODULE AdminPanel -----------------------------
(***************************************************************************)
(* The administration panel (front_admin/src) as it watches the processor  *)
(* and starts runs: the session all components share (useAuth), one        *)
(* polling resource for each session (pollingResource, shared by the pages *)
(* through useOperationalSnapshot) and the pages' buttons (useScrapers,    *)
(* useDashboard).  A browser runs one callback at a time: an action is one *)
(* callback, and requests answer in any order between them.                *)
(***************************************************************************)
EXTENDS Naturals, FiniteSets

CONSTANTS Users,     \* administrators that sign in at this browser
          Pages,     \* pages that watch the processor: ScrapersPage, DashboardPage
          MaxGen,    \* bound: times resources lose their last subscriber, in all
          None

VARIABLES
    cookie,      \* user of the browser's session cookie, or None
    session,     \* sharedSession: user the panel shows, or None
    loaded,      \* sharedSessionLoaded
    auth,        \* call of useAuth under way: "none", "me", "signin", "signinMe", "logout"
    hidden,      \* document.hidden
    resource,    \* user -> state of the resource of its session
    flights,     \* requests of resources still to settle: [user, gen, settled]
    running,     \* the processor executes a run
    button       \* page -> [pending, forbidden]: pendingRef, triggerForbidden

vars == <<cookie, session, loaded, auth, hidden, resource, flights, running, button>>
panel == <<cookie, session, loaded, auth>>

Reading == [running : BOOLEAN, gen : Nat]
Flight == [user : Users, gen : Nat, settled : BOOLEAN]

AdminPanelAssumption == MaxGen \in Nat /\ None \notin Users \cup Flight

Fresh == [data |-> None, loading |-> TRUE, refreshing |-> FALSE, stale |-> FALSE,
          forbidden |-> FALSE, gen |-> 0, pending |-> None, listeners |-> {}]
Idle == [pending |-> "no", forbidden |-> FALSE]

TypeOK ==
    /\ cookie \in Users \cup {None} /\ session \in Users \cup {None}
    /\ auth \in {"none", "me", "signin", "signinMe", "logout"}
    /\ loaded \in BOOLEAN /\ hidden \in BOOLEAN /\ running \in BOOLEAN
    /\ \A u \in Users :
         /\ resource[u].data \in Reading \cup {None}
         /\ resource[u].pending \in Flight \cup {None}
         /\ resource[u].listeners \subseteq Pages
         /\ resource[u].gen \in Nat
    /\ flights \subseteq Flight
    /\ button \in [Pages -> [pending : {"no", "posting", "refreshing"}, forbidden : BOOLEAN]]

-----------------------------------------------------------------------------
\* pollingResource.

Shown(u) == resource[u].listeners
Mounted(p) == session # None /\ p \in Shown(session)

\* refresh: one request for everybody, none while nobody watches or may read.
CanRefresh(u) == Shown(u) # {} /\ ~resource[u].forbidden /\ ~hidden /\ resource[u].pending = None

Request(u) == [user |-> u, gen |-> resource[u].gen, settled |-> FALSE]

Refreshed(u) == [resource[u] EXCEPT !.pending = Request(u), !.refreshing = TRUE]

\* The interval, the page becoming visible, or a reload asked for.
Refresh(u) ==
    /\ CanRefresh(u)
    /\ resource' = [resource EXCEPT ![u] = Refreshed(u)]
    /\ flights' = flights \cup {Request(u)}
    /\ UNCHANGED <<panel, hidden, running, button>>

\* The answer of a request concerns whoever has watched since it was sent.
Concerns(f) == f.gen = resource[f.user].gen /\ Shown(f.user) # {}

Accept(s, f) == [s EXCEPT !.data = [running |-> running, gen |-> f.gen], !.loading = FALSE, !.stale = FALSE]
Reject(s) == [s EXCEPT !.stale = TRUE, !.loading = FALSE]
Forbid(s) == [s EXCEPT !.stale = TRUE, !.loading = FALSE, !.forbidden = TRUE, !.data = None]

\* then and catch of the race between the answer, the deadline and the abort.
Settle(f) ==
    LET s == resource[f.user]
        answers == IF cookie = None THEN {Forbid(s), Reject(s)} ELSE {Accept(s, f), Reject(s)}
    IN  /\ ~f.settled
        /\ \E t \in (IF Concerns(f) THEN answers ELSE {s}) :
             \* what pending points to is the request itself
             resource' = [resource EXCEPT ![f.user] =
                 IF s.pending = f THEN [t EXCEPT !.pending = [f EXCEPT !.settled = TRUE]] ELSE t]
        /\ flights' = (flights \ {f}) \cup {[f EXCEPT !.settled = TRUE]}
        /\ UNCHANGED <<panel, hidden, running, button>>

\* finally: the request is forgotten unless another one has taken its place.
Finally(f) ==
    /\ f.settled
    /\ flights' = flights \ {f}
    /\ IF resource[f.user].pending = f
       THEN resource' = [resource EXCEPT ![f.user].pending = None,
                             ![f.user].refreshing = IF Concerns(f) THEN FALSE ELSE @]
       ELSE UNCHANGED resource
    /\ UNCHANGED <<panel, hidden, running, button>>

\* Mutant: what is kept is still current for the next subscriber.
DroppedQuietly(s, ps) ==
    IF s.listeners \subseteq ps /\ s.listeners # {}
    THEN [s EXCEPT !.listeners = {}, !.gen = @ + 1, !.pending = None, !.refreshing = FALSE]
    ELSE [s EXCEPT !.listeners = @ \ ps]

\* What an unsubscription leaves: the last one invalidates what is known and under way.
Dropped(s, ps) ==
    IF s.listeners \subseteq ps /\ s.listeners # {}
    THEN [s EXCEPT !.listeners = {}, !.gen = @ + 1, !.pending = None, !.refreshing = FALSE,
                   !.stale = (s.data # None \/ s.stale)]
    ELSE [s EXCEPT !.listeners = @ \ ps]

\* A page appears; the first subscriber asks for a reading at once.
Mount(p) ==
    LET s == [resource[session] EXCEPT !.listeners = @ \cup {p}]
        first == Shown(session) = {} /\ ~s.forbidden /\ ~hidden
    IN  /\ session # None /\ p \notin Shown(session)
        /\ Cardinality({x \in Users \X (1..MaxGen) : x[2] <= resource[x[1]].gen}) < MaxGen
        /\ resource' = [resource EXCEPT ![session] =
              IF first THEN [s EXCEPT !.pending = Request(session), !.refreshing = TRUE] ELSE s]
        /\ flights' = IF first THEN flights \cup {Request(session)} ELSE flights
        /\ button' = [button EXCEPT ![p] = Idle]
        /\ UNCHANGED <<panel, hidden, running>>

Unmount(p) ==
    /\ Mounted(p)
    /\ resource' = [resource EXCEPT ![session] = Dropped(@, {p})]
    /\ button' = [button EXCEPT ![p] = Idle]
    /\ UNCHANGED <<panel, hidden, flights, running>>

ToggleVisible ==
    /\ hidden' = ~hidden
    /\ UNCHANGED <<panel, resource, flights, running, button>>

-----------------------------------------------------------------------------
\* useAuth: one session for all components of the page.

\* emitSession: pages of the session that ends unsubscribe from its resource.
Emit(u) ==
    /\ session' = u
    /\ loaded' = TRUE
    /\ resource' = IF session \in Users \ {u}
                   THEN [resource EXCEPT ![session] = Dropped(@, Pages)] ELSE resource
    /\ button' = IF session = u THEN button ELSE [p \in Pages |-> Idle]
    /\ UNCHANGED <<hidden, flights, running>>

Ask(call) == /\ auth = "none" /\ auth' = call
             /\ UNCHANGED <<cookie, session, loaded, hidden, resource, flights, running, button>>

\* loadSession on the first render, then me answers or fails.
LoadSession == ~loaded /\ Ask("me")
SessionLoaded == /\ auth = "me" /\ auth' = "none" /\ UNCHANGED cookie
                 /\ (Emit(cookie) \/ Emit(None))

\* login: POST, which sets the cookie, then me.
Login == session = None /\ loaded /\ Ask("signin")
LoginAnswered ==
    /\ auth = "signin"
    /\ \/ \E u \in Users : cookie' = u /\ auth' = "signinMe"
       \/ auth' = "none" /\ UNCHANGED cookie
    /\ UNCHANGED <<session, loaded, hidden, resource, flights, running, button>>
LoginCompleted ==
    /\ auth = "signinMe" /\ auth' = "none" /\ UNCHANGED cookie
    /\ \/ cookie # None /\ Emit(cookie)
       \/ UNCHANGED <<session, loaded, hidden, resource, flights, running, button>>

\* logout: the cookie goes with the POST, whose failure is ignored; then the session.
Logout == session # None /\ Ask("logout")
LogoutAnswered ==
    /\ auth = "logout" /\ auth' = "none"
    /\ cookie' \in {cookie, None}
    /\ Emit(None)

\* The cookie expires, or is removed by another tab or by the backend.
CookieLost ==
    /\ cookie # None /\ cookie' = None
    /\ UNCHANGED <<session, loaded, auth, hidden, resource, flights, running, button>>

-----------------------------------------------------------------------------
\* withOperationalExecution, runDisabled and startAll's guard: a valid reading says idle.
MayStart(p) ==
    LET s == resource[session]
    IN  /\ Mounted(p) /\ ~button[p].forbidden /\ button[p].pending = "no"
        /\ s.data # None /\ ~s.stale /\ ~s.forbidden
        /\ ~s.data.running

\* runScraper, startAll, toggleScraper: one POST for a page at a time.
Trigger(p) ==
    /\ MayStart(p)
    /\ button' = [button EXCEPT ![p].pending = "posting"]
    /\ UNCHANGED <<panel, hidden, resource, flights, running>>

\* The answer, unless the page is gone: 202 and 409 are followed by a refresh, which joins
\* the request under way; the others end here, and 401 and 403 disable the button.
TriggerAnswered(p) ==
    /\ button[p].pending = "posting"
    /\ \/ /\ cookie # None /\ running' = TRUE
          /\ button' = [button EXCEPT ![p].pending = "refreshing"]
          /\ IF CanRefresh(session)
             THEN /\ resource' = [resource EXCEPT ![session] = Refreshed(session)]
                  /\ flights' = flights \cup {Request(session)}
             ELSE UNCHANGED <<resource, flights>>
       \/ /\ cookie = None /\ button' = [button EXCEPT ![p] = [pending |-> "no", forbidden |-> TRUE]]
          /\ UNCHANGED <<resource, flights, running>>
       \/ /\ button' = [button EXCEPT ![p].pending = "no"]
          /\ running' \in {running, TRUE}   \* the 5 s of scraperClient end first
          /\ UNCHANGED <<resource, flights>>
    /\ UNCHANGED <<panel, hidden>>

\* finally, once the refresh it waited for has ended.
TriggerDone(p) ==
    /\ button[p].pending = "refreshing" /\ resource[session].pending = None
    /\ button' = [button EXCEPT ![p].pending = "no"]
    /\ UNCHANGED <<panel, hidden, resource, flights, running>>

RunEnds == running /\ running' = FALSE
           /\ UNCHANGED <<panel, hidden, resource, flights, button>>

-----------------------------------------------------------------------------
Init ==
    /\ cookie \in Users \cup {None} /\ session = None /\ loaded = FALSE /\ auth = "none"
    /\ hidden = FALSE
    /\ resource = [u \in Users |-> Fresh]
    /\ flights = {}
    /\ running = FALSE
    /\ button = [p \in Pages |-> Idle]

Next ==
    \/ \E u \in Users : Refresh(u)
    \/ \E f \in flights : Settle(f) \/ Finally(f)
    \/ \E p \in Pages : Mount(p) \/ Unmount(p) \/ Trigger(p) \/ TriggerAnswered(p) \/ TriggerDone(p)
    \/ ToggleVisible \/ CookieLost \/ RunEnds
    \/ LoadSession \/ SessionLoaded \/ Login \/ LoginAnswered \/ LoginCompleted
    \/ Logout \/ LogoutAnswered

Spec == Init /\ [][Next]_vars

-----------------------------------------------------------------------------
\* What the panel presents as current was read since somebody has been watching without a
\* break, by a request that is over or the only one under way; who may not read sees nothing.
ReadingIsHonest ==
    \A u \in Users : LET s == resource[u] IN
        /\ Shown(u) # {} /\ s.data # None /\ ~s.stale => s.data.gen = s.gen
        /\ s.forbidden => s.data = None
        /\ s.refreshing = (s.pending # None)
        /\ s.pending # None => s.pending \in flights
        /\ Shown(u) # {} => session = u
=============================================================================
