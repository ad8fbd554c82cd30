----------------------------- MODULE SearchCache -----------------------------
(***************************************************************************)
(* The backend's job search and its page cache: JobSearchCache.search with *)
(* its single flight, the generation and write scripts of Valkey, and the  *)
(* indexed query (snapshot, then hydration) that fills a page.             *)
(*                                                                         *)
(* All requests ask for the same page with the same filters: the key of a  *)
(* cached page is then the generation alone, and other fingerprints never  *)
(* meet these.  The processor's index is an environment that changes under *)
(* the requests: every write and publication moves the generation (that is *)
(* what CatalogIndex shows), and time passes.                              *)
(***************************************************************************)
EXTENDS Integers, FiniteSets, FiniteSetsExt

CONSTANTS Request,     \* requests that may be open at the same time
          Server,      \* backend processes
          JobId,
          PageTTL,     \* JOB_SEARCH_CACHE_TTL_SECONDS
          Lifetimes,   \* how long a job may live when it is written
          MaxTime, MaxChanges, MaxVersion   \* bounds

ASSUME TimeAssumption ==
    /\ PageTTL \in Nat \ {0} /\ Lifetimes \subseteq Nat \ {0}
    /\ Server # {} /\ MaxTime \in Nat /\ MaxChanges \in Nat /\ MaxVersion \in Nat \ {0}

VARIABLES
    now,       \* the clock
    version,   \* scraper:jobs:index-version
    counter,   \* jobs:search:generation
    index,     \* version -> job -> revision and expiry, in its namespace
    cache,     \* the cached pages
    pc,        \* where each request is
    server,    \* the process that serves it
    gen,       \* the generation it read
    query,     \* the version its query reads, and the snapshot it took
    page,      \* the page it will answer with
    flight,    \* the requests whose promise is in an inFlight map
    leader,    \* the request whose promise a request awaits
    start      \* history: counter and clock when the request came in

env == <<now, version, counter, index>>
vars == <<now, version, counter, index, cache, pc, server, gen, query, page,
          flight, leader, start>>

Version == 1..MaxVersion
Entry == [rev : Nat, expires : Nat]
Absent == [rev |-> 0, expires |-> 0]

\* What can be written about a job now.
Revisions(n) == {[rev |-> n, expires |-> now + life] : life \in Lifetimes}

NoGen == [version |-> 0, counter |-> 0, expires |-> 0]
Generation == [version : 0..MaxVersion, counter : Nat, expires : Nat]
Page == [jobs : SUBSET [id : JobId, rev : Nat, expires : Nat], at : Nat]
NoPage == [jobs |-> {}, at |-> 0]
Query == [version : 0..MaxVersion, ids : SUBSET JobId, at : Nat]
NoQuery == [version |-> 0, ids |-> {}, at |-> 0]
NoStart == [counter |-> 0, now |-> 0]

\* The process of a request that is not open.
Anyone == CHOOSE s \in Server : TRUE

Stage == {"idle", "asking", "asked", "reading", "checking", "opening",
          "searching", "hydrating", "writing", "joined", "answered", "failed"}

TypeOK ==
    /\ now \in 0..MaxTime /\ version \in Version /\ counter \in 0..MaxChanges
    /\ index \in [Version -> [JobId -> Entry]]
    /\ cache \subseteq [gen : Generation, page : Page, ttl : 1..PageTTL]
    /\ \A e, f \in cache : e.gen = f.gen => e = f
    /\ pc \in [Request -> Stage]
    /\ gen \in [Request -> Generation]
    /\ server \in [Request -> Server]
    /\ query \in [Request -> Query]
    /\ page \in [Request -> Page]
    /\ flight \subseteq Request
    /\ leader \in [Request -> Request]
    /\ start \in [Request -> [counter : Nat, now : Nat]]

Init ==
    /\ now = 0 /\ version = 1 /\ counter = 0
    /\ \E first \in [JobId -> {Absent} \cup Revisions(1)] :
          index = [v \in Version |-> IF v = 1 THEN first ELSE [j \in JobId |-> Absent]]
    /\ cache = {}
    /\ pc = [r \in Request |-> "idle"]
    /\ gen = [r \in Request |-> NoGen]
    /\ server = [r \in Request |-> Anyone]
    /\ query = [r \in Request |-> NoQuery]
    /\ page = [r \in Request |-> NoPage]
    /\ flight = {}
    /\ leader = [r \in Request |-> r]
    /\ start = [r \in Request |-> NoStart]
-----------------------------------------------------------------------------
\* What Valkey holds.

Indexed(v) == {j \in JobId : index[v][j] # Absent}
Live(v) == {j \in Indexed(v) : index[v][j].expires > now}

\* The smallest score of the namespace's expires ZSET, zero if it is empty.
FirstExpiry ==
    IF Indexed(version) = {} THEN 0
    ELSE Min({index[version][j].expires : j \in Indexed(version)})

\* Stamp without the counter.
VersionStamp == [version |-> version, counter |-> 0, expires |-> FirstExpiry]

\* What both scripts compose.
Stamp == [version |-> version, counter |-> counter, expires |-> FirstExpiry]

\* generationScript without its test for expired members.
LooseStampAt(clock) == Stamp

\* generationScript with the sender's clock: no generation while an expired
\* job awaits its removal.
StampAt(clock) ==
    IF 0 < FirstExpiry /\ FirstExpiry <= clock THEN NoGen ELSE Stamp

\* The clock is read before the script is sent, so it may be behind.
Clocks(r) == start[r].now..now

Documents(v, ids) ==
    {[id |-> j, rev |-> index[v][j].rev, expires |-> index[v][j].expires] :
        j \in ids \cap Live(v)}
-----------------------------------------------------------------------------
\* The processor and time.

Change(new) ==
    /\ counter < MaxChanges
    /\ counter' = counter + 1
    /\ index' = new
    /\ UNCHANGED <<now, cache, pc, server, gen, query, page, flight, leader, start>>

\* A new revision of a job, or the removal of one.
WriteJob(j) ==
    /\ \E e \in Revisions(counter + 2) : Change([index EXCEPT ![version][j] = e])
    /\ UNCHANGED version

RemoveJob(j) ==
    /\ j \in Indexed(version)
    /\ Change([index EXCEPT ![version][j] = Absent])
    /\ UNCHANGED version

\* A rebuilt namespace, without expired jobs, becomes the active one.
Publish ==
    /\ version < MaxVersion
    /\ version' = version + 1
    /\ Change([index EXCEPT ![version + 1] =
                  [j \in JobId |-> IF j \in Live(version) THEN index[version][j] ELSE Absent]])

Tick ==
    /\ now < MaxTime
    /\ now' = now + 1
    /\ cache' = {[e EXCEPT !.ttl = @ - 1] : e \in {x \in cache : x.ttl > 1}}
    /\ UNCHANGED <<version, counter, index, pc, server, gen, query, page, flight,
                   leader, start>>
-----------------------------------------------------------------------------
\* Requests.

Goto(r, stage) == pc' = [pc EXCEPT ![r] = stage]

\* The requests that await the promise of r, and r itself.
Awaiting(r) == {r} \cup {x \in Request : pc[x] = "joined" /\ leader[x] = r}

Begin(r) ==
    /\ pc[r] = "idle"
    /\ Goto(r, "asking")
    /\ \E s \in Server : server' = [server EXCEPT ![r] = s]
    /\ start' = [start EXCEPT ![r] = [counter |-> counter, now |-> now]]
    /\ UNCHANGED <<env, cache, gen, query, page, flight, leader>>

\* The generation is read.  Without one, or if Valkey fails, the query runs
\* without the cache.
AskGeneration(r) ==
    /\ pc[r] = "asking"
    /\ \E g \in {StampAt(c) : c \in Clocks(r)} \cup {NoGen} :
          /\ gen' = [gen EXCEPT ![r] = g]
          /\ Goto(r, IF g = NoGen THEN "opening" ELSE "asked")
    /\ UNCHANGED <<env, cache, server, query, page, flight, leader, start>>

\* The promises in this process's map under this request's key.
InFlight(r) == {l \in flight : server[l] = server[r] /\ gen[l] = gen[r]}

Join(r) ==
    /\ pc[r] = "asked"
    /\ \E l \in InFlight(r) : leader' = [leader EXCEPT ![r] = l]
    /\ Goto(r, "joined")
    /\ UNCHANGED <<env, cache, server, gen, query, page, flight, start>>

\* Lead that does not look into the map.
EagerLead(r) ==
    /\ pc[r] = "asked"
    /\ flight' = flight \cup {r}
    /\ Goto(r, "reading")
    /\ UNCHANGED <<env, cache, server, gen, query, page, leader, start>>

Lead(r) ==
    /\ pc[r] = "asked"
    /\ InFlight(r) = {}
    /\ flight' = flight \cup {r}
    /\ Goto(r, "reading")
    /\ UNCHANGED <<env, cache, server, gen, query, page, leader, start>>

\* A cached page still has to pass the second reading of the generation; a
\* miss or an error goes on to the query.
ReadCache(r) ==
    /\ pc[r] = "reading"
    /\ \/ /\ \E e \in cache : e.gen = gen[r] /\ page' = [page EXCEPT ![r] = e.page]
          /\ Goto(r, "checking")
       \/ /\ Goto(r, "opening")
          /\ UNCHANGED page
    /\ UNCHANGED <<env, cache, server, gen, query, flight, leader, start>>

\* What the calls of the requests in R held goes away.
Over(R) ==
    /\ gen' = [x \in Request |-> IF x \in R THEN NoGen ELSE gen[x]]
    /\ query' = [x \in Request |-> IF x \in R THEN NoQuery ELSE query[x]]
    /\ leader' = [x \in Request |-> IF x \in R THEN x ELSE leader[x]]

\* The promise of r resolves: everyone who awaits it answers with its page, and
\* r takes it out of the map.
Settle(r, p) ==
    /\ pc' = [x \in Request |-> IF x \in Awaiting(r) THEN "answered" ELSE pc[x]]
    /\ page' = [x \in Request |-> IF x \in Awaiting(r) THEN p ELSE page[x]]
    /\ flight' = flight \ {r}
    /\ Over(Awaiting(r))

CheckGeneration(r) ==
    /\ pc[r] = "checking"
    /\ \/ /\ \E c \in Clocks(r) : StampAt(c) = gen[r]
          /\ Settle(r, page[r])
       \/ /\ Goto(r, "opening")
          /\ page' = [page EXCEPT ![r] = NoPage]
          /\ UNCHANGED <<gen, query, flight, leader>>
    /\ UNCHANGED <<env, cache, server, start>>

OpenSearch(r) ==
    /\ pc[r] = "opening"
    /\ query' = [query EXCEPT ![r].version = version]
    /\ Goto(r, "searching")
    /\ UNCHANGED <<env, cache, server, gen, page, flight, leader, start>>

\* candidatesScript: the IDs that are live, if the version is still active.
Snapshot(r) ==
    /\ pc[r] = "searching" /\ query[r].version = version
    /\ query' = [query EXCEPT ![r].ids = Live(version), ![r].at = counter]
    /\ Goto(r, "hydrating")
    /\ UNCHANGED <<env, cache, server, gen, page, flight, leader, start>>

\* The documents that are still there; the page is complete.
Hydrate(r) ==
    /\ pc[r] = "hydrating"
    /\ LET p == [jobs |-> Documents(query[r].version, query[r].ids), at |-> query[r].at]
       IN  IF r \in flight
           THEN /\ page' = [page EXCEPT ![r] = p]
                /\ query' = [query EXCEPT ![r] = NoQuery]
                /\ Goto(r, "writing")
                /\ UNCHANGED <<gen, flight, leader>>
           ELSE Settle(r, p)
    /\ UNCHANGED <<env, cache, server, start>>

\* QueryFails that throws outside of the shared promise.
LonelyQueryFails(r) ==
    /\ pc[r] \in {"opening", "searching", "hydrating"}
    /\ Goto(r, "failed")
    /\ flight' = flight \ {r}
    /\ Over({r})
    /\ UNCHANGED <<env, cache, server, page, start>>

\* Valkey fails, the version has changed or a snapshot has expired: everyone
\* who awaits the promise fails, and it leaves the map.
QueryFails(r) ==
    /\ pc[r] \in {"opening", "searching", "hydrating"}
    /\ pc' = [x \in Request |-> IF x \in Awaiting(r) THEN "failed" ELSE pc[x]]
    /\ flight' = flight \ {r}
    /\ Over(Awaiting(r))
    /\ UNCHANGED <<env, cache, server, page, start>>

\* The page under the key of generation g, for at most ttl.
Stored(g, p, ttl) ==
    {e \in cache : e.gen # g} \cup {[gen |-> g, page |-> p, ttl |-> ttl]}

\* How long a page may be kept: never beyond the first expiry of a job.
Span(clock) ==
    IF FirstExpiry > 0 THEN Min({PageTTL, FirstExpiry - clock}) ELSE PageTTL

\* writeScript: only under an unchanged generation.
WriteScript(r) ==
    \E c \in Clocks(r) :
        IF Stamp = gen[r] /\ Span(c) >= 1
        THEN cache' = Stored(gen[r], page[r], Span(c))
        ELSE UNCHANGED cache

\* Whether the write went through or not, the page is the answer.
WriteCache(r) ==
    /\ pc[r] = "writing"
    /\ WriteScript(r) \/ UNCHANGED cache
    /\ Settle(r, page[r])
    /\ UNCHANGED <<env, server, start>>

\* The answer is sent, and the next request may come.
Leave(r) ==
    /\ pc[r] \in {"answered", "failed"}
    /\ Goto(r, "idle")
    /\ page' = [page EXCEPT ![r] = NoPage]
    /\ start' = [start EXCEPT ![r] = NoStart]
    /\ server' = [server EXCEPT ![r] = Anyone]
    /\ UNCHANGED <<env, cache, gen, query, flight, leader>>

\* Joiners are served by the leader's steps.
Serve(r) ==
    \/ AskGeneration(r) \/ Join(r) \/ Lead(r) \/ ReadCache(r) \/ CheckGeneration(r)
    \/ OpenSearch(r) \/ Snapshot(r) \/ Hydrate(r) \/ QueryFails(r) \/ WriteCache(r)

Next ==
    \/ \E j \in JobId : WriteJob(j) \/ RemoveJob(j)
    \/ Publish \/ Tick
    \/ \E r \in Request : Begin(r) \/ Serve(r) \/ Leave(r)

Spec == Init /\ [][Next]_vars

\* Valkey answers or fails, and the event loop runs what is ready.
FairSpec == Spec /\ \A r \in Request : WF_vars(Serve(r))
-----------------------------------------------------------------------------
\* A page that the cache can still hand out is what a query would find now.
CacheIsExact ==
    \A e \in cache :
        e.gen = StampAt(now) => e.page.jobs = Documents(version, Live(version))

\* No answer is older than its request: it has every change of the index made
\* before the request came in, and no job that had expired by then, be it
\* cached, shared with an earlier request, or queried.
NothingStaleServed ==
    \A r \in Request :
        pc[r] = "answered" =>
            /\ page[r].at >= start[r].counter
            /\ \A j \in page[r].jobs : j.expires > start[r].now

\* One process has one query at a time under one key.
SingleFlight ==
    \A l, m \in flight :
        server[l] = server[m] /\ gen[l] = gen[m] => l = m

\* The map holds promises under way only: a failure is never handed to a
\* request that comes later.
FlightsAreUnderWay ==
    \A l \in flight :
        pc[l] \in {"reading", "checking", "opening", "searching", "hydrating", "writing"}

\* Every request ends, also those that wait for another one's query.
RequestsEnd ==
    \A r \in Request : pc[r] = "asking" ~> pc[r] \in {"answered", "failed"}
=============================================================================
