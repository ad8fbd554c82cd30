---------------------------- MODULE SystemStatus ----------------------------
(***************************************************************************)
(* How the administration tells what works: the health of the services     *)
(* (health.service, HealthOverview), the state the processor publishes     *)
(* (observability.service, OperationalSnapshotPanels) and the overview of  *)
(* the dashboard with the chart of its readings (dashboard.service,        *)
(* useDashboard, PlatformChart).  Each is polled by a resource of its own  *)
(* and they share nothing, so a behaviour follows one of them; AdminPanel  *)
(* models how a resource is shared and left.                               *)
(***************************************************************************)
EXTENDS Integers, Sequences, FiniteSets, Functions

CONSTANTS MaxPolls,   \* bound on what the pages ask for
          MaxChanges, \* bound on what befalls the services meanwhile
          MaxPoints,  \* readings the chart keeps: 24
          None

SystemStatusAssumption == MaxPolls \in Nat /\ MaxChanges \in Nat /\ MaxPoints \in Nat \ {0}

VARIABLES
    services, \* [postgres, valkey, processor, jobs]: how each is, and the jobs in the index
    changes,  \* what befell them so far
    kind,     \* which of the three is polled
    desk,     \* [data, stale, forbidden]: what its resource presents
    chart,    \* the readings of the overview the chart keeps: [at, jobs]
    requests, \* under way: [n, aborted, answer]
    asked,    \* how many the pages made
    heard     \* the answer that last arrived in time, or None

svars == <<services, changes, kind, desk, chart, requests, asked, heard>>

Kinds == {"health", "snapshot", "overview"}

\* The processor is well, misses a store of its own, publishes what the backend cannot read,
\* answers with an error, or does not answer.
Processors == {"ok", "partial", "odd", "failing", "down"}

-----------------------------------------------------------------------------
\* health.service: three checks side by side.
CheckPostgres == services.postgres
CheckValkey == services.valkey
CheckScraper ==
    CASE services.processor = "down" -> "down" [] services.processor = "failing" -> "degraded" [] OTHER -> "ok"

Checks == [postgres |-> CheckPostgres, valkey |-> CheckValkey, scraper |-> CheckScraper]

\* aggregateStatus: the worst of them.
Aggregate(checks) ==
    LET all == {checks[s] : s \in DOMAIN checks} IN
    IF "down" \in all THEN "down" ELSE IF "degraded" \in all THEN "degraded" ELSE "ok"

\* The status of the answer follows it: 200, 207 or 503.
HealthCode(status) == CASE status = "ok" -> 200 [] status = "degraded" -> 207 [] status = "down" -> 503
Health == [code |-> HealthCode(Aggregate(Checks)), data |-> [status |-> Aggregate(Checks), services |-> Checks]]

\* ProcessorSnapshotSchema: what it publishes is complete, and of the values that are known.
Readable(processor) == processor \in {"ok", "partial"}

\* getOperationalSnapshot: always an answer, with no processor when there is none to read.
Snapshot ==
    [code |-> 200, data |-> [processor |-> IF Readable(services.processor) THEN services.processor ELSE None]]

\* DashboardService.getOverview: the counts need both stores, the checks do not.
Overview(n) ==
    IF services.postgres = "down" \/ services.valkey = "down" THEN [code |-> 500, data |-> None]
    ELSE [code |-> 200,
          data |-> [at |-> n, jobs |-> services.jobs, services |-> Checks,
                    scraper |-> IF CheckScraper = "ok" THEN "known" ELSE "down"]]

Reply(r) == CASE kind = "health" -> Health [] kind = "snapshot" -> Snapshot [] kind = "overview" -> Overview(r.n)

-----------------------------------------------------------------------------
Fresh == [data |-> None, stale |-> FALSE, forbidden |-> FALSE]

Poll ==
    /\ asked < MaxPolls /\ ~desk.forbidden
    /\ \A r \in requests : r.aborted
    /\ asked' = asked + 1
    /\ requests' = requests \cup {[n |-> asked + 1, aborted |-> FALSE, answer |-> None]}
    /\ UNCHANGED <<services, changes, kind, desk, chart, heard>>

\* The backend answers; who may not ask, or asks a backend in trouble, gets that instead.
Serve(r) ==
    /\ r.answer = None
    /\ \E a \in {Reply(r), [code |-> 403, data |-> None], [code |-> 500, data |-> None]} :
          requests' = (requests \ {r}) \cup {[r EXCEPT !.answer = a]}
    /\ UNCHANGED <<services, changes, kind, desk, chart, asked, heard>>

\* client.request, with the statuses observabilityApi accepts besides.
Accepted(code) == code \in {200, 207} \/ (kind = "health" /\ code = 503)

\* OperationalSnapshotSchema, which repeats the schema of the backend, or no processor.
Parses(data) == kind = "snapshot" => data.processor \in {"ok", "partial", None}

\* useOperationalSnapshot accepts a snapshot that has a processor.
Accept(data) == kind = "snapshot" => data.processor # None

LastOf(s) == s[Len(s)]
NewestOf(s) == SubSeq(s, IF Len(s) > MaxPoints THEN Len(s) - MaxPoints + 1 ELSE 1, Len(s))

\* appendChartPoint: in the place of a reading of the same moment, or behind the others.
Appended(points, p) ==
    NewestOf(IF points # <<>> /\ LastOf(points).at = p.at
             THEN Append(SubSeq(points, 1, Len(points) - 1), p) ELSE Append(points, p))

\* Mutant: the answer of a request that was given up is put on the chart.
AppendLate(r) == kind = "overview" /\ r.answer.code = 200

\* createDashboardResource.load: unless it was given up meanwhile.
Charts(r) == kind = "overview" /\ r.answer.code = 200 /\ ~r.aborted

Arrive(r) ==
    /\ r.answer # None /\ requests' = requests \ {r}
    /\ chart' = IF Charts(r) THEN Appended(chart, [at |-> r.answer.data.at, jobs |-> r.answer.data.jobs]) ELSE chart
    /\ heard' = IF r.aborted THEN heard ELSE r.answer
    /\ desk' = IF r.aborted THEN desk
               ELSE IF r.answer.code = 403 THEN [Fresh EXCEPT !.stale = TRUE, !.forbidden = TRUE]
               ELSE IF Accepted(r.answer.code) /\ Parses(r.answer.data) /\ Accept(r.answer.data)
               THEN [desk EXCEPT !.data = r.answer.data, !.stale = FALSE] ELSE [desk EXCEPT !.stale = TRUE]
    /\ UNCHANGED <<services, changes, kind, asked>>

\* Eight seconds without an answer.
Deadline(r) ==
    /\ ~r.aborted
    /\ requests' = (requests \ {r}) \cup {[r EXCEPT !.aborted = TRUE]}
    /\ desk' = [desk EXCEPT !.stale = TRUE]
    /\ heard' = None
    /\ UNCHANGED <<services, changes, kind, chart, asked>>

\* A store or the processor fails or comes back, or the index grows.
Befalls ==
    /\ changes < MaxChanges /\ changes' = changes + 1
    /\ \/ \E s \in {"postgres", "valkey"} : services' = [services EXCEPT ![s] = IF @ = "ok" THEN "down" ELSE "ok"]
       \/ \E p \in Processors : services' = [services EXCEPT !.processor = p]
       \/ services' = [services EXCEPT !.jobs = @ + 1]
    /\ UNCHANGED <<kind, desk, chart, requests, asked, heard>>

SInit ==
    /\ services \in [postgres : {"ok"}, valkey : {"ok"}, processor : Processors, jobs : {0}]
    /\ changes = 0
    /\ kind \in Kinds /\ desk = Fresh
    /\ chart = <<>> /\ requests = {} /\ asked = 0
    /\ heard = None

SNext ==
    \/ Befalls \/ Poll
    \/ \E r \in requests : Serve(r) \/ Arrive(r) \/ Deadline(r)

SSpec == SInit /\ [][SNext]_svars

-----------------------------------------------------------------------------
\* What the pages show of it.

\* HealthOverview: a tile for each service, and one for the backend, which answered.
Tile(s) ==
    IF desk.data = None THEN "N/D"
    ELSE IF s = "api" THEN "ok" ELSE desk.data.services[s]

\* toViewModel: how the dashboard lists one.
Listed(s) ==
    CASE desk.data.services[s] = "ok" -> "success" [] desk.data.services[s] = "degraded" -> "warning" [] OTHER -> "danger"

\* OperationalSnapshotPanels: the execution is green only with all of a snapshot.
Unavailable == desk.data = None \/ desk.stale \/ desk.data.processor = "partial"

\* PlatformChart: the change since the last reading, over the window, and of each interval.
Deltas == [i \in 1..(Len(chart) - 1) |-> chart[i + 1].jobs - chart[i].jobs]
WindowDelta == IF chart = <<>> THEN 0 ELSE LastOf(chart).jobs - chart[1].jobs

STypeOK ==
    /\ services.postgres \in {"ok", "down"} /\ services.valkey \in {"ok", "down"}
    /\ services.processor \in Processors /\ services.jobs \in 0..MaxChanges /\ changes \in 0..MaxChanges
    /\ kind \in Kinds /\ {desk.stale, desk.forbidden} \subseteq BOOLEAN
    /\ Len(chart) <= MaxPoints /\ \A i \in DOMAIN chart : chart[i].at \in 1..MaxPolls
    /\ asked \in 0..MaxPolls /\ \A r \in requests : r.n \in 1..asked

Told == IF heard = None THEN None ELSE heard.data

\* What is not marked as old is what was answered last, and an answer that tells of a
\* failure is a reading like any other: the tiles are the checks of that answer, green and
\* red alike, and the processor is green only by a whole snapshot.
StatusIsHonest ==
    /\ desk.data # None /\ ~desk.stale => Told = desk.data
    /\ kind = "health" /\ Told # None =>
          /\ ~desk.stale
          /\ \A s \in DOMAIN Checks : Tile(s) = Told.services[s]
          /\ Told.status = "ok" <=> \A s \in DOMAIN Checks : Tile(s) = "ok"
    /\ kind = "overview" /\ desk.data # None =>
          \A s \in DOMAIN Checks : Listed(s) = "success" <=> desk.data.services[s] = "ok"
    /\ kind = "snapshot" /\ ~Unavailable => Told.processor = "ok"
    /\ desk.forbidden => desk.data = None

\* The chart holds the readings that were presented, each once and in their order, the last
\* of which is the one on the page; its bars add up to the change of its window.
ChartIsOfReadings ==
    /\ \A i \in 1..(Len(chart) - 1) : chart[i].at < chart[i + 1].at
    /\ kind = "overview" /\ desk.data # None =>
          chart # <<>> /\ LastOf(chart) = [at |-> desk.data.at, jobs |-> desk.data.jobs]
    /\ WindowDelta = SumFunction(Deltas)
=============================================================================
