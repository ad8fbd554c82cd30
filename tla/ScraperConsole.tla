--------------------------- MODULE ScraperConsole ---------------------------
(***************************************************************************)
(* Starting the processing and clearing the search cache from the page of  *)
(* the scrapers (front_admin useScrapers, ScraperCard), through the        *)
(* backend's ScrapersController and scraperClient, which gives up after    *)
(* five seconds, to the processor, which may take a request that its       *)
(* caller no longer waits for.  Scheduler models what the processor does   *)
(* with a run.                                                             *)
(* Below them is the inventory (front_admin catalogInventory): the active  *)
(* jobs of the catalog by source, as the processor groups them.  A source  *)
(* is free text: the names it lists, some with a qualifier, as in          *)
(* "Gupy:acme, LinkedIn".  It shares no state with the requests.           *)
(* CatalogIndex models how the catalog changes.                            *)
(***************************************************************************)
EXTENDS Naturals, Sequences, FiniteSets, FiniteSetsExt

CONSTANTS MaxRequests, \* bound on what the page asks for
          MaxVisits,   \* bound on how often it is opened
          MaxTicks,    \* bound on runs the schedule starts
          Sources,     \* the texts: sequences of [name, qualified], blanks left out
          Providers,   \* names the code knows
          MaxJobs,     \* bound on the jobs of one source
          None

ScraperConsoleAssumption ==
    /\ MaxRequests \in Nat /\ MaxVisits \in Nat \ {0} /\ MaxTicks \in Nat
    /\ Sources \subseteq Seq([name : STRING, qualified : BOOLEAN]) /\ Providers \subseteq STRING
    /\ "unknown" \notin Providers /\ MaxJobs \in Nat /\ None \notin {200, 202, 403, 409}

VARIABLES
    processor, \* [running, lock, ticks], lock: the store of the lock answers
    outcome,   \* what the processor did with each request: id -> outcome
    page,      \* [visit, open, active, pending, starting, clearing, forbidden]
    requests,  \* [id, kind, visit, taken, reply]
    asked,     \* how many the page made
    told,      \* what the page said of each: set of [id, what]
    audited,   \* the requests the audit trail names
    configured, \* the providers the processor was started with; None from one that does not tell
    groups,     \* what was read: source -> how many active jobs, or None if they were not grouped
    total       \* and how many there are

cvars == <<processor, outcome, page, requests, asked, told, audited>>
ivars == <<configured, groups, total>>

RequestIds == 1..MaxRequests
Outcomes == {"accepted", "running", "unavailable", "cleared"}

CTypeOK ==
    /\ processor \in [running : BOOLEAN, lock : BOOLEAN, ticks : 0..MaxTicks]
    /\ outcome \in [RequestIds -> Outcomes \cup {None}]
    /\ page \in [visit : 1..MaxVisits, open : BOOLEAN, active : BOOLEAN \cup {None}, pending : {None, "asked", "reading"},
                 starting : BOOLEAN, clearing : {None, "asked", "reading"}, forbidden : BOOLEAN]
    /\ requests \subseteq [id : RequestIds, kind : {"run", "clear"}, visit : 1..MaxVisits, taken : BOOLEAN,
                           reply : {None, 200, 202, 403, 409, 500, 503}]
    /\ asked \in 0..MaxRequests /\ audited \subseteq RequestIds
    /\ told \subseteq [id : RequestIds, what : {"started", "running", "cleared", "failed"}]

-----------------------------------------------------------------------------
\* The page is opened: nothing is read yet.
Opened(visit) == [visit |-> visit, open |-> TRUE, active |-> None, pending |-> None, starting |-> FALSE,
                  clearing |-> None, forbidden |-> FALSE]
Open ==
    /\ ~page.open /\ page.visit < MaxVisits
    /\ page' = Opened(page.visit + 1)
    /\ UNCHANGED <<processor, outcome, requests, asked, told, audited>>

Leave ==
    /\ page.open /\ page' = [page EXCEPT !.open = FALSE]
    /\ UNCHANGED <<processor, outcome, requests, asked, told, audited>>

\* The card shows whether the processor ran when it was last read.
Read ==
    /\ page.open /\ page' = [page EXCEPT !.active = processor.running]
    /\ UNCHANGED <<processor, outcome, requests, asked, told, audited>>

Ask(kind) ==
    /\ asked < MaxRequests /\ asked' = asked + 1
    /\ requests' = requests \cup {[id |-> asked + 1, kind |-> kind, visit |-> page.visit, taken |-> FALSE, reply |-> None]}

\* runScraper, from a card that is not disabled.
RunScraper ==
    /\ page.open /\ page.active = FALSE /\ ~page.starting /\ ~page.forbidden /\ page.pending = None
    /\ Ask("run") /\ page' = [page EXCEPT !.pending = "asked", !.starting = TRUE]
    /\ UNCHANGED <<processor, outcome, told, audited>>

\* clearJobsCache, beside it.
ClearJobsCache ==
    /\ page.open /\ page.clearing = None
    /\ Ask("clear") /\ page' = [page EXCEPT !.clearing = "asked"]
    /\ UNCHANGED <<processor, outcome, told, audited>>

-----------------------------------------------------------------------------
\* The processor: one run at a time, over by itself or started by the schedule; the store
\* of its lock may stop answering.
RunEnds ==
    /\ processor.running /\ processor' = [processor EXCEPT !.running = FALSE]
    /\ UNCHANGED <<outcome, page, requests, asked, told, audited>>
Tick ==
    /\ processor.ticks < MaxTicks
    /\ \/ ~processor.running /\ processor' = [processor EXCEPT !.running = TRUE, !.ticks = @ + 1]
       \/ processor' = [processor EXCEPT !.lock = ~@, !.ticks = @ + 1]
    /\ UNCHANGED <<outcome, page, requests, asked, told, audited>>

Verdict == IF ~processor.lock THEN "unavailable" ELSE IF processor.running THEN "running" ELSE "accepted"

Heard == {t.id : t \in told}

\* A request to run is taken, also when nobody waits for it any more.
Take(r) ==
    /\ r.kind = "run" /\ ~r.taken
    /\ outcome' = [outcome EXCEPT ![r.id] = Verdict]
    /\ processor' = [processor EXCEPT !.running = @ \/ Verdict = "accepted"]
    /\ requests' = IF r.id \in Heard THEN requests \ {r} ELSE (requests \ {r}) \cup {[r EXCEPT !.taken = TRUE]}
    /\ UNCHANGED <<page, asked, told, audited>>

\* The answer of the processor, as scraperClient reads it and the controller passes it on.
\* Mutant: an answer that is neither 409 nor a success is read as one.
StatusUnchecked(verdict) == IF verdict = "running" THEN 409 ELSE 202

Status(verdict) == CASE verdict = "accepted" -> 202 [] verdict = "running" -> 409 [] verdict = "unavailable" -> 503

Reply(r, status) == requests' = (requests \ {r}) \cup {[r EXCEPT !.reply = status]}
Refuse(r) == requests' = (requests \ {r}) \cup {[r EXCEPT !.reply = 403, !.taken = TRUE]}

\* ScrapersController.triggerOne: who may run is asked first; a run that was accepted is
\* put on the audit trail, or the attempt to put it there fails unnoticed.
Answer(r) ==
    /\ r.kind = "run" /\ r.reply = None
    /\ \/ ~r.taken /\ Refuse(r) /\ UNCHANGED audited
       \/ /\ r.taken /\ Reply(r, Status(outcome[r.id]))
          /\ audited' \in {audited, IF Status(outcome[r.id]) = 202 THEN audited \cup {r.id} ELSE audited}
    /\ UNCHANGED <<processor, outcome, page, asked, told>>

\* Five seconds without an answer: the request may still be taken.
GiveUp(r) ==
    /\ r.kind = "run" /\ r.reply = None /\ Reply(r, 500)
    /\ UNCHANGED <<processor, outcome, page, asked, told, audited>>

Clear(r) ==
    /\ r.kind = "clear" /\ r.reply = None
    /\ \/ Reply(r, 200) /\ outcome' = [outcome EXCEPT ![r.id] = "cleared"]
       \/ Reply(r, 500) /\ UNCHANGED outcome
    /\ UNCHANGED <<processor, page, asked, told, audited>>

-----------------------------------------------------------------------------
\* The answer arrives at the page, if it is still the one that asked; a request that the
\* processor has yet to take stays on its way.
What(status) == CASE status = 202 -> "started" [] status = 409 -> "running" [] status = 200 -> "cleared" [] OTHER -> "failed"
Field(r) == IF r.kind = "run" THEN "pending" ELSE "clearing"

Hear(r) ==
    /\ r.reply # None /\ r.id \notin Heard
    /\ page.open /\ page.visit = r.visit
    /\ told' = told \cup {[id |-> r.id, what |-> What(r.reply)]}
    /\ page' = [page EXCEPT ![Field(r)] = IF What(r.reply) = "failed" THEN None ELSE "reading",
                            !.starting = @ /\ ~(r.kind = "run" /\ What(r.reply) = "failed"),
                            !.forbidden = @ \/ r.reply = 403]
    /\ requests' = IF r.kind = "run" /\ ~r.taken THEN requests ELSE requests \ {r}
    /\ UNCHANGED <<processor, outcome, asked, audited>>

\* What was read again has arrived.
Reread(field) ==
    /\ page.open /\ page[field] = "reading"
    /\ page' = [page EXCEPT ![field] = None, !.active = processor.running,
                            !.starting = @ /\ field # "pending"]
    /\ UNCHANGED <<processor, outcome, requests, asked, told, audited>>

CInit ==
    /\ processor \in [running : BOOLEAN, lock : {TRUE}, ticks : {0}]
    /\ outcome = [i \in RequestIds |-> None]
    /\ page = Opened(1)
    /\ requests = {} /\ asked = 0 /\ told = {} /\ audited = {}

CNext ==
    \/ Open \/ Leave \/ Read \/ RunScraper \/ ClearJobsCache \/ RunEnds \/ Tick
    \/ \E r \in requests : Take(r) \/ Answer(r) \/ GiveUp(r) \/ Clear(r) \/ Hear(r)
    \/ \E f \in {"pending", "clearing"} : Reread(f)

CSpec == CInit /\ [][CNext]_cvars

-----------------------------------------------------------------------------
\* What the page said of a request is what became of it, and the trail names only runs that
\* were accepted: whatever was given up, refused or taken late in between.
ToldIsTrue ==
    /\ \A t \in told : /\ t.what = "started" => outcome[t.id] = "accepted"
                       /\ t.what = "running" => outcome[t.id] = "running"
                       /\ t.what = "cleared" => outcome[t.id] = "cleared"
    /\ \A i \in audited : outcome[i] = "accepted"

\* A button that says it is starting waits for an answer, or for what is read after it.
StartIsFreed ==
    page.open /\ page.starting =>
        page.pending = "reading" \/ \E r \in requests : r.kind = "run" /\ r.visit = page.visit /\ r.id \notin Heard

-----------------------------------------------------------------------------
(* The inventory *)

ITypeOK ==
    /\ configured = None \/ configured \subseteq Providers \cup {"unknown"}
    /\ groups = None \/ groups \in [Sources -> 0..MaxJobs]
    /\ total \in Nat

JobsOf(S) == MapThenSumSet(LAMBDA s : groups[s], S)
Grouped == groups # None
Present == {s \in Sources : groups[s] > 0}

-----------------------------------------------------------------------------
\* metrics.Provider goes by the text before the first qualifier, commas and all.
Provider(s) ==
    IF Len(s) > 0 /\ (s[1].qualified \/ Len(s) = 1) /\ s[1].name \in Providers THEN s[1].name ELSE "unknown"

\* normalizeSource: the names of a text, each once; the qualifier matters to those unknown.
Names(s) == {IF s[i].name \in Providers THEN <<s[i].name>> ELSE <<"value", s[i]>> : i \in DOMAIN s}

\* Mutant: what the processor takes a text for goes before what it lists.
RowOfProvider(s) == IF Provider(s) # "unknown" THEN {<<Provider(s)>>} ELSE Names(s)

\* The row of a group: all its names, none for a text without any; of a single one the
\* provider goes first.
Row(s) == IF Cardinality(Names(s)) = 1 /\ Provider(s) # "unknown" THEN {<<Provider(s)>>} ELSE Names(s)

\* buildCatalogInventory: a row for each provider configured and each group.
Configured == IF configured = None THEN {} ELSE {{<<p>>} : p \in configured}
Rows == Configured \cup (IF Grouped THEN {Row(s) : s \in Present} ELSE {})
Shown(row) == IF Grouped THEN JobsOf({s \in Present : Row(s) = row}) ELSE None
Observed(row) == IF Grouped THEN Shown(row) > 0 ELSE None

\* What a row says of the configuration: nothing where it cannot be told.
IsConfigured(row) ==
    IF row \in Configured THEN TRUE
    ELSE IF row = {} \/ configured = None \/ ("unknown" \in configured /\ ~\E p \in Providers : row = {<<p>>}) THEN None
    ELSE FALSE

-----------------------------------------------------------------------------
\* handleJobsCount: groups and total are of one statement; when the grouping fails the total
\* is counted without it.
JobsCount ==
    /\ \/ groups' \in [Sources -> 0..MaxJobs] /\ total' = MapThenSumSet(LAMBDA s : groups'[s], Sources)
       \/ groups' = None /\ total' \in 0..MaxJobs
    /\ UNCHANGED configured

IInit ==
    /\ configured \in {None} \cup SUBSET (Providers \cup {"unknown"})
    /\ groups = None /\ total = 0

ISpec == IInit /\ [][JobsCount]_ivars

-----------------------------------------------------------------------------
\* Every job is counted in one row, never in those of each of its sources, and the rows add
\* up to the total shown above them.
CountedOnce == Grouped => MapThenSumSet(Shown, Rows) = total

\* The row of a provider has the jobs that have it for their only source, however it is
\* spelled; it is configured or not as the processor says, whatever the catalog holds.
RowIsOfProvider ==
    \A p \in Providers :
        /\ Grouped => Shown({<<p>>}) = JobsOf({s \in Sources : Len(s) > 0 /\ \A i \in DOMAIN s : s[i].name = p})
        /\ {<<p>>} \in Rows /\ configured # None => IsConfigured({<<p>>}) = (p \in configured)
=============================================================================
