-------------------------- MODULE SearchCacheProofs --------------------------
(***************************************************************************)
(* SearchCache for any requests, processes, jobs and bounds.  First the    *)
(* single flight: the map of queries under way holds one promise per       *)
(* process and key, and never one that has been settled.  Then exactness:  *)
(* what the cache can still hand out is what a query would find, and no    *)
(* answer is older than its request.                                       *)
(***************************************************************************)
EXTENDS SearchCache, WellFoundedInduction, TLAPS

UnderWay == {"reading", "checking", "opening", "searching", "hydrating", "writing"}

\* The stages are what they can be, and every other local state has an entry
\* for every request.
Shape ==
    /\ pc \in [Request -> Stage]
    /\ gen = [x \in Request |-> gen[x]]
    /\ server = [x \in Request |-> server[x]]
    /\ flight \subseteq Request

FlightInv == Shape /\ FlightsAreUnderWay /\ SingleFlight

\* No request has come.
LEMMA FlightInit == Init => FlightInv
BY DEF Init, FlightInv, Shape, FlightsAreUnderWay, SingleFlight, Stage

\* A step that moves requests between stages, takes promises out of the map but
\* adds none, and leaves what a request in the map holds.
LEMMA FlightShrinks ==
    ASSUME FlightInv, Shape', flight' \subseteq flight,
           \A l \in flight' : pc'[l] \in UnderWay
                              /\ gen'[l] = gen[l] /\ server'[l] = server[l]
    PROVE  FlightInv'
BY DEF FlightInv, FlightsAreUnderWay, SingleFlight, UnderWay

\* Requests that await the promise of r are not in the map themselves, but r is.
LEMMA AwaitingAreJoined ==
    ASSUME FlightInv, NEW r \in Request
    PROVE  \A l \in flight \ {r} : l \notin Awaiting(r)
BY DEF FlightInv, FlightsAreUnderWay, Awaiting

\* Steps of the environment leave the requests alone.
LEMMA EnvironmentKeepsFlight ==
    ASSUME FlightInv, UNCHANGED <<pc, gen, server, flight>>
    PROVE  FlightInv'
BY DEF FlightInv, Shape, FlightsAreUnderWay, SingleFlight

\* The end of a promise, kept or broken.
LEMMA EndKeepsFlight ==
    ASSUME FlightInv, NEW r \in Request, NEW stage \in Stage,
           pc' = [x \in Request |-> IF x \in Awaiting(r) THEN stage ELSE pc[x]],
           flight' = flight \ {r}, Over(Awaiting(r)), UNCHANGED server
    PROVE  FlightInv'
<1>1. Shape'
  BY DEF FlightInv, Shape, Over
<1>2. \A l \in flight' : pc'[l] \in UnderWay /\ gen'[l] = gen[l] /\ server'[l] = server[l]
  BY AwaitingAreJoined DEF FlightInv, Shape, FlightsAreUnderWay, UnderWay, Over
<1>3. QED
  BY <1>1, <1>2, FlightShrinks

LEMMA FlightStep == FlightInv /\ [Next]_vars => FlightInv'
<1> SUFFICES ASSUME FlightInv, [Next]_vars PROVE FlightInv'
  OBVIOUS
<1>1. CASE (\E j \in JobId : WriteJob(j) \/ RemoveJob(j)) \/ Publish \/ Tick \/ UNCHANGED vars
  BY <1>1, EnvironmentKeepsFlight DEF WriteJob, RemoveJob, Publish, Change, Tick, vars
<1>2. ASSUME NEW r \in Request, Begin(r) \/ AskGeneration(r) \/ Leave(r) PROVE FlightInv'
  <2>1. r \notin flight
    BY <1>2 DEF FlightInv, FlightsAreUnderWay, Begin, AskGeneration, Leave
  <2>2. Shape'
    BY <1>2 DEF FlightInv, Shape, Begin, AskGeneration, Leave, Goto, Stage
  <2>3. flight' = flight /\ \A l \in flight : pc'[l] = pc[l] /\ gen'[l] = gen[l] /\ server'[l] = server[l]
    BY <1>2, <2>1 DEF FlightInv, Shape, Begin, AskGeneration, Leave, Goto
  <2>4. QED
    BY <2>2, <2>3, FlightShrinks DEF FlightInv, FlightsAreUnderWay, UnderWay
<1>3. ASSUME NEW r \in Request, Join(r) PROVE FlightInv'
  <2>1. r \notin flight
    BY <1>3 DEF FlightInv, FlightsAreUnderWay, Join
  <2>2. Shape'
    BY <1>3 DEF FlightInv, Shape, Join, Goto, Stage
  <2>3. flight' = flight /\ \A l \in flight : pc'[l] = pc[l] /\ gen'[l] = gen[l] /\ server'[l] = server[l]
    BY <1>3, <2>1 DEF FlightInv, Shape, Join, Goto
  <2>4. QED
    BY <2>2, <2>3, FlightShrinks DEF FlightInv, FlightsAreUnderWay, UnderWay
<1>4. ASSUME NEW r \in Request, Lead(r) PROVE FlightInv'
  <2>1. Shape'
    BY <1>4 DEF FlightInv, Shape, Lead, Goto, Stage
  <2>2. FlightsAreUnderWay'
    BY <1>4 DEF FlightInv, Shape, FlightsAreUnderWay, Lead, Goto
  <2>3. SingleFlight'
    BY <1>4 DEF FlightInv, SingleFlight, Lead, InFlight
  <2>4. QED
    BY <2>1, <2>2, <2>3 DEF FlightInv
<1>5. ASSUME NEW r \in Request, ReadCache(r) \/ OpenSearch(r) \/ Snapshot(r)
      PROVE  FlightInv'
  <2>1. Shape' /\ flight' = flight /\ UNCHANGED <<gen, server>>
    BY <1>5 DEF FlightInv, Shape, ReadCache, OpenSearch, Snapshot, Goto, Stage
  <2>2. \A l \in flight : pc'[l] \in UnderWay
    BY <1>5 DEF FlightInv, Shape, FlightsAreUnderWay, UnderWay, ReadCache, OpenSearch, Snapshot, Goto
  <2>3. QED
    BY <2>1, <2>2, FlightShrinks
<1>6. ASSUME NEW r \in Request, CheckGeneration(r) PROVE FlightInv'
  <2>1. CASE Settle(r, page[r]) /\ UNCHANGED server
    BY <2>1, EndKeepsFlight DEF Settle, Stage
  <2>2. CASE Goto(r, "opening") /\ UNCHANGED <<gen, server, flight>>
    <3>1. Shape'
      BY <2>2 DEF FlightInv, Shape, Goto, Stage
    <3>2. \A l \in flight : pc'[l] \in UnderWay
      BY <2>2 DEF FlightInv, Shape, FlightsAreUnderWay, UnderWay, Goto
    <3>3. QED
      BY <2>2, <3>1, <3>2, FlightShrinks
  <2>3. QED
    BY <1>6, <2>1, <2>2 DEF CheckGeneration
<1>7. ASSUME NEW r \in Request, Hydrate(r) PROVE FlightInv'
  <2> DEFINE p == [jobs |-> Documents(query[r].version, query[r].ids), at |-> query[r].at]
  <2>1. CASE Settle(r, p) /\ UNCHANGED server
    BY <2>1, EndKeepsFlight DEF Settle, Stage
  <2>2. CASE Goto(r, "writing") /\ UNCHANGED <<gen, server, flight>>
    <3>1. Shape'
      BY <2>2 DEF FlightInv, Shape, Goto, Stage
    <3>2. \A l \in flight : pc'[l] \in UnderWay
      BY <2>2 DEF FlightInv, Shape, FlightsAreUnderWay, UnderWay, Goto
    <3>3. QED
      BY <2>2, <3>1, <3>2, FlightShrinks
  <2>3. QED
    BY <1>7, <2>1, <2>2 DEF Hydrate
<1>8. ASSUME NEW r \in Request, QueryFails(r) PROVE FlightInv'
  BY <1>8, EndKeepsFlight DEF QueryFails, Stage
<1>9. ASSUME NEW r \in Request, WriteCache(r) PROVE FlightInv'
  BY <1>9, EndKeepsFlight DEF WriteCache, Settle, Stage
<1>10. QED
  BY <1>1, <1>2, <1>3, <1>4, <1>5, <1>6, <1>7, <1>8, <1>9 DEF Next, Serve

LEMMA FlightInvariance == Spec => []FlightInv
<1>1. QED
  BY FlightInit, FlightStep, PTL DEF Spec

\* One process has at most one query under way for one page and generation,
\* however many requests, processes and jobs there are: JobSearchCache.search
\* never finds its map empty while another request is filling it.
THEOREM OneQueryPerKey == Spec => []SingleFlight
<1>1. FlightInv => SingleFlight
  BY DEF FlightInv
<1>2. QED
  BY <1>1, FlightInvariance, PTL

\* A promise leaves the map in the step that settles it: a failed query is never
\* handed to a request that comes later.
THEOREM NoSettledFlight == Spec => []FlightsAreUnderWay
<1>1. FlightInv => FlightsAreUnderWay
  BY DEF FlightInv
<1>2. QED
  BY <1>1, FlightInvariance, PTL
-----------------------------------------------------------------------------
\* Exactness: what an answer and a cached page hold.

\* The documents of a namespace, whether they have expired or not.
Documented(v) == {[id |-> j, rev |-> index[v][j].rev, expires |-> index[v][j].expires] : j \in Indexed(v)}
Unexpired == FirstExpiry = 0 \/ FirstExpiry > now
Current(g) == g.counter = counter

\* What is indexed expires at some time.
IndexInv == \A v \in Version : \A j \in Indexed(v) : index[v][j].expires > 0

\* A page was found under its generation, and none of its jobs expires before that
\* generation does.  While the generation is the current one the page is the whole index.
Keeps(g, p) == g.version >= 1 /\ g.counter <= counter /\ p.at >= g.counter /\ (Current(g) => g = Stamp)
Outlives(g, p) == \A j \in p.jobs : g.expires > 0 /\ j.expires >= g.expires
IsWhole(g, p) == Current(g) /\ Unexpired => p.jobs = Documented(version)
CacheInv == \A e \in cache : Keeps(e.gen, e.page) /\ Outlives(e.gen, e.page) /\ IsWhole(e.gen, e.page)

\* What a request knows is no older than the request.
Asked == {"asked", "joined"} \cup UnderWay
Knows(r) ==
    /\ start[r].counter <= counter /\ start[r].now <= now
    /\ gen[r] # NoGen =>
          /\ pc[r] \in Asked
          /\ start[r].counter <= gen[r].counter /\ gen[r].counter <= counter /\ gen[r].version >= 1
          /\ gen[r].expires = 0 \/ gen[r].expires > start[r].now
          /\ Current(gen[r]) => gen[r] = Stamp
    /\ r \in flight \/ pc[r] \in {"asked", "joined"} => gen[r] # NoGen
    /\ pc[r] = "reading" => r \in flight
    /\ pc[r] = "joined" => leader[r] \in flight /\ gen[leader[r]] = gen[r]
KnowsInv == \A r \in Request : Knows(r)

\* A query under an unchanged generation reads the whole index of that generation.
IsRead(r) == gen[r] # NoGen /\ Current(gen[r])
Queries(r) ==
    /\ pc[r] \in {"searching", "hydrating"} =>
          query[r].version \in Version /\ (IsRead(r) => query[r].version = version)
    /\ pc[r] = "hydrating" =>
          /\ query[r].at >= start[r].counter /\ query[r].at >= gen[r].counter
          /\ IsRead(r) => Live(version) \subseteq query[r].ids /\ query[r].ids \subseteq Indexed(version)
QueryInv == \A r \in Request : Queries(r)

\* And so does its page, which may go to everyone who read the same generation.
SafeFor(r, x) == gen[x] = gen[r] => \A j \in page[r].jobs : j.expires > start[x].now
Pages(r) ==
    pc[r] \in {"checking", "writing"} =>
        /\ r \in flight /\ page[r].at >= gen[r].counter
        /\ Current(gen[r]) => Outlives(gen[r], page[r])
        /\ pc[r] = "writing" => IsWhole(gen[r], page[r])
        /\ \A x \in Request : SafeFor(r, x)
PageInv == \A r \in Request : Pages(r)

Fresh(r) == pc[r] = "answered" => page[r].at >= start[r].counter /\ \A j \in page[r].jobs : j.expires > start[r].now

Rest == CacheInv /\ KnowsInv /\ QueryInv /\ PageInv /\ NothingStaleServed

\* The inductive invariant.
Exact == TypeOK /\ IndexInv /\ FlightInv /\ Rest

\* A set of numbers has a least one.
LEMMA MinFacts ==
    ASSUME NEW S \in SUBSET Nat, S # {}
    PROVE  Min(S) \in S /\ \A n \in S : Min(S) <= n
<1> DEFINE R == OpToRel(<, Nat)
<1>1. IsWellFoundedOn(R, Nat)
  BY NatLessThanWellFounded
<1>2. \A x, y \in Nat : x < y => <<x, y>> \in R
  BY DEF OpToRel
<1> HIDE DEF R
<1>3. \E x \in S : \A y \in S : ~(<<y, x>> \in R)
  BY <1>1, WFMin
<1>4. PICK x \in S : \A y \in S : ~(<<y, x>> \in R)
  BY <1>3
<1>5. \A y \in S : ~(y < x)
  BY <1>2, <1>4
<1>6. \A y \in S : x <= y
  BY <1>5
<1>7. QED
  BY <1>6 DEF Min

\* FirstExpiry is when the first of the indexed jobs expires, and 0 without any.
LEMMA ExpiryFacts ==
    ASSUME TypeOK, IndexInv
    PROVE  /\ FirstExpiry \in Nat
           /\ \A j \in Indexed(version) : 0 < FirstExpiry /\ FirstExpiry <= index[version][j].expires
           /\ Unexpired => Live(version) = Indexed(version)
<1> DEFINE E == {index[version][j].expires : j \in Indexed(version)}
<1>1. \A j \in Indexed(version) : index[version][j].expires \in Nat \ {0}
  BY DEF TypeOK, IndexInv, Indexed, Entry
<1>2. E \in SUBSET Nat /\ \A n \in E : n > 0
  BY <1>1
<1>3. CASE Indexed(version) = {}
  BY <1>3 DEF FirstExpiry, Live
<1>4. CASE Indexed(version) # {}
  <2>1. E # {} /\ FirstExpiry = Min(E)
    BY <1>4 DEF FirstExpiry
  <2>2. Min(E) \in E /\ \A n \in E : Min(E) <= n
    BY <1>2, <2>1, MinFacts
  <2>3. \A j \in Indexed(version) : index[version][j].expires \in E
    OBVIOUS
  <2>4. FirstExpiry \in Nat \ {0} /\ \A j \in Indexed(version) : FirstExpiry <= index[version][j].expires
    <3> HIDE DEF E
    <3>1. QED
      BY <1>2, <2>1, <2>2, <2>3
  <2>5. Unexpired => \A j \in Indexed(version) : index[version][j].expires > now
    BY <1>1, <2>4 DEF Unexpired, TypeOK
  <2>6. QED
    BY <2>4, <2>5 DEF Live
<1>5. QED
  BY <1>3, <1>4

\* A generation that is handed out is the stamp, and nothing had expired by the sender's clock.
LEMMA StampFacts ==
    ASSUME TypeOK, IndexInv
    PROVE  /\ Stamp \in Generation /\ Stamp # NoGen /\ NoGen \in Generation
           /\ \A c \in Nat : StampAt(c) \in {Stamp, NoGen} /\ (StampAt(c) = Stamp => FirstExpiry = 0 \/ FirstExpiry > c)
           /\ Stamp.version = version /\ Stamp.counter = counter /\ Stamp.expires = FirstExpiry
<1>1. FirstExpiry \in Nat /\ version \in Nat \ {0} /\ version \in 0..MaxVersion /\ counter \in Nat
  BY ExpiryFacts, TimeAssumption DEF TypeOK, Version
<1>2. Stamp \in Generation /\ NoGen \in Generation
  BY <1>1, TimeAssumption DEF Stamp, NoGen, Generation
<1>3. Stamp.version # NoGen.version
  BY <1>1 DEF Stamp, NoGen
<1>4. QED
  BY <1>1, <1>2, <1>3 DEF StampAt, Stamp

LEMMA ClockFacts ==
    ASSUME TypeOK, KnowsInv, NEW r \in Request, NEW c \in Clocks(r)
    PROVE  c \in Nat /\ start[r].now <= c /\ c <= now
<1>1. start[r].now \in Nat /\ now \in Nat
  BY TimeAssumption DEF TypeOK
<1>2. QED
  BY <1>1 DEF Clocks

LEMMA DocumentType ==
    ASSUME TypeOK, NEW v \in Version, NEW ids
    PROVE  /\ Documents(v, ids) \in SUBSET [id : JobId, rev : Nat, expires : Nat]
           /\ \A d \in Documents(v, ids) : d.expires > now
           /\ ids \subseteq Indexed(v) => Documents(v, ids) \subseteq Documented(v)
<1>1. \A j \in JobId : index[v][j].rev \in Nat /\ index[v][j].expires \in Nat
  BY DEF TypeOK, Entry
<1>2. \A j \in Live(v) : j \in JobId /\ index[v][j].expires > now /\ j \in Indexed(v)
  BY DEF Live, Indexed
<1>3. QED
  BY <1>1, <1>2 DEF Documents, Documented

-----------------------------------------------------------------------------
\* Types.

LEMMA NothingTypes ==
    NoGen \in Generation /\ NoPage \in Page /\ NoQuery \in Query /\ NoStart \in [counter : Nat, now : Nat]
BY TimeAssumption DEF NoGen, Generation, NoPage, Page, NoQuery, Query, NoStart

LEMMA TypeInit == Init => TypeOK /\ IndexInv
<1> SUFFICES ASSUME Init PROVE TypeOK /\ IndexInv
  OBVIOUS
<1>1. PICK first \in [JobId -> {Absent} \cup Revisions(1)] :
        index = [v \in Version |-> IF v = 1 THEN first ELSE [j \in JobId |-> Absent]]
  BY DEF Init
<1>2. \A e \in Revisions(1) : e \in Entry /\ e.expires > 0
  BY TimeAssumption DEF Init, Revisions, Entry
<1>3. Absent \in Entry
  BY DEF Absent, Entry
<1>4. index \in [Version -> [JobId -> Entry]]
  BY <1>1, <1>2, <1>3
<1>5. IndexInv
  BY <1>1, <1>2 DEF IndexInv, Indexed
<1>6. 1 \in Version /\ 0 \in 0..MaxTime /\ 0 \in 0..MaxChanges
  BY TimeAssumption DEF Version
<1>7. server \in [Request -> Server]
  BY TimeAssumption DEF Init, Anyone
<1>8. /\ gen \in [Request -> Generation] /\ query \in [Request -> Query] /\ page \in [Request -> Page]
      /\ start \in [Request -> [counter : Nat, now : Nat]]
  BY NothingTypes DEF Init
<1>9. QED
  BY <1>4, <1>5, <1>6, <1>7, <1>8 DEF Init, TypeOK, Stage

\* The end of a promise.
LEMMA SettleTypes ==
    ASSUME TypeOK, NEW r \in Request, NEW stage \in Stage, Over(Awaiting(r)),
           pc' = [x \in Request |-> IF x \in Awaiting(r) THEN stage ELSE pc[x]], flight' = flight \ {r}
    PROVE  /\ pc' \in [Request -> Stage] /\ flight' \subseteq Request
           /\ gen' \in [Request -> Generation] /\ query' \in [Request -> Query] /\ leader' \in [Request -> Request]
BY NothingTypes DEF TypeOK, Over

\* The scripts put one page under a generation.
LEMMA WriteTypes ==
    ASSUME TypeOK, IndexInv, KnowsInv, NEW r \in Request, WriteScript(r) \/ UNCHANGED cache
    PROVE  /\ cache' \subseteq [gen : Generation, page : Page, ttl : 1..PageTTL]
           /\ \A e, f \in cache' : e.gen = f.gen => e = f
<1>1. CASE UNCHANGED cache
  BY <1>1 DEF TypeOK
<1>2. ASSUME NEW c \in Clocks(r), Span(c) >= 1, cache' = Stored(gen[r], page[r], Span(c)) PROVE Span(c) \in 1..PageTTL
  <2>1. FirstExpiry \in Nat /\ c \in Nat /\ PageTTL \in Nat \ {0}
    BY ExpiryFacts, ClockFacts, TimeAssumption
  <2>2. CASE FirstExpiry > 0
    <3> DEFINE d == FirstExpiry - c
    <3>1. d \in Int
      BY <2>1
    <3> HIDE DEF d
    <3>2. \E x \in {PageTTL, d} : \A y \in {PageTTL, d} : x <= y
      BY <2>1, <3>1
    <3>3. Min({PageTTL, d}) \in {PageTTL, d} /\ Min({PageTTL, d}) <= PageTTL
      BY <3>2 DEF Min
    <3>4. Span(c) \in {PageTTL, d} /\ Span(c) <= PageTTL
      BY <2>2, <3>3 DEF Span, d
    <3>5. QED
      BY <1>2, <2>1, <3>1, <3>4
  <2>3. CASE ~(FirstExpiry > 0)
    BY <2>1, <2>3 DEF Span
  <2>4. QED
    BY <2>2, <2>3
<1>3. ASSUME NEW c \in Clocks(r), Span(c) >= 1, cache' = Stored(gen[r], page[r], Span(c))
      PROVE  /\ cache' \subseteq [gen : Generation, page : Page, ttl : 1..PageTTL]
             /\ \A e, f \in cache' : e.gen = f.gen => e = f
  <2>1. [gen |-> gen[r], page |-> page[r], ttl |-> Span(c)] \in [gen : Generation, page : Page, ttl : 1..PageTTL]
    BY <1>2, <1>3 DEF TypeOK
  <2>2. QED
    BY <1>3, <2>1 DEF TypeOK, Stored
<1>4. QED
  BY <1>1, <1>3 DEF WriteScript

LEMMA TypeStep == TypeOK /\ IndexInv /\ KnowsInv /\ QueryInv /\ [Next]_vars => TypeOK' /\ IndexInv'
<1> SUFFICES ASSUME TypeOK, IndexInv, KnowsInv, QueryInv, [Next]_vars PROVE TypeOK' /\ IndexInv'
  OBVIOUS
<1>1. CASE UNCHANGED vars
  BY <1>1 DEF vars, TypeOK, IndexInv, Indexed
<1>2. ASSUME NEW new \in [Version -> [JobId -> Entry]], Change(new), version' \in Version,
             \A v \in Version : \A j \in JobId : new[v][j] # Absent => new[v][j].expires > 0
      PROVE  TypeOK' /\ IndexInv'
  <2>1. IndexInv'
    BY <1>2 DEF Change, IndexInv, Indexed
  <2>2. counter' \in 0..MaxChanges
    BY <1>2, TimeAssumption DEF Change, TypeOK
  <2>3. QED
    BY <1>2, <2>1, <2>2 DEF Change, TypeOK
<1>3. \A j \in JobId, e \in Entry : [index EXCEPT ![version][j] = e] \in [Version -> [JobId -> Entry]]
  BY DEF TypeOK
<1>4. \A v \in Version : \A j \in JobId : index[v][j] \in Entry /\ (index[v][j] # Absent => index[v][j].expires > 0)
  BY DEF TypeOK, IndexInv, Indexed
<1>5. ASSUME NEW j \in JobId, WriteJob(j) PROVE TypeOK' /\ IndexInv'
  <2>1. PICK e \in Revisions(counter + 2) : Change([index EXCEPT ![version][j] = e])
    BY <1>5 DEF WriteJob
  <2>2. e \in Entry /\ e.expires > 0
    BY <2>1, TimeAssumption DEF Revisions, Entry, TypeOK
  <2>3. QED
    BY <1>2, <1>3, <1>4, <1>5, <2>1, <2>2 DEF WriteJob, TypeOK
<1>6. ASSUME NEW j \in JobId, RemoveJob(j) PROVE TypeOK' /\ IndexInv'
  <2>1. Absent \in Entry
    BY DEF Absent, Entry
  <2>2. QED
    BY <1>2, <1>3, <1>4, <1>6, <2>1 DEF RemoveJob, TypeOK
<1>7. CASE Publish
  <2> DEFINE next == [j \in JobId |-> IF j \in Live(version) THEN index[version][j] ELSE Absent]
  <2>1. version' \in Version /\ version' = version + 1
    BY <1>7, TimeAssumption DEF Publish, TypeOK, Version
  <2>2. next \in [JobId -> Entry] /\ \A j \in JobId : next[j] # Absent => next[j].expires > 0
    <3>1. Absent \in Entry /\ version \in Version
      BY DEF Absent, Entry, TypeOK
    <3>2. QED
      BY <1>4, <3>1
  <2> HIDE DEF next
  <2>3. /\ [index EXCEPT ![version + 1] = next] \in [Version -> [JobId -> Entry]]
        /\ \A v \in Version : \A j \in JobId :
             [index EXCEPT ![version + 1] = next][v][j] # Absent => [index EXCEPT ![version + 1] = next][v][j].expires > 0
    BY <1>4, <2>1, <2>2 DEF TypeOK
  <2>4. Change([index EXCEPT ![version + 1] = next])
    BY <1>7 DEF Publish, next
  <2>5. QED
    BY <1>2, <2>1, <2>3, <2>4
<1>8. CASE Tick
  <2>1. now' \in 0..MaxTime
    BY <1>8, TimeAssumption DEF Tick, TypeOK
  <2>2. cache' \subseteq [gen : Generation, page : Page, ttl : 1..PageTTL] /\ \A e, f \in cache' : e.gen = f.gen => e = f
    <3>1. \A e \in cache : e.ttl > 1 => [e EXCEPT !.ttl = @ - 1] \in [gen : Generation, page : Page, ttl : 1..PageTTL]
      BY TimeAssumption DEF TypeOK
    <3>2. \A e \in cache : [e EXCEPT !.ttl = @ - 1].gen = e.gen
      BY DEF TypeOK
    <3>3. \A e \in cache' : \E x \in cache : x.ttl > 1 /\ e = [x EXCEPT !.ttl = @ - 1]
      BY <1>8 DEF Tick
    <3>4. ASSUME NEW e \in cache', NEW f \in cache', e.gen = f.gen PROVE e = f
      <4>1. PICK x \in cache : e = [x EXCEPT !.ttl = @ - 1]
        BY <3>3
      <4>2. PICK y \in cache : f = [y EXCEPT !.ttl = @ - 1]
        BY <3>3
      <4>3. x.gen = y.gen
        BY <3>2, <3>4, <4>1, <4>2
      <4>4. x = y
        BY <4>3 DEF TypeOK
      <4>5. QED
        BY <4>1, <4>2, <4>4
    <3>5. QED
      BY <3>1, <3>3, <3>4
  <2>3. QED
    BY <1>8, <2>1, <2>2 DEF Tick, TypeOK, IndexInv, Indexed
<1>9. ASSUME NEW r \in Request, Begin(r) \/ Serve(r) \/ Leave(r) PROVE TypeOK' /\ IndexInv'
  <2>1. IndexInv' /\ UNCHANGED env
    BY <1>9 DEF Begin, Leave, Serve, AskGeneration, Join, Lead, ReadCache, CheckGeneration, OpenSearch, Snapshot,
           Hydrate, QueryFails, WriteCache, env, IndexInv, Indexed
  <2>2. CASE Begin(r)
    BY <2>1, <2>2, TimeAssumption DEF Begin, Goto, TypeOK, env, Stage
  <2>3. CASE AskGeneration(r)
    <3>1. PICK g \in {StampAt(c) : c \in Clocks(r)} \cup {NoGen} :
             gen' = [gen EXCEPT ![r] = g] /\ Goto(r, IF g = NoGen THEN "opening" ELSE "asked")
      BY <2>3 DEF AskGeneration
    <3>2. g \in Generation
      BY StampFacts, ClockFacts
    <3>3. gen' \in [Request -> Generation] /\ pc' \in [Request -> Stage]
      BY <3>1, <3>2 DEF TypeOK, Goto, Stage
    <3>4. UNCHANGED <<cache, server, query, page, flight, leader, start>>
      BY <2>3 DEF AskGeneration
    <3>5. QED
      BY <2>1, <3>3, <3>4 DEF TypeOK, env
  <2>4. CASE Join(r) \/ Lead(r)
    <3>1. pc' \in [Request -> Stage] /\ flight' \subseteq Request /\ leader' \in [Request -> Request]
      <4>1. CASE Join(r)
        <5>1. PICK l \in InFlight(r) : leader' = [leader EXCEPT ![r] = l]
          BY <4>1 DEF Join
        <5>2. l \in Request
          BY DEF InFlight, TypeOK
        <5>3. QED
          BY <4>1, <5>1, <5>2 DEF Join, Goto, TypeOK, Stage
      <4>2. CASE Lead(r)
        BY <4>2 DEF Lead, Goto, TypeOK, Stage
      <4>3. QED
        BY <2>4, <4>1, <4>2
    <3>2. UNCHANGED <<cache, server, gen, query, page, start>>
      BY <2>4 DEF Join, Lead
    <3>3. QED
      BY <2>1, <3>1, <3>2 DEF TypeOK, env
  <2>5. CASE ReadCache(r)
    BY <2>1, <2>5 DEF ReadCache, Goto, TypeOK, env, Stage
  <2>6. CASE CheckGeneration(r)
    <3>1. CASE Settle(r, page[r])
      <4>1. page' \in [Request -> Page]
        BY <3>1 DEF Settle, TypeOK
      <4>2. QED
        BY <2>1, <2>6, <3>1, <4>1, SettleTypes DEF Settle, CheckGeneration, TypeOK, env, Stage
    <3>2. CASE Goto(r, "opening") /\ page' = [page EXCEPT ![r] = NoPage] /\ UNCHANGED <<gen, query, flight, leader>>
      BY <2>1, <2>6, <3>2, NothingTypes DEF CheckGeneration, Goto, TypeOK, env, Stage
    <3>3. QED
      BY <2>6, <3>1, <3>2 DEF CheckGeneration
  <2>7. CASE OpenSearch(r)
    <3>1. query' \in [Request -> Query]
      <4>1. version \in 0..MaxVersion
        BY TimeAssumption DEF TypeOK, Version
      <4>2. [query[r] EXCEPT !.version = version] \in Query
        <5>1. query[r] \in Query
          BY DEF TypeOK
        <5>2. ASSUME NEW q \in Query, NEW n \in 0..MaxVersion PROVE [q EXCEPT !.version = n] \in Query
          BY ONLY <5>2 DEF Query
        <5> QED
          BY ONLY <4>1, <5>1, <5>2
      <4>3. query' = [query EXCEPT ![r] = [query[r] EXCEPT !.version = version]]
        BY <2>7 DEF OpenSearch
      <4>4. QED
        BY <4>2, <4>3 DEF TypeOK
    <3>2. QED
      BY <2>1, <2>7, <3>1 DEF OpenSearch, Goto, TypeOK, env, Stage
  <2>8. CASE Snapshot(r)
    <3>1. query' \in [Request -> Query]
      <4>1. Live(version) \subseteq JobId /\ counter \in Nat
        BY TimeAssumption DEF Live, Indexed, TypeOK
      <4>2. [[query[r] EXCEPT !.ids = Live(version)] EXCEPT !.at = counter] \in Query
        <5>1. [query[r] EXCEPT !.ids = Live(version)] \in Query
          <6>1. query[r] \in Query /\ Live(version) \in SUBSET JobId
            BY <4>1 DEF TypeOK
          <6> DEFINE was == query[r]
                     ids == Live(version)
          <6> HIDE DEF was, ids
          <6>2. [was EXCEPT !.ids = ids] \in Query
            BY <6>1 DEF Query, was, ids
          <6>3. QED
            BY <6>2 DEF was, ids
        <5> DEFINE q == [query[r] EXCEPT !.ids = Live(version)]
        <5>2. q \in Query
          BY <5>1
        <5> HIDE DEF q
        <5>3. [q EXCEPT !.at = counter] \in Query
          BY <4>1, <5>2 DEF Query
        <5>4. QED
          BY <5>3 DEF q
      <4>3. query' = [query EXCEPT ![r] = [[query[r] EXCEPT !.ids = Live(version)] EXCEPT !.at = counter]]
        BY <2>8 DEF Snapshot, TypeOK
      <4>4. QED
        BY <4>2, <4>3 DEF TypeOK
    <3>2. QED
      BY <2>1, <2>8, <3>1 DEF Snapshot, Goto, TypeOK, env, Stage
  <2>9. CASE Hydrate(r)
    <3> DEFINE p == [jobs |-> Documents(query[r].version, query[r].ids), at |-> query[r].at]
    <3>1. p \in Page
      <4>1. Documents(query[r].version, query[r].ids) \in SUBSET [id : JobId, rev : Nat, expires : Nat]
        BY <2>9, DocumentType DEF Hydrate, QueryInv, Queries
      <4>2. query[r].at \in Nat
        BY DEF TypeOK, Query
      <4>3. QED
        BY <4>1, <4>2 DEF Page
    <3> HIDE DEF p
    <3>2. CASE Settle(r, p)
      <4>1. page' \in [Request -> Page]
        BY <3>1, <3>2 DEF Settle, TypeOK
      <4>2. QED
        BY <2>1, <2>9, <3>2, <4>1, SettleTypes DEF Settle, Hydrate, TypeOK, env, Stage
    <3>3. CASE /\ page' = [page EXCEPT ![r] = p] /\ query' = [query EXCEPT ![r] = NoQuery]
               /\ Goto(r, "writing") /\ UNCHANGED <<gen, flight, leader>>
      BY <2>1, <2>9, <3>1, <3>3, NothingTypes DEF Hydrate, Goto, TypeOK, env, Stage
    <3>4. QED
      BY <2>9, <3>2, <3>3 DEF Hydrate, p
  <2>10. CASE QueryFails(r)
    BY <2>1, <2>10, SettleTypes DEF QueryFails, TypeOK, env, Stage
  <2>11. CASE WriteCache(r)
    <3>1. page' \in [Request -> Page]
      BY <2>11 DEF WriteCache, Settle, TypeOK
    <3>2. QED
      BY <2>1, <2>11, <3>1, SettleTypes, WriteTypes DEF WriteCache, Settle, TypeOK, env, Stage
  <2>12. CASE Leave(r)
    BY <2>1, <2>12, NothingTypes DEF Leave, Goto, TypeOK, env, Stage, Anyone
  <2>13. QED
    BY <1>9, <2>2, <2>3, <2>4, <2>5, <2>6, <2>7, <2>8, <2>9, <2>10, <2>11, <2>12 DEF Serve
<1>10. QED
  BY <1>1, <1>5, <1>6, <1>7, <1>8, <1>9 DEF Next
-----------------------------------------------------------------------------
\* What the generation says, and what stays when nothing happens to the index.

\* As long as the index, its generation and the clock stand still, so does all that is said of them.
LEMMA StillIndex ==
    ASSUME UNCHANGED env
    PROVE  /\ Stamp' = Stamp /\ Unexpired' = Unexpired
           /\ \A v : Documented(v)' = Documented(v) /\ Live(v)' = Live(v) /\ Indexed(v)' = Indexed(v)
<1>1. \A v : Indexed(v)' = Indexed(v)
  BY DEF env, Indexed
<1>2. FirstExpiry' = FirstExpiry
  BY <1>1 DEF env, FirstExpiry
<1>3. QED
  BY <1>1, <1>2 DEF env, Stamp, Unexpired, Documented, Live

LEMMA CacheStays ==
    ASSUME UNCHANGED env, CacheInv, cache' = cache
    PROVE  CacheInv'
<1> SUFFICES ASSUME NEW e \in cache PROVE Keeps(e.gen, e.page)' /\ Outlives(e.gen, e.page)' /\ IsWhole(e.gen, e.page)'
  BY DEF CacheInv
<1>1. Keeps(e.gen, e.page) /\ Outlives(e.gen, e.page) /\ IsWhole(e.gen, e.page)
  BY DEF CacheInv
<1>2. QED
  BY <1>1, StillIndex DEF Keeps, Outlives, IsWhole, Current, env

LEMMA KnowsStays ==
    ASSUME UNCHANGED env, NEW x \in Request, Knows(x),
           pc'[x] = pc[x], gen'[x] = gen[x], leader'[x] = leader[x], start'[x] = start[x], x \in flight' <=> x \in flight,
           pc[x] = "joined" => leader[x] \in flight' /\ gen'[leader[x]] = gen[leader[x]]
    PROVE  Knows(x)'
BY StillIndex DEF Knows, Current, env

LEMMA QueriesStays ==
    ASSUME UNCHANGED env, NEW x \in Request, Queries(x),
           pc'[x] = pc[x], gen'[x] = gen[x], query'[x] = query[x], start'[x] = start[x]
    PROVE  Queries(x)'
BY StillIndex DEF Queries, IsRead, Current, env

LEMMA PagesStays ==
    ASSUME UNCHANGED env, NEW x \in Request, Pages(x), pc'[x] = pc[x], gen'[x] = gen[x], page'[x] = page[x],
           x \in flight => x \in flight',
           pc[x] \in {"checking", "writing"} => \A y \in Request : SafeFor(x, y)'
    PROVE  Pages(x)'
BY StillIndex DEF Pages, Outlives, IsWhole, Current, env

\* A page that goes nowhere else is still safe for a request that knows what it knew, or nothing.
LEMMA SafeStays ==
    ASSUME NEW x \in Request, NEW y \in Request, Knows(x), Pages(x), pc[x] \in {"checking", "writing"},
           gen'[x] = gen[x], page'[x] = page[x],
           gen'[y] = NoGen \/ (gen'[y] = gen[y] /\ start'[y] = start[y])
    PROVE  SafeFor(x, y)'
BY DEF SafeFor, Knows, Pages

\* The end of a promise leaves nothing behind, and the others do not notice.
LEMMA SettleStays ==
    ASSUME TypeOK, FlightInv, KnowsInv, QueryInv, PageInv, NEW r \in Request, NEW stage \in {"answered", "failed"},
           UNCHANGED <<env, start>>, Over(Awaiting(r)),
           pc' = [x \in Request |-> IF x \in Awaiting(r) THEN stage ELSE pc[x]], flight' = flight \ {r},
           \A x \in Request \ Awaiting(r) : page'[x] = page[x]
    PROVE  KnowsInv' /\ QueryInv' /\ PageInv'
<1>1. ASSUME NEW x \in Awaiting(r) PROVE Knows(x)' /\ Queries(x)' /\ Pages(x)'
  <2>1. x \in Request
    BY DEF Awaiting
  <2>2. gen'[x] = NoGen /\ pc'[x] = stage
    BY <2>1 DEF Over
  <2>3. x \notin flight'
    BY <1>1, AwaitingAreJoined DEF Awaiting
  <2>4. start'[x].counter <= counter' /\ start'[x].now <= now'
    BY <2>1 DEF KnowsInv, Knows, env
  <2>5. QED
    BY <2>2, <2>3, <2>4 DEF Knows, Queries, Pages
<1>2. ASSUME NEW x \in Request \ Awaiting(r) PROVE Knows(x)' /\ Queries(x)' /\ Pages(x)'
  <2>1. pc'[x] = pc[x] /\ gen'[x] = gen[x] /\ query'[x] = query[x] /\ leader'[x] = leader[x] /\ start'[x] = start[x] /\ page'[x] = page[x]
    BY DEF Over
  <2>2. pc[x] = "joined" => leader[x] \in flight' /\ gen'[leader[x]] = gen[leader[x]]
    <3>1. pc[x] = "joined" => leader[x] \in flight \ {r}
      BY <1>2 DEF KnowsInv, Knows, Awaiting
    <3>2. \A l \in flight \ {r} : l \notin Awaiting(r) /\ l \in Request
      BY AwaitingAreJoined DEF TypeOK
    <3>3. QED
      BY <3>1, <3>2 DEF Over
  <2>3. Knows(x) /\ Queries(x) /\ Pages(x)
    BY DEF KnowsInv, QueryInv, PageInv
  <2>4. Knows(x)'
    <3>1. x # r
      BY <1>2 DEF Awaiting
    <3>2. QED
      BY <2>1, <2>2, <2>3, <3>1, KnowsStays
  <2>5. Queries(x)'
    BY <2>1, <2>3, QueriesStays
  <2>6. pc[x] \in {"checking", "writing"} => \A y \in Request : SafeFor(x, y)'
    <3>1. \A y \in Request : gen'[y] = NoGen \/ (gen'[y] = gen[y] /\ start'[y] = start[y])
      BY DEF Over
    <3>2. QED
      BY <2>1, <2>3, <3>1, SafeStays
  <2>7. x # r
    BY <1>2 DEF Awaiting
  <2>8. Pages(x)'
    BY <2>1, <2>3, <2>6, <2>7, PagesStays
  <2>9. QED
    BY <2>4, <2>5, <2>8
<1>3. QED
  BY <1>1, <1>2 DEF KnowsInv, QueryInv, PageInv

\* Everyone who awaits a promise may have its page.
LEMMA SettleIsFresh ==
    ASSUME TypeOK, KnowsInv, NothingStaleServed, NEW r \in Request, NEW p, UNCHANGED start, Settle(r, p),
           r \in flight => p.at >= gen[r].counter /\ p.at \in Nat /\ gen[r].counter \in Nat,
           r \in flight => \A x \in Request : gen[x] = gen[r] => \A j \in p.jobs : j.expires > start[x].now,
           r \notin flight => p.at >= start[r].counter /\ \A j \in p.jobs : j.expires > start[r].now
    PROVE  NothingStaleServed'
<1> SUFFICES ASSUME NEW x \in Request PROVE Fresh(x)'
  BY DEF NothingStaleServed, Fresh
<1>1. CASE x \notin Awaiting(r)
  BY <1>1 DEF Settle, NothingStaleServed, Fresh
<1>2. CASE x \in Awaiting(r)
  <2>1. page'[x] = p /\ start'[x] = start[x]
    BY <1>2 DEF Settle
  <2>2. CASE r \notin flight
    <3>1. x = r
      BY <1>2, <2>2 DEF Awaiting, KnowsInv, Knows
    <3>2. QED
      BY <2>1, <2>2, <3>1 DEF Fresh
  <2>3. CASE r \in flight
    <3>1. gen[x] = gen[r]
      BY <1>2 DEF Awaiting, KnowsInv, Knows
    <3>2. start[x].counter <= gen[x].counter /\ start[x].counter \in Nat
      BY <2>3, <3>1 DEF KnowsInv, Knows, TypeOK
    <3>3. QED
      BY <2>1, <2>3, <3>1, <3>2 DEF Fresh
  <2>4. QED
    BY <2>2, <2>3
<1>3. QED
  BY <1>1, <1>2
-----------------------------------------------------------------------------
\* Every step keeps what exactness rests on.

LEMMA RestInit == Init => Rest
<1> SUFFICES ASSUME Init PROVE Rest
  OBVIOUS
<1>1. CacheInv /\ NothingStaleServed
  BY DEF Init, CacheInv, NothingStaleServed
<1>2. ASSUME NEW r \in Request PROVE Knows(r) /\ Queries(r) /\ Pages(r)
  <2>1. pc[r] = "idle" /\ gen[r] = NoGen /\ r \notin flight /\ start[r] = NoStart /\ counter = 0 /\ now = 0
    BY DEF Init
  <2>2. Knows(r)
    BY <2>1 DEF Knows, NoStart
  <2>3. QED
    BY <2>1, <2>2 DEF Queries, Pages
<1>3. QED
  BY <1>1, <1>2 DEF Rest, KnowsInv, QueryInv, PageInv

\* A change of the index moves the counter: no generation read before it is the current one.
LEMMA ChangeKeepsRest ==
    ASSUME TypeOK, Rest, NEW new, Change(new)
    PROVE  Rest'
<1>1. counter' = counter + 1 /\ counter \in Nat /\ UNCHANGED <<now, cache, pc, gen, query, page, flight, leader, start>>
  BY TimeAssumption DEF Change, TypeOK
<1>2. ASSUME NEW g \in Generation, g.counter <= counter PROVE ~Current(g)' /\ g.counter <= counter'
  BY <1>1, <1>2 DEF Current, Generation
<1>3. CacheInv'
  <2> SUFFICES ASSUME NEW e \in cache PROVE Keeps(e.gen, e.page)' /\ Outlives(e.gen, e.page)' /\ IsWhole(e.gen, e.page)'
    BY <1>1 DEF CacheInv
  <2>1. e.gen \in Generation /\ Keeps(e.gen, e.page) /\ Outlives(e.gen, e.page)
    BY DEF Rest, CacheInv, TypeOK
  <2>2. ~Current(e.gen)' /\ e.gen.counter <= counter'
    BY <1>2, <2>1 DEF Keeps
  <2>3. QED
    BY <2>1, <2>2 DEF Keeps, Outlives, IsWhole
<1>4. ASSUME NEW r \in Request PROVE Knows(r)' /\ Queries(r)' /\ Pages(r)'
  <2>1. Knows(r) /\ Queries(r) /\ Pages(r) /\ gen[r] \in Generation /\ start[r].counter \in Nat
    BY DEF Rest, KnowsInv, QueryInv, PageInv, TypeOK
  <2>2. gen[r] # NoGen => gen[r].counter # counter' /\ gen[r].counter <= counter'
    <3>1. gen[r] # NoGen => gen[r].counter \in Nat /\ gen[r].counter <= counter
      BY <2>1 DEF Knows, Generation
    <3>2. QED
      BY <1>1, <3>1
  <2>3. gen[r] # NoGen => ~Current(gen[r])'
    BY <1>1, <2>2 DEF Current
  <2>4. Knows(r)'
    <3>1. start[r].counter <= counter'
      BY <1>1, <2>1 DEF Knows
    <3>2. QED
      BY <1>1, <2>1, <2>2, <2>3, <3>1 DEF Knows
  <2>5. Queries(r)'
    BY <1>1, <2>1, <2>3 DEF Queries, IsRead
  <2>6. Pages(r)'
    <3>1. r \in flight => gen[r] # NoGen
      BY <2>1 DEF Knows
    <3>2. QED
      BY <1>1, <2>1, <2>2, <2>3, <3>1 DEF Pages, IsWhole, SafeFor
  <2>7. QED
    BY <2>4, <2>5, <2>6
<1>5. NothingStaleServed'
  BY <1>1 DEF Rest, NothingStaleServed
<1>6. QED
  BY <1>3, <1>4, <1>5 DEF Rest, KnowsInv, QueryInv, PageInv

\* Time passes: jobs only cease to be live, and what had not expired now had not before.
LEMMA TickKeepsRest ==
    ASSUME TypeOK, IndexInv, Rest, Tick
    PROVE  Rest'
<1>1. now' = now + 1 /\ now \in Nat /\ UNCHANGED <<version, counter, index, pc, gen, query, page, flight, leader, start>>
  BY TimeAssumption DEF Tick, TypeOK
<1>2. \A v : Indexed(v)' = Indexed(v) /\ Documented(v)' = Documented(v)
  BY <1>1 DEF Indexed, Documented
<1>3. FirstExpiry' = FirstExpiry /\ Stamp' = Stamp
  BY <1>1, <1>2 DEF FirstExpiry, Stamp
<1>4. Unexpired' => Unexpired
  BY <1>1, <1>3, ExpiryFacts DEF Unexpired
<1>5. Live(version)' \subseteq Live(version)
  <2>1. \A j \in Indexed(version) : index[version][j].expires \in Nat
    BY DEF TypeOK, Indexed, Entry
  <2>2. QED
    BY <1>1, <1>2, <2>1 DEF Live
<1>6. CacheInv'
  <2> SUFFICES ASSUME NEW e \in cache' PROVE Keeps(e.gen, e.page)' /\ Outlives(e.gen, e.page)' /\ IsWhole(e.gen, e.page)'
    BY DEF CacheInv
  <2>1. PICK x \in cache : e = [x EXCEPT !.ttl = @ - 1]
    BY DEF Tick
  <2>2. e.gen = x.gen /\ e.page = x.page
    BY <2>1 DEF TypeOK
  <2>3. Keeps(x.gen, x.page) /\ Outlives(x.gen, x.page) /\ IsWhole(x.gen, x.page)
    BY DEF Rest, CacheInv
  <2>4. QED
    BY <1>1, <1>2, <1>3, <1>4, <2>2, <2>3 DEF Keeps, Outlives, IsWhole, Current
<1>7. ASSUME NEW r \in Request PROVE Knows(r)' /\ Queries(r)' /\ Pages(r)'
  <2>1. Knows(r) /\ Queries(r) /\ Pages(r) /\ start[r].now \in Nat
    BY DEF Rest, KnowsInv, QueryInv, PageInv, TypeOK
  <2>2. start[r].now <= now'
    BY <1>1, <2>1 DEF Knows
  <2>3. Knows(r)'
    BY <1>1, <1>3, <2>1, <2>2 DEF Knows, Current
  <2>4. Queries(r)'
    BY <1>1, <1>2, <1>5, <2>1 DEF Queries, IsRead, Current
  <2>5. Pages(r)'
    BY <1>1, <1>2, <1>4, <2>1 DEF Pages, Outlives, IsWhole, Current, SafeFor
  <2>6. QED
    BY <2>3, <2>4, <2>5
<1>8. NothingStaleServed'
  BY <1>1 DEF Rest, NothingStaleServed
<1>9. QED
  BY <1>6, <1>7, <1>8 DEF Rest, KnowsInv, QueryInv, PageInv

\* A request that answers nobody moves by itself.
LEMMA AloneKeepsRest ==
    ASSUME TypeOK, FlightInv, Rest, NEW r \in Request, UNCHANGED <<env, cache>>,
           \A x \in Request \ {r} : /\ pc'[x] = pc[x] /\ gen'[x] = gen[x] /\ query'[x] = query[x]
                                    /\ page'[x] = page[x] /\ leader'[x] = leader[x] /\ start'[x] = start[x],
           flight' \ {r} = flight \ {r}, r \in flight => r \in flight' /\ gen'[r] = gen[r],
           Knows(r)', Queries(r)', Pages(r)', Fresh(r)',
           \A x \in Request \ {r} : pc[x] \in {"checking", "writing"} => SafeFor(x, r)'
    PROVE  Rest'
<1>1. CacheInv'
  BY CacheStays DEF Rest
<1>2. ASSUME NEW x \in Request \ {r} PROVE Knows(x)' /\ Queries(x)' /\ Pages(x)' /\ Fresh(x)'
  <2>1. Knows(x) /\ Queries(x) /\ Pages(x)
    BY DEF Rest, KnowsInv, QueryInv, PageInv
  <2>2. x \in flight' <=> x \in flight
    OBVIOUS
  <2>3. pc[x] = "joined" => leader[x] \in flight' /\ gen'[leader[x]] = gen[leader[x]]
    BY <2>1 DEF Knows, TypeOK
  <2>4. Knows(x)'
    BY <2>1, <2>2, <2>3, KnowsStays
  <2>5. Queries(x)'
    BY <2>1, QueriesStays
  <2>6. pc[x] \in {"checking", "writing"} => \A y \in Request : SafeFor(x, y)'
    <3>1. ASSUME pc[x] \in {"checking", "writing"}, NEW y \in Request \ {r} PROVE SafeFor(x, y)'
      BY <2>1, <3>1 DEF SafeFor, Pages
    <3>2. QED
      BY <3>1
  <2>7. Pages(x)'
    BY <2>1, <2>2, <2>6, PagesStays
  <2>8. Fresh(x)'
    BY DEF Rest, NothingStaleServed, Fresh
  <2>9. QED
    BY <2>4, <2>5, <2>7, <2>8
<1>3. QED
  BY <1>1, <1>2 DEF Rest, KnowsInv, QueryInv, PageInv, NothingStaleServed, Fresh

LEMMA BeginKeepsRest ==
    ASSUME TypeOK, FlightInv, Rest, NEW r \in Request, Begin(r) \/ Leave(r)
    PROVE  Rest'
<1>1. Knows(r) /\ r \notin flight /\ gen[r] = NoGen
  BY DEF Rest, KnowsInv, Knows, Asked, UnderWay, FlightInv, FlightsAreUnderWay, Begin, Leave
<1>2. pc'[r] \in {"asking", "idle"} /\ gen' = gen /\ flight' = flight /\ counter \in Nat /\ now \in Nat
  BY TimeAssumption DEF Begin, Leave, Goto, TypeOK
<1>3. start'[r].counter <= counter /\ start'[r].now <= now
  BY <1>2 DEF Begin, Leave, NoStart, TypeOK
<1>4. Knows(r)' /\ Queries(r)' /\ Pages(r)' /\ Fresh(r)'
  BY <1>1, <1>2, <1>3 DEF Knows, Queries, Pages, Fresh, Begin, Leave, env
<1>5. ASSUME NEW x \in Request \ {r}, pc[x] \in {"checking", "writing"} PROVE SafeFor(x, r)'
  <2>1. gen[x] # NoGen
    BY <1>5 DEF Rest, PageInv, Pages, KnowsInv, Knows
  <2>2. QED
    BY <1>1, <1>2, <2>1 DEF SafeFor
<1>6. /\ UNCHANGED <<env, cache>>
      /\ \A x \in Request \ {r} : /\ pc'[x] = pc[x] /\ gen'[x] = gen[x] /\ query'[x] = query[x]
                                  /\ page'[x] = page[x] /\ leader'[x] = leader[x] /\ start'[x] = start[x]
  BY DEF Begin, Leave, Goto, TypeOK
<1>7. QED
  BY <1>1, <1>2, <1>4, <1>5, <1>6, AloneKeepsRest

\* A generation that is handed out is the current one, and no job of a page that was found
\* under it had expired by the clock of the request that gets it.
LEMMA AskKeepsRest ==
    ASSUME TypeOK, IndexInv, FlightInv, Rest, NEW r \in Request, AskGeneration(r)
    PROVE  Rest'
<1>1. PICK g \in {StampAt(c) : c \in Clocks(r)} \cup {NoGen} :
        gen' = [gen EXCEPT ![r] = g] /\ Goto(r, IF g = NoGen THEN "opening" ELSE "asked")
  BY DEF AskGeneration
<1>2. Knows(r) /\ r \notin flight /\ flight' = flight
  BY DEF Rest, KnowsInv, FlightInv, FlightsAreUnderWay, AskGeneration
<1>3. g # NoGen => /\ g = Stamp /\ g.counter = counter /\ g.version >= 1
                   /\ g.expires = 0 \/ g.expires > start[r].now
  <2> SUFFICES ASSUME g # NoGen
               PROVE  g = Stamp /\ g.counter = counter /\ g.version >= 1 /\ (g.expires = 0 \/ g.expires > start[r].now)
    OBVIOUS
  <2>1. PICK c \in Clocks(r) : g = StampAt(c)
    BY <1>1
  <2>2. c \in Nat /\ start[r].now <= c /\ start[r].now \in Nat
    BY ClockFacts DEF Rest, TypeOK
  <2>3. g = Stamp /\ (FirstExpiry = 0 \/ FirstExpiry > c)
    BY <2>1, <2>2, StampFacts
  <2>4. g.counter = counter /\ g.version = version /\ g.expires = FirstExpiry /\ version >= 1 /\ FirstExpiry \in Nat
    BY SMTT(60), <2>3, StampFacts, ExpiryFacts, TimeAssumption DEF TypeOK, Version
  <2>5. FirstExpiry = 0 \/ FirstExpiry > start[r].now
    BY <2>2, <2>3, <2>4
  <2>6. QED
    BY <2>3, <2>4, <2>5
<1>4. gen'[r] = g /\ pc'[r] = (IF g = NoGen THEN "opening" ELSE "asked") /\ UNCHANGED <<env, cache, page, query, leader, start>>
  BY <1>1 DEF AskGeneration, Goto, TypeOK
<1>5. Knows(r)'
  <2>1. counter \in Nat
    BY TimeAssumption DEF TypeOK
  <2>2. Stamp' = Stamp
    BY <1>4, StillIndex
  <2>3. QED
    BY <1>2, <1>3, <1>4, <2>1, <2>2 DEF Knows, Asked, env
<1>6. Queries(r)' /\ Pages(r)' /\ Fresh(r)'
  BY <1>4 DEF Queries, Pages, Fresh
<1>7. ASSUME NEW x \in Request \ {r}, pc[x] \in {"checking", "writing"} PROVE SafeFor(x, r)'
  <2>1. Pages(x) /\ gen[x] # NoGen
    BY <1>7 DEF Rest, PageInv, Pages, KnowsInv, Knows
  <2>2. gen'[x] = gen[x] /\ page'[x] = page[x] /\ start'[r] = start[r]
    BY <1>1, <1>4, <1>7 DEF TypeOK
  <2>3. ASSUME gen'[x] = g PROVE \A j \in page[x].jobs : j.expires > start[r].now
    <3>1. g # NoGen /\ Current(g)
      BY <1>3, <2>1, <2>2, <2>3 DEF Current
    <3>2. Outlives(g, page[x])
      BY <1>7, <2>1, <2>2, <2>3, <3>1 DEF Pages
    <3>3. start[r].now \in Nat /\ g.expires \in Nat /\ \A j \in page[x].jobs : j.expires \in Nat
      <4>1. g \in Generation /\ page[x] \in Page /\ start[r] \in [counter : Nat, now : Nat]
        BY <2>2, <2>3 DEF TypeOK
      <4>2. QED
        BY <4>1 DEF Page, Generation
    <3>4. QED
      BY <1>3, <3>1, <3>2, <3>3 DEF Outlives
  <2>4. QED
    BY <1>4, <2>2, <2>3 DEF SafeFor
<1>8. \A x \in Request \ {r} : /\ pc'[x] = pc[x] /\ gen'[x] = gen[x] /\ query'[x] = query[x]
                               /\ page'[x] = page[x] /\ leader'[x] = leader[x] /\ start'[x] = start[x]
  BY <1>1, <1>4 DEF Goto, TypeOK
<1>9. QED
  BY <1>2, <1>4, <1>5, <1>6, <1>7, <1>8, AloneKeepsRest

\* Whoever awaits a promise or makes one goes on knowing the same generation.
LEMMA ShareKeepsRest ==
    ASSUME TypeOK, FlightInv, Rest, NEW r \in Request, Join(r) \/ Lead(r)
    PROVE  Rest'
<1>1. /\ pc[r] = "asked" /\ UNCHANGED <<env, cache, gen, query, page, start>>
      /\ pc' = [pc EXCEPT ![r] = IF Join(r) THEN "joined" ELSE "reading"]
  BY DEF Join, Lead, Goto, InFlight
<1>2. Knows(r) /\ gen[r] # NoGen /\ r \notin flight
  BY <1>1 DEF Rest, KnowsInv, Knows, FlightInv, FlightsAreUnderWay
<1>3. pc'[r] = "joined" => leader'[r] \in flight' /\ gen[leader'[r]] = gen[r]
  <2>1. CASE Join(r)
    BY <2>1 DEF Join, InFlight, TypeOK
  <2>2. CASE ~Join(r)
    BY <1>1, <2>2 DEF TypeOK
  <2>3. QED
    BY <2>1, <2>2
<1>4. Knows(r)'
  <2>1. pc'[r] \in {"joined", "reading"}
    BY <1>1 DEF TypeOK
  <2>2. Stamp' = Stamp
    BY <1>1, StillIndex
  <2>3. pc'[r] = "reading" => r \in flight'
    <3>1. CASE Join(r)
      BY <1>1, <3>1 DEF TypeOK
    <3>2. CASE Lead(r)
      BY <3>2 DEF Lead
    <3>3. QED
      BY <3>1, <3>2
  <2>4. QED
    BY <1>1, <1>2, <1>3, <2>1, <2>2, <2>3 DEF Knows, Asked, UnderWay, env, Current
<1>5. Queries(r)' /\ Pages(r)' /\ Fresh(r)'
  BY <1>1 DEF Queries, Pages, Fresh, TypeOK
<1>6. ASSUME NEW x \in Request \ {r}, pc[x] \in {"checking", "writing"} PROVE SafeFor(x, r)'
  BY <1>1, <1>6 DEF SafeFor, Rest, PageInv, Pages
<1>7. flight' \ {r} = flight \ {r} /\ \A x \in Request \ {r} : leader'[x] = leader[x]
  BY DEF Join, Lead, TypeOK
<1>8. \A x \in Request \ {r} : /\ pc'[x] = pc[x] /\ gen'[x] = gen[x] /\ query'[x] = query[x]
                               /\ page'[x] = page[x] /\ leader'[x] = leader[x] /\ start'[x] = start[x]
  BY <1>1, <1>7 DEF TypeOK
<1>9. QED
  BY <1>1, <1>2, <1>4, <1>5, <1>6, <1>7, <1>8, AloneKeepsRest

\* A step under way that leaves the promise and what the request knows.
LEMMA OnwardKnows ==
    ASSUME NEW r \in Request, Knows(r), pc[r] \in UnderWay, pc'[r] \in UnderWay \ {"reading"},
           UNCHANGED <<env, gen, flight, leader, start>>
    PROVE  Knows(r)'
BY StillIndex DEF Knows, Current, Asked, UnderWay, env

\* A cached page is as safe as its generation.
LEMMA ReadKeepsRest ==
    ASSUME TypeOK, FlightInv, Rest, NEW r \in Request, ReadCache(r)
    PROVE  Rest'
<1>1. /\ pc[r] = "reading" /\ UNCHANGED <<env, cache, gen, query, flight, leader, start>>
      /\ pc'[r] \in {"checking", "opening"}
      /\ pc'[r] = "checking" => \E e \in cache : e.gen = gen[r] /\ page'[r] = e.page
  BY DEF ReadCache, Goto, TypeOK
<1>2. r \in flight /\ gen[r] # NoGen /\ Knows(r)'
  BY <1>1, OnwardKnows DEF Rest, KnowsInv, Knows, UnderWay
<1>3. Pages(r)'
  <2> SUFFICES ASSUME pc'[r] = "checking" PROVE Pages(r)'
    BY <1>1 DEF Pages
  <2>1. PICK e \in cache : e.gen = gen[r] /\ page'[r] = e.page
    BY <1>1
  <2>2. page'[r].at >= gen[r].counter /\ Outlives(gen[r], page'[r])
    BY <2>1 DEF Rest, CacheInv, Keeps
  <2>3. ASSUME NEW x \in Request, gen[x] = gen[r] PROVE \A j \in page'[r].jobs : j.expires > start[x].now
    <3>1. gen[x].expires = 0 \/ gen[x].expires > start[x].now
      BY <1>2, <2>3 DEF Rest, KnowsInv, Knows
    <3>2. start[x].now \in Nat /\ gen[x].expires \in Nat /\ \A j \in page'[r].jobs : j.expires \in Nat
      BY <2>1 DEF TypeOK, Page, Generation
    <3>3. QED
      BY <2>2, <2>3, <3>1, <3>2 DEF Outlives
  <2>4. QED
    BY <1>1, <1>2, <2>2, <2>3 DEF Pages, SafeFor, Outlives
<1>4. Queries(r)' /\ Fresh(r)'
  BY <1>1 DEF Queries, Fresh
<1>5. ASSUME NEW x \in Request \ {r}, pc[x] \in {"checking", "writing"} PROVE SafeFor(x, r)'
  BY <1>1, <1>5 DEF SafeFor, Rest, PageInv, Pages, ReadCache, TypeOK
<1>6. \A x \in Request \ {r} : /\ pc'[x] = pc[x] /\ gen'[x] = gen[x] /\ query'[x] = query[x]
                               /\ page'[x] = page[x] /\ leader'[x] = leader[x] /\ start'[x] = start[x]
  BY DEF ReadCache, Goto, TypeOK
<1>7. QED
  BY <1>1, <1>2, <1>3, <1>4, <1>5, <1>6, AloneKeepsRest

\* The version a query opens on is the one of its generation, if that is still current.
LEMMA OpenKeepsRest ==
    ASSUME TypeOK, FlightInv, Rest, NEW r \in Request, OpenSearch(r)
    PROVE  Rest'
<1>1. /\ pc[r] = "opening" /\ pc'[r] = "searching" /\ UNCHANGED <<env, cache, gen, page, flight, leader, start>>
      /\ query'[r].version = version
  BY DEF OpenSearch, Goto, TypeOK, Query
<1>2. Knows(r)'
  BY <1>1, OnwardKnows DEF Rest, KnowsInv, UnderWay
<1>3. Queries(r)' /\ Pages(r)' /\ Fresh(r)'
  BY <1>1 DEF Queries, Pages, Fresh, TypeOK, env
<1>4. ASSUME NEW x \in Request \ {r}, pc[x] \in {"checking", "writing"} PROVE SafeFor(x, r)'
  BY <1>1, <1>4 DEF SafeFor, Rest, PageInv, Pages
<1>5. \A x \in Request \ {r} : /\ pc'[x] = pc[x] /\ gen'[x] = gen[x] /\ query'[x] = query[x]
                               /\ page'[x] = page[x] /\ leader'[x] = leader[x] /\ start'[x] = start[x]
  BY DEF OpenSearch, Goto, TypeOK
<1>6. QED
  BY <1>1, <1>2, <1>3, <1>4, <1>5, AloneKeepsRest

\* The snapshot is taken on the version that is active, after every change the request must see.
LEMMA SnapshotKeepsRest ==
    ASSUME TypeOK, FlightInv, Rest, NEW r \in Request, Snapshot(r)
    PROVE  Rest'
<1>1. /\ pc[r] = "searching" /\ pc'[r] = "hydrating" /\ UNCHANGED <<env, cache, gen, page, flight, leader, start>>
      /\ query[r].version = version
      /\ query'[r].version = version /\ query'[r].ids = Live(version) /\ query'[r].at = counter
  BY DEF Snapshot, Goto, TypeOK, Query
<1>2. Knows(r)'
  BY <1>1, OnwardKnows DEF Rest, KnowsInv, UnderWay
<1>3. Queries(r)'
  <2>1. Live(version) \subseteq Indexed(version)
    BY DEF Live
  <2>2. counter >= start[r].counter
    BY DEF Rest, KnowsInv, Knows, TypeOK
  <2>3. counter >= gen[r].counter
    <3>1. counter \in Nat /\ (gen[r] = NoGen => gen[r].counter = 0)
      BY TimeAssumption DEF NoGen, TypeOK
    <3>2. gen[r] # NoGen => gen[r].counter <= counter
      BY DEF Rest, KnowsInv, Knows
    <3>3. QED
      BY <3>1, <3>2
  <2>4. version \in Version
    BY DEF TypeOK
  <2>5. QED
    BY <1>1, <2>1, <2>2, <2>3, <2>4, StillIndex DEF Queries, env
<1>4. Pages(r)' /\ Fresh(r)'
  BY <1>1 DEF Pages, Fresh
<1>5. ASSUME NEW x \in Request \ {r}, pc[x] \in {"checking", "writing"} PROVE SafeFor(x, r)'
  BY <1>1, <1>5 DEF SafeFor, Rest, PageInv, Pages
<1>6. \A x \in Request \ {r} : /\ pc'[x] = pc[x] /\ gen'[x] = gen[x] /\ query'[x] = query[x]
                               /\ page'[x] = page[x] /\ leader'[x] = leader[x] /\ start'[x] = start[x]
  BY DEF Snapshot, Goto, TypeOK
<1>7. QED
  BY <1>1, <1>2, <1>3, <1>4, <1>5, <1>6, AloneKeepsRest

\* What hydration finds.
LEMMA HydratedPage ==
    ASSUME TypeOK, IndexInv, Rest, NEW r \in Request, pc[r] = "hydrating"
    PROVE  LET p == [jobs |-> Documents(query[r].version, query[r].ids), at |-> query[r].at]
           IN  /\ p.at >= start[r].counter /\ p.at >= gen[r].counter
               /\ \A x \in Request : \A j \in p.jobs : j.expires > start[x].now
               /\ IsRead(r) => Outlives(gen[r], p) /\ IsWhole(gen[r], p)
<1> DEFINE p == [jobs |-> Documents(query[r].version, query[r].ids), at |-> query[r].at]
<1>1. Knows(r) /\ Queries(r)
  BY DEF Rest, KnowsInv, QueryInv
<1>2. p.at >= start[r].counter /\ p.at >= gen[r].counter /\ query[r].version \in Version
  BY <1>1 DEF Queries
<1>3. ASSUME NEW x \in Request, NEW j \in p.jobs PROVE j.expires > start[x].now
  <2>1. j.expires > now /\ j.expires \in Nat
    BY <1>2, DocumentType
  <2>2. start[x].now <= now /\ start[x].now \in Nat /\ now \in Nat
    BY TimeAssumption DEF Rest, KnowsInv, Knows, TypeOK
  <2>3. QED
    BY <2>1, <2>2
<1>4. ASSUME IsRead(r) PROVE Outlives(gen[r], p) /\ IsWhole(gen[r], p)
  <2>1. query[r].version = version /\ Live(version) \subseteq query[r].ids /\ query[r].ids \subseteq Indexed(version) /\ gen[r] = Stamp
    BY <1>1, <1>4 DEF Queries, Knows, IsRead
  <2>2. p.jobs = Documents(version, query[r].ids)
    BY <2>1
  <2> HIDE DEF p
  <2>3. p.jobs \subseteq Documented(version)
    <3>1. version \in Version
      BY DEF TypeOK
    <3>2. QED
      BY <2>1, <2>2, <3>1, DocumentType
  <2>4. Outlives(gen[r], p)
    BY <2>1, <2>3, ExpiryFacts, StampFacts DEF Outlives, Documented
  <2>5. Unexpired => p.jobs = Documented(version)
    BY <2>1, <2>2, ExpiryFacts DEF Documents, Documented
  <2>6. QED
    BY <2>4, <2>5 DEF IsWhole
<1>5. QED
  BY <1>2, <1>3, <1>4

LEMMA HydrateKeepsRest ==
    ASSUME TypeOK, IndexInv, FlightInv, Rest, NEW r \in Request, Hydrate(r)
    PROVE  Rest'
<1>0. PICK p : p = [jobs |-> Documents(query[r].version, query[r].ids), at |-> query[r].at]
  OBVIOUS
<1>1. pc[r] = "hydrating" /\ UNCHANGED <<env, cache, server, start>>
  BY DEF Hydrate
<1>2. /\ p.at >= start[r].counter /\ p.at >= gen[r].counter
      /\ \A x \in Request : \A j \in p.jobs : j.expires > start[x].now
      /\ IsRead(r) => Outlives(gen[r], p) /\ IsWhole(gen[r], p)
  BY <1>0, <1>1, HydratedPage
<1>3. CASE r \in flight
  <2>1. /\ page' = [page EXCEPT ![r] = p] /\ query' = [query EXCEPT ![r] = NoQuery]
        /\ pc' = [pc EXCEPT ![r] = "writing"] /\ UNCHANGED <<gen, flight, leader>>
    BY <1>0, <1>3 DEF Hydrate, Goto
  <2>2. pc'[r] = "writing" /\ page'[r] = p
    BY <2>1 DEF TypeOK
  <2>3. Knows(r)'
    BY <1>1, <2>1, <2>2, OnwardKnows DEF Rest, KnowsInv, UnderWay
  <2>4. gen[r] # NoGen
    BY <1>3 DEF Rest, KnowsInv, Knows
  <2>5. Current(gen[r]) => Outlives(gen[r], p) /\ IsWhole(gen[r], p)
    BY <1>2, <2>4 DEF IsRead
  <2>6. IsWhole(gen[r], p)
    BY <2>5 DEF IsWhole
  <2>7. Pages(r)'
    <3>1. QED
      BY <1>1, <1>2, <1>3, <2>1, <2>2, <2>5, <2>6, StillIndex DEF Pages, IsWhole, Outlives, SafeFor, Current, env
  <2>8. Queries(r)' /\ Fresh(r)'
    BY <2>2 DEF Queries, Fresh
  <2>9. ASSUME NEW x \in Request \ {r}, pc[x] \in {"checking", "writing"} PROVE SafeFor(x, r)'
    BY <1>1, <2>1, <2>9 DEF SafeFor, Rest, PageInv, Pages, TypeOK
  <2>10. \A x \in Request \ {r} : /\ pc'[x] = pc[x] /\ gen'[x] = gen[x] /\ query'[x] = query[x]
                                  /\ page'[x] = page[x] /\ leader'[x] = leader[x] /\ start'[x] = start[x]
    BY <1>1, <2>1 DEF TypeOK
  <2>11. QED
    BY <1>1, <1>3, <2>1, <2>3, <2>7, <2>8, <2>9, <2>10, AloneKeepsRest
<1>4. CASE r \notin flight
  <2>1. Settle(r, p)
    BY <1>0, <1>4 DEF Hydrate
  <2>2. NothingStaleServed'
    BY <1>1, <1>2, <1>4, <2>1, SettleIsFresh DEF Rest
  <2>3. KnowsInv' /\ QueryInv' /\ PageInv'
    BY <1>1, <2>1, SettleStays DEF Rest, Settle
  <2>4. QED
    BY <1>1, <2>2, <2>3, CacheStays DEF Rest
<1>5. QED
  BY <1>3, <1>4

\* Someone's page is the answer of everyone who awaits it.
LEMMA AnswerIsFresh ==
    ASSUME TypeOK, FlightInv, Rest, NEW r \in Request, pc[r] \in {"checking", "writing"}, Settle(r, page[r]), UNCHANGED <<env, start>>
    PROVE  NothingStaleServed' /\ KnowsInv' /\ QueryInv' /\ PageInv'
<1>1. Pages(r) /\ page[r].at \in Nat /\ gen[r].counter \in Nat
  BY DEF Rest, PageInv, TypeOK, Page, Generation
<1>2. r \in flight /\ page[r].at >= gen[r].counter /\ \A x \in Request : gen[x] = gen[r] => \A j \in page[r].jobs : j.expires > start[x].now
  BY <1>1 DEF Pages, SafeFor
<1>3. NothingStaleServed'
  BY <1>1, <1>2, SettleIsFresh DEF Rest
<1>4. KnowsInv' /\ QueryInv' /\ PageInv'
  BY SettleStays DEF Rest, Settle
<1>5. QED
  BY <1>3, <1>4

LEMMA CheckKeepsRest ==
    ASSUME TypeOK, FlightInv, Rest, NEW r \in Request, CheckGeneration(r)
    PROVE  Rest'
<1>1. pc[r] = "checking" /\ UNCHANGED <<env, cache, server, start>>
  BY DEF CheckGeneration
<1>2. CASE Settle(r, page[r])
  BY <1>1, <1>2, AnswerIsFresh, CacheStays DEF Rest
<1>3. CASE /\ pc' = [pc EXCEPT ![r] = "opening"] /\ page' = [page EXCEPT ![r] = NoPage]
           /\ UNCHANGED <<gen, query, flight, leader>>
  <2>1. pc'[r] = "opening"
    BY <1>3 DEF TypeOK
  <2>2. Knows(r)'
    BY <1>1, <1>3, <2>1, OnwardKnows DEF Rest, KnowsInv, UnderWay
  <2>3. Queries(r)' /\ Pages(r)' /\ Fresh(r)'
    BY <2>1 DEF Queries, Pages, Fresh
  <2>4. ASSUME NEW x \in Request \ {r}, pc[x] \in {"checking", "writing"} PROVE SafeFor(x, r)'
    BY <1>1, <1>3, <2>4 DEF SafeFor, Rest, PageInv, Pages, TypeOK
  <2>5. \A x \in Request \ {r} : /\ pc'[x] = pc[x] /\ gen'[x] = gen[x] /\ query'[x] = query[x]
                                 /\ page'[x] = page[x] /\ leader'[x] = leader[x] /\ start'[x] = start[x]
    BY <1>1, <1>3 DEF TypeOK
  <2>6. QED
    BY <1>1, <1>3, <2>2, <2>3, <2>4, <2>5, AloneKeepsRest
<1>4. QED
  BY <1>2, <1>3 DEF CheckGeneration, Goto

\* Only a page that is the whole index of the generation it is written under is stored.
LEMMA WriteKeepsRest ==
    ASSUME TypeOK, FlightInv, Rest, NEW r \in Request, WriteCache(r)
    PROVE  Rest'
<1>1. pc[r] = "writing" /\ UNCHANGED <<env, server, start>> /\ Settle(r, page[r]) /\ (WriteScript(r) \/ UNCHANGED cache)
  BY DEF WriteCache
<1>2. NothingStaleServed' /\ KnowsInv' /\ QueryInv' /\ PageInv'
  BY <1>1, AnswerIsFresh
<1>3. \A e \in cache' : e \in cache \/ (Stamp = gen[r] /\ e.gen = gen[r] /\ e.page = page[r])
  BY <1>1 DEF WriteScript, Stored
<1>4. CacheInv
  BY DEF Rest
<1>5. Stamp = gen[r] => Keeps(gen[r], page[r]) /\ Outlives(gen[r], page[r]) /\ IsWhole(gen[r], page[r])
  <2> SUFFICES ASSUME Stamp = gen[r] PROVE Keeps(gen[r], page[r]) /\ Outlives(gen[r], page[r]) /\ IsWhole(gen[r], page[r])
    OBVIOUS
  <2>1. Pages(r) /\ Knows(r)
    BY DEF Rest, PageInv, KnowsInv
  <2>2. gen[r] # NoGen /\ Current(gen[r])
    BY <1>1, <2>1 DEF Pages, Knows, Current, Stamp
  <2>3. QED
    BY <1>1, <2>1, <2>2 DEF Pages, Knows, Keeps
<1>6. CacheInv'
  <2> SUFFICES ASSUME NEW e \in cache' PROVE Keeps(e.gen, e.page)' /\ Outlives(e.gen, e.page)' /\ IsWhole(e.gen, e.page)'
    BY DEF CacheInv
  <2>1. Keeps(e.gen, e.page) /\ Outlives(e.gen, e.page) /\ IsWhole(e.gen, e.page)
    BY <1>3, <1>4, <1>5 DEF CacheInv
  <2>2. QED
    BY <1>1, <2>1, StillIndex DEF Keeps, Outlives, IsWhole, Current, env
<1>7. QED
  BY <1>2, <1>6 DEF Rest

LEMMA FailKeepsRest ==
    ASSUME TypeOK, FlightInv, Rest, NEW r \in Request, QueryFails(r)
    PROVE  Rest'
<1>1. UNCHANGED <<env, cache, page, start>>
  BY DEF QueryFails
<1>2. KnowsInv' /\ QueryInv' /\ PageInv'
  BY <1>1, SettleStays DEF Rest, QueryFails
<1>3. NothingStaleServed'
  BY <1>1 DEF Rest, NothingStaleServed, QueryFails
<1>4. QED
  BY <1>1, <1>2, <1>3, CacheStays DEF Rest

LEMMA RestStep == TypeOK /\ IndexInv /\ FlightInv /\ Rest /\ [Next]_vars => Rest'
<1> SUFFICES ASSUME TypeOK, IndexInv, FlightInv, Rest, [Next]_vars PROVE Rest'
  OBVIOUS
<1>1. CASE UNCHANGED vars
  <2>1. UNCHANGED env /\ cache' = cache
    BY <1>1 DEF vars, env
  <2>2. ASSUME NEW r \in Request PROVE Knows(r)' /\ Queries(r)' /\ Pages(r)'
    <3>1. Knows(r) /\ Queries(r) /\ Pages(r)
      BY DEF Rest, KnowsInv, QueryInv, PageInv
    <3>2. pc[r] \in {"checking", "writing"} => \A y \in Request : SafeFor(r, y)'
      BY <1>1, <3>1 DEF vars, SafeFor, Pages
    <3>3. pc[r] = "joined" => leader[r] \in flight' /\ gen'[leader[r]] = gen[leader[r]]
      BY <1>1, <3>1 DEF vars, Knows
    <3>4. QED
      BY <1>1, <2>1, <3>1, <3>2, <3>3, KnowsStays, QueriesStays, PagesStays DEF vars
  <2>3. NothingStaleServed'
    BY <1>1 DEF Rest, vars, NothingStaleServed
  <2>4. QED
    BY <2>1, <2>2, <2>3, CacheStays DEF Rest, KnowsInv, QueryInv, PageInv
<1>2. CASE (\E j \in JobId : WriteJob(j) \/ RemoveJob(j)) \/ Publish
  BY <1>2, ChangeKeepsRest DEF WriteJob, RemoveJob, Publish
<1>3. CASE Tick
  BY <1>3, TickKeepsRest
<1>4. ASSUME NEW r \in Request, Begin(r) \/ Serve(r) \/ Leave(r) PROVE Rest'
  <2>1. QED
    BY <1>4, BeginKeepsRest, AskKeepsRest, ShareKeepsRest, ReadKeepsRest, CheckKeepsRest, OpenKeepsRest, SnapshotKeepsRest,
       HydrateKeepsRest, WriteKeepsRest, FailKeepsRest DEF Serve
<1>5. QED
  BY <1>1, <1>2, <1>3, <1>4 DEF Next

LEMMA ExactInvariance == Spec => []Exact
<1>1. Init => Exact
  BY TypeInit, FlightInit, RestInit DEF Exact
<1>2. Exact /\ [Next]_vars => Exact'
  BY TypeStep, FlightStep, RestStep DEF Exact, Rest
<1>3. QED
  BY <1>1, <1>2, PTL DEF Spec

\* Every request, page, generation and clock is of its type, and a generation has one cached page at most.
THEOREM TypeCorrect == Spec => []TypeOK
<1>1. Exact => TypeOK
  BY DEF Exact
<1>2. QED
  BY <1>1, ExactInvariance, PTL

\* A cached page that the generation scripts can still name is exactly what a query would find: for any
\* number of requests, processes, jobs, changes and clock ticks, and however they interleave with the
\* reads and the write of JobSearchCache.search.
THEOREM CachedPagesAreExact == Spec => []CacheIsExact
<1>1. Exact => CacheIsExact
  <2> SUFFICES ASSUME Exact, NEW e \in cache, e.gen = StampAt(now)
               PROVE  e.page.jobs = Documents(version, Live(version))
    BY DEF CacheIsExact
  <2>1. TypeOK /\ IndexInv /\ Keeps(e.gen, e.page) /\ IsWhole(e.gen, e.page)
    BY DEF Exact, Rest, CacheInv
  <2>2. now \in Nat
    BY <2>1, TimeAssumption DEF TypeOK
  <2>3. e.gen = Stamp /\ Unexpired
    <3>1. e.gen # NoGen
      BY <2>1 DEF Keeps, NoGen
    <3>2. QED
      BY <2>1, <2>2, <3>1, StampFacts DEF Unexpired
  <2>4. e.page.jobs = Documented(version)
    BY <2>1, <2>3 DEF IsWhole, Current, Stamp
  <2>5. Live(version) = Indexed(version)
    BY <2>1, <2>3, ExpiryFacts
  <2>6. QED
    BY <2>4, <2>5 DEF Documents, Documented
<1>2. QED
  BY <1>1, ExactInvariance, PTL

\* No answer, be it cached, shared with an earlier request or queried, lacks a change of the index that was
\* made before its request came in, or holds a job that had expired by then.
THEOREM NothingStale == Spec => []NothingStaleServed
<1>1. Exact => NothingStaleServed
  BY DEF Exact, Rest
<1>2. QED
  BY <1>1, ExactInvariance, PTL
=============================================================================
