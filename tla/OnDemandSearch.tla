--------------------------- MODULE OnDemandSearch ---------------------------
(***************************************************************************)
(* Searches on demand at the processor (pipeline: SearchJobs; inflight;    *)
(* source_schedule): equal searches of one process share a flight, which   *)
(* looks into the cache of answers once more, takes the run lock and       *)
(* collects; runs of the scheduler compete for the lock.  One source is    *)
(* left out of all but one run in twelve hours.  What a run does is        *)
(* Collection's and ProcessStage's, what the lock guarantees RunLock's.    *)
(***************************************************************************)
EXTENDS Naturals, Sequences

CONSTANTS Searchers, \* requests of POST /api/jobs/scrape
          Searches,  \* cache keys
          Ttl, Cadence, MaxTime, MaxFaults, None

OnDemandSearchAssumption == {Ttl, Cadence} \subseteq Nat \ {0} /\ {MaxTime, MaxFaults} \subseteq Nat /\ "scheduler" \notin Searches

VARIABLES
    ask,     \* of every request: where it is, its key, whether its client has gone
    flight,  \* key -> the flight under way: its leader, where it is, whether its lease was lost, its outcome
    holder,  \* of the run lock: a key, "scheduler", or None
    answers, \* key -> the end of the cached answer, or None
    gate,    \* when the key of the source's cadence expires
    asked,   \* when the source was let into runs by the gate (history)
    now, faults

ovars == <<ask, flight, holder, answers, gate, asked, now, faults>>

OTypeOK ==
    /\ ask \in [Searchers -> [at : {"idle", "do", "waits", "answered", "failed"}, key : Searches \cup {None}, gone : BOOLEAN]]
    /\ flight \in [Searches -> {None} \cup [leader : Searchers, lost : BOOLEAN, outcome : {"error", "answer"},
                                            at : {"recheck", "acquire", "gate", "scrape", "set", "release", "finish"}]]
    /\ holder \in Searches \cup {"scheduler", None} /\ answers \in [Searches -> 1..(MaxTime + Ttl) \cup {None}]
    /\ now \in 0..MaxTime /\ faults \in 0..MaxFaults

-----------------------------------------------------------------------------
Live(k) == answers[k] # None /\ answers[k] > now
Fault == faults < MaxFaults /\ faults' = faults + 1
NoFault == UNCHANGED faults

\* The context of a flight is its leader's.
Canceled(k) == flight[k].lost \/ ask[flight[k].leader].gone

\* BuildCacheKey: equal searches have one key.
Keyed(s, k, at) == ask' = [ask EXCEPT ![s] = [@ EXCEPT !.at = at, !.key = k]]

\* SearchJobs: the cache first.
Begin(s) ==
    /\ ask[s].at = "idle"
    /\ \E k \in Searches, at \in {"do", "answered", "failed"} :
         /\ Keyed(s, k, at)
         /\ IF at = "failed" THEN Fault ELSE NoFault /\ (at = "answered") = Live(k)
    /\ UNCHANGED <<flight, holder, answers, gate, asked, now>>

\* inflight.Do
Do(s) ==
    /\ ask[s].at = "do" /\ ask' = [ask EXCEPT ![s].at = "waits"]
    /\ flight' = [flight EXCEPT ![ask[s].key] =
                    IF @ = None THEN [leader |-> s, lost |-> FALSE, outcome |-> "error", at |-> "recheck"] ELSE @]
    /\ UNCHANGED <<holder, answers, gate, asked, now, faults>>

Go(k, at, outcome) == flight' = [flight EXCEPT ![k] = [@ EXCEPT !.at = at, !.outcome = outcome]]
At(k, at) == flight[k] # None /\ flight[k].at = at

\* Mutant: whoever missed the cache collects.
CollectsAnyway(k) == TRUE
Missing(k) == ~Live(k)

Recheck(k) ==
    /\ At(k, "recheck")
    /\ \/ Go(k, "finish", "error") /\ IF Canceled(k) THEN NoFault ELSE Fault
       \/ ~Canceled(k) /\ (IF Missing(k) THEN Go(k, "acquire", "error") ELSE Go(k, "finish", "answer")) /\ NoFault
    /\ UNCHANGED <<ask, holder, answers, gate, asked, now>>

Acquire(k) ==
    /\ At(k, "acquire")
    /\ \/ holder = None /\ ~Canceled(k) /\ holder' = k /\ Go(k, "gate", "error") /\ NoFault
       \/ (holder # None \/ Canceled(k)) /\ Go(k, "finish", "error") /\ NoFault /\ UNCHANGED holder
       \/ Go(k, "finish", "error") /\ Fault /\ UNCHANGED holder
    /\ UNCHANGED <<ask, answers, gate, asked, now>>

\* Mutant: an expired key is not needed.
GateStandsOpen == TRUE
GateIsOpen == gate <= now

\* shouldRunJooble: SET NX; an error lets the source in.
Passes ==
    IF GateIsOpen THEN gate' = now + Cadence /\ asked' = Append(asked, now) ELSE UNCHANGED <<gate, asked>>
Gate(k) ==
    /\ At(k, "gate") /\ Go(k, "scrape", "error")
    /\ \/ ~Canceled(k) /\ Passes /\ NoFault
       \/ Canceled(k) /\ NoFault /\ UNCHANGED <<gate, asked>>
       \/ Fault /\ UNCHANGED <<gate, asked>>
    /\ UNCHANGED <<ask, holder, answers, now>>

\* A run that is canceled ends with an error, and any other may.
Scrape(k) ==
    /\ At(k, "scrape")
    /\ \/ ~Canceled(k) /\ Go(k, "set", "answer") /\ NoFault
       \/ Canceled(k) /\ Go(k, "release", "error") /\ NoFault
       \/ Go(k, "release", "error") /\ Fault
    /\ UNCHANGED <<ask, holder, answers, gate, asked, now>>

\* The answer is kept if it can be.
Set(k) ==
    /\ At(k, "set") /\ Go(k, "release", "answer")
    /\ \/ ~Canceled(k) /\ answers' = [answers EXCEPT ![k] = now + Ttl] /\ NoFault
       \/ Canceled(k) /\ NoFault /\ UNCHANGED answers
       \/ Fault /\ UNCHANGED answers
    /\ UNCHANGED <<ask, holder, gate, asked, now>>

\* The deferred release, in a context of its own; when it fails, so does the search, and the
\* lock is left to expire.
Release(k) ==
    /\ At(k, "release")
    /\ \/ holder = k /\ holder' = None /\ Go(k, "finish", flight[k].outcome) /\ NoFault
       \/ holder # k /\ Go(k, "finish", "error") /\ NoFault /\ UNCHANGED holder
       \/ Go(k, "finish", "error") /\ Fault /\ UNCHANGED holder
    /\ UNCHANGED <<ask, answers, gate, asked, now>>

\* Everyone who waits gets what the leader got.
Finish(k) ==
    /\ At(k, "finish") /\ flight' = [flight EXCEPT ![k] = None]
    /\ ask' = [s \in Searchers |-> IF ask[s].at = "waits" /\ ask[s].key = k
                                   THEN [ask[s] EXCEPT !.at = IF flight[k].outcome = "answer" THEN "answered" ELSE "failed"]
                                   ELSE ask[s]]
    /\ UNCHANGED <<holder, answers, gate, asked, now, faults>>

\* The client closes its connection, or the search takes too long.
Leave(s) ==
    /\ ask[s].at \in {"do", "waits"} /\ ~ask[s].gone /\ ask' = [ask EXCEPT ![s].gone = TRUE]
    /\ UNCHANGED <<flight, holder, answers, gate, asked, now, faults>>

\* A lease is lost, or a lock nobody released expires.
Leased(k) == IF flight[k] = None THEN FALSE ELSE flight[k].at \in {"gate", "scrape", "set", "release"}
Expire ==
    /\ holder \in Searches /\ holder' = None
    /\ IF Leased(holder) THEN Fault /\ flight' = [flight EXCEPT ![holder].lost = TRUE] ELSE NoFault /\ UNCHANGED flight
    /\ UNCHANGED <<ask, answers, gate, asked, now>>

ScheduledRun ==
    \/ holder = None /\ holder' = "scheduler" /\ Passes /\ UNCHANGED <<ask, flight, answers, now, faults>>
    \/ holder = "scheduler" /\ holder' = None /\ UNCHANGED <<ask, flight, answers, gate, asked, now, faults>>

Tick == now < MaxTime /\ now' = now + 1 /\ UNCHANGED <<ask, flight, holder, answers, gate, asked, faults>>

\* A request may have found the cache empty already.
OInit ==
    /\ ask \in [Searchers -> {[at |-> "idle", key |-> None, gone |-> FALSE]} \cup [at : {"do"}, key : Searches, gone : {FALSE}]]
    /\ flight = [k \in Searches |-> None]
    /\ holder = None /\ answers = [k \in Searches |-> None] /\ gate = 0 /\ asked = <<>> /\ now = 0 /\ faults = 0

ONext ==
    \/ \E s \in Searchers : Begin(s) \/ Do(s) \/ Leave(s)
    \/ \E k \in Searches : Recheck(k) \/ Acquire(k) \/ Gate(k) \/ Scrape(k) \/ Set(k) \/ Release(k) \/ Finish(k)
    \/ Expire \/ ScheduledRun \/ Tick

OSpec == OInit /\ [][ONext]_ovars

-----------------------------------------------------------------------------
\* Nothing is collected on demand while an answer to the same search is kept, however late
\* a request that missed it comes to its flight.
CollectsOnlyWhatIsMissing == \A k \in Searches : flight[k] # None /\ flight[k].at \in {"acquire", "gate", "scrape"} => ~Live(k)

\* The source is asked at most once in its cadence, by whichever runs, as long as Valkey
\* answers the gate.
SourceIsSpared == \A i \in 2..Len(asked) : asked[i] - asked[i - 1] >= Cadence
=============================================================================
