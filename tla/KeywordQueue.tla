---------------------------- MODULE KeywordQueue ----------------------------
(***************************************************************************)
(* Keywords on their way from a user to the processor: POST /keywords of   *)
(* the backend writes a row and pushes an event (routes/keywords.routes,   *)
(* lib/kwsync); the consumer of the processor polls the list, takes it and *)
(* adds what is new to the stored keywords, which POST /api/keywords of    *)
(* the processor replaces as a whole.  The search terms generated from a   *)
(* keyword are the keyword here.                                           *)
(***************************************************************************)
EXTENDS Naturals, Sequences, SequencesExt

CONSTANTS Requests, Keywords,
          Defaults,  \* keywords.json as it is built in
          None

VARIABLES
    req,      \* request -> [keyword, at]
    rows,     \* keywords of the user's rows
    pending,  \* scraper:keywords:pending
    store,    \* the stored keywords, or None
    at,       \* where the consumer is
    read,     \* events LRANGE answered
    removed,  \* events DEL removed (history)
    existing  \* keywords loaded

kvars == <<req, rows, pending, store, at, read, removed, existing>>
consumer == <<at, read, removed, existing>>

KTypeOK ==
    /\ req \in [Requests -> [keyword : Keywords \cup {None}, at : {"new", "insert", "push", "accepted", "failed"}]]
    /\ rows \subseteq Keywords /\ store \in SUBSET Keywords \cup {None}
    /\ \A s \in {pending, read, removed} : ToSet(s) \subseteq Keywords
    /\ at \in {"idle", "read", "taken", "loaded"} /\ existing \subseteq Keywords

-----------------------------------------------------------------------------
\* POST /keywords, with KWSYNC_ENABLED: the row is inserted once, the event always pushed;
\* a push that fails is logged and answered with 202, a cache that is away is an error.
Post(r, k) ==
    /\ req[r].at = "new" /\ req' = [req EXCEPT ![r] = [keyword |-> k, at |-> "insert"]]
    /\ UNCHANGED <<rows, pending, store, consumer>>
InsertKeyword(r) ==
    /\ req[r].at = "insert"
    /\ \/ rows' = rows \cup {req[r].keyword} /\ req' = [req EXCEPT ![r].at = "push"]
       \/ UNCHANGED rows /\ req' = [req EXCEPT ![r].at = "failed"]
    /\ UNCHANGED <<pending, store, consumer>>
Push(r) ==
    /\ req[r].at = "push"
    /\ \/ /\ pending' \in {<<req[r].keyword>> \o pending, pending}
          /\ req' = [req EXCEPT ![r].at = "accepted"]
       \/ UNCHANGED pending /\ req' = [req EXCEPT ![r].at = "failed"]
    /\ UNCHANGED <<rows, store, consumer>>

-----------------------------------------------------------------------------
Idle == at' = "idle" /\ read' = <<>> /\ removed' = <<>> /\ existing' = {}

\* process, every 30 seconds: LRANGE, DEL, Load, Save; an error or a restart ends it.
ReadPending ==
    /\ at = "idle" /\ pending # <<>> /\ at' = "read" /\ read' = pending
    /\ UNCHANGED <<req, rows, pending, store, removed, existing>>
RemovePending ==
    /\ at = "read" /\ at' = "taken" /\ removed' = pending /\ pending' = <<>>
    /\ UNCHANGED <<req, rows, store, read, existing>>
LoadKeywords ==
    /\ at = "taken" /\ at' = "loaded"
    /\ existing' \in {IF store = None THEN Defaults ELSE store, Defaults}  \* also if it cannot be read
    /\ UNCHANGED <<req, rows, pending, store, read, removed>>
SaveKeywords ==
    /\ at = "loaded" /\ Idle
    /\ store' = IF ToSet(read) \subseteq existing THEN store ELSE existing \cup ToSet(read)
    /\ UNCHANGED <<req, rows, pending>>
GiveUp == at # "idle" /\ Idle /\ UNCHANGED <<req, rows, pending, store>>

\* POST /api/keywords of the processor.
ReplaceKeywords ==
    /\ \E S \in SUBSET Keywords : store' = S
    /\ UNCHANGED <<req, rows, pending, consumer>>

-----------------------------------------------------------------------------
KInit ==
    /\ req = [r \in Requests |-> [keyword |-> None, at |-> "new"]] /\ rows = {} /\ pending = <<>>
    /\ store = None /\ at = "idle" /\ read = <<>> /\ removed = <<>> /\ existing = {}

KNext ==
    \/ \E r \in Requests : (\E k \in Keywords : Post(r, k)) \/ InsertKeyword(r) \/ Push(r)
    \/ ReadPending \/ RemovePending \/ LoadKeywords \/ SaveKeywords \/ GiveUp \/ ReplaceKeywords

KSpec == KInit /\ [][KNext]_kvars

-----------------------------------------------------------------------------
\* The consumer removes the events it has read and no others ("Remove atomicamente antes de
\* processar"): the events between its two commands are not lost.
TakesWhatItRead == at = "taken" => removed = read
=============================================================================
