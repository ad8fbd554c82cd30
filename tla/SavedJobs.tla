------------------------------ MODULE SavedJobs ------------------------------
(***************************************************************************)
(* The saved jobs of one user, with the history of their status, their     *)
(* notes and the user's notifications (backend/src/modules/savedJobs,      *)
(* modules/notifications).  Requests run at once; each action is one       *)
(* statement that commits by itself, or the BEGIN, the row lock or the     *)
(* rest of the one transaction there is, that of an update.                *)
(***************************************************************************)
EXTENDS Naturals, Sequences

CONSTANTS Requests,   \* HTTP requests; a row made by one carries its name as id
          Old,        \* ids of the jobs saved before
          Links, Statuses, None

SavedJobsAssumption ==
    /\ {"saved", "applied"} \subseteq Statuses
    /\ Old \cap Requests = {} /\ None \notin Old \cup Requests \cup Links \cup Statuses

Ids == Old \cup Requests
Kinds == {"job_saved", "job_applied", "job_status_changed", "high_match"}

VARIABLES
    jobs,     \* rows of saved_jobs: [id, link, first, status]; first is the status it began with
    events,   \* id -> application_events of the job in the order of their commits: [from, to, at]
    notes,    \* application_notes: [id, job]
    notices,  \* user_notifications: [id, kind, about, read]
    locks,    \* request -> the job it holds FOR UPDATE, or None
    begun,    \* transactions begun so far: the clock of created_at
    req       \* request -> what it asks and how far it is

svars == <<jobs, events, notes, notices, locks, begun, req>>

Ops == {"create", "update", "delete", "note", "dropNote", "read", "clear", "match"}
Blank == [op |-> None, at |-> "new", job |-> None, link |-> None, status |-> None, begin |-> 0,
          from |-> None]

STypeOK ==
    /\ jobs \subseteq [id : Ids, link : Links, first : Statuses, status : Statuses]
    /\ events \in [Ids -> Seq([from : Statuses, to : Statuses, at : Nat])]
    /\ notes \subseteq [id : Requests, job : Ids]
    /\ notices \subseteq [id : Requests, kind : Kinds, about : Ids \cup Links, read : BOOLEAN]
    /\ locks \in [Requests -> Ids \cup {None}]
    /\ begun \in Nat
    /\ req \in [Requests -> [op : Ops \cup {None}, at : {"new", "first", "second", "third", "served", "failed"},
                             job : Ids \cup {None}, link : Links \cup {None}, status : Statuses \cup {None},
                             begin : Nat, from : Statuses \cup {None}]]

-----------------------------------------------------------------------------
With(id) == {j \in jobs : j.id = id}

At(r, op, at) == req[r].op = op /\ req[r].at = at
Go(r, at) == req' = [req EXCEPT ![r] = IF at \in {"served", "failed"} THEN [Blank EXCEPT !.at = at]
                                       ELSE [@ EXCEPT !.at = at]]

Ask(r) ==
    /\ req[r].at = "new"
    /\ LET Begin(ask) == req' = [req EXCEPT ![r] = [ask EXCEPT !.at = "first"]]
       IN  \/ \E l \in Links, s \in {"saved", "applied"} :
                Begin([Blank EXCEPT !.op = "create", !.link = l, !.status = s])
           \/ \E i \in Ids, s \in Statuses \cup {None} :   \* None: only the notes change
                Begin([Blank EXCEPT !.op = "update", !.job = i, !.status = s])
           \/ \E i \in Ids, o \in {"delete", "note", "dropNote"} : Begin([Blank EXCEPT !.op = o, !.job = i])
           \/ \E o \in {"read", "clear"} : Begin([Blank EXCEPT !.op = o])
           \/ \E l \in Links : Begin([Blank EXCEPT !.op = "match", !.link = l])
    /\ UNCHANGED <<jobs, events, notes, notices, locks, begun>>

\* create: no job with the link is found, the row is inserted, the notification follows.
FindSaved(r) ==
    /\ At(r, "create", "first")
    /\ Go(r, IF \E j \in jobs : j.link = req[r].link THEN "failed" ELSE "second")
    /\ UNCHANGED <<jobs, events, notes, notices, locks, begun>>

InsertSaved(r) ==
    /\ At(r, "create", "second")
    /\ jobs' = jobs \cup {[id |-> r, link |-> req[r].link, first |-> req[r].status, status |-> req[r].status]}
    /\ Go(r, "third")
    /\ UNCHANGED <<events, notes, notices, locks, begun>>

Notice(r, kind, about) == notices \cup {[id |-> r, kind |-> kind, about |-> about, read |-> FALSE]}

\* The insert of the notification may fail: the request does, the job stays saved.
NotifySaved(r) ==
    /\ At(r, "create", "third")
    /\ \/ /\ notices' = Notice(r, IF req[r].status = "applied" THEN "job_applied" ELSE "job_saved", r)
          /\ Go(r, "served")
       \/ Go(r, "failed") /\ UNCHANGED notices
    /\ UNCHANGED <<jobs, events, notes, locks, begun>>

\* update: BEGIN, which fixes the now() of its rows; the row lock; then the rest.
BeginUpdate(r) ==
    /\ At(r, "update", "first")
    /\ begun' = begun + 1
    /\ req' = [req EXCEPT ![r].begin = begun + 1, ![r].at = "second"]
    /\ UNCHANGED <<jobs, events, notes, notices, locks>>

Locked(r, id) == \E q \in Requests \ {r} : locks[q] = id

\* SELECT ... FOR UPDATE: the row as it is once nobody else holds it.
ReadSaved(r) ==
    /\ At(r, "update", "second")
    /\ IF With(req[r].job) = {} THEN Go(r, "failed") /\ UNCHANGED locks
       ELSE \E j \in With(req[r].job) :
              /\ req' = [req EXCEPT ![r].at = "third", ![r].from = j.status]
              /\ locks' = [locks EXCEPT ![r] = j.id]
    /\ UNCHANGED <<jobs, events, notes, notices, begun>>

LockSaved(r) == ~Locked(r, req[r].job) /\ ReadSaved(r)

StatusChanged(r) == req[r].status \notin {None, req[r].from}

UpdateSaved(r) ==
    /\ At(r, "update", "third")
    /\ \E j \in With(req[r].job) :
         IF StatusChanged(r)
         THEN /\ jobs' = (jobs \ {j}) \cup {[j EXCEPT !.status = req[r].status]}
              /\ events' = [events EXCEPT ![j.id] =
                      Append(@, [from |-> req[r].from, to |-> req[r].status, at |-> req[r].begin])]
              /\ notices' = Notice(r, IF req[r].status = "applied" THEN "job_applied"
                                      ELSE "job_status_changed", j.id)
         ELSE UNCHANGED <<jobs, events, notices>>
    /\ locks' = [locks EXCEPT ![r] = None]
    /\ Go(r, "served")
    /\ UNCHANGED <<notes, begun>>

\* delete: waits for the row; the history and the notes go with it.
DeleteSaved(r) ==
    /\ At(r, "delete", "first")
    /\ ~Locked(r, req[r].job)
    /\ jobs' = jobs \ With(req[r].job)
    /\ events' = [events EXCEPT ![req[r].job] = <<>>]
    /\ notes' = {n \in notes : n.job # req[r].job}
    /\ Go(r, IF With(req[r].job) = {} THEN "failed" ELSE "served")
    /\ UNCHANGED <<notices, locks, begun>>

\* A note: its job is looked up, then it is inserted under a foreign key.
EnsureJobOwner(r) ==
    /\ At(r, "note", "first")
    /\ Go(r, IF With(req[r].job) = {} THEN "failed" ELSE "second")
    /\ UNCHANGED <<jobs, events, notes, notices, locks, begun>>

InsertNote(r) ==
    /\ At(r, "note", "second")
    /\ IF With(req[r].job) = {} THEN Go(r, "failed") /\ UNCHANGED notes
       ELSE notes' = notes \cup {[id |-> r, job |-> req[r].job]} /\ Go(r, "served")
    /\ UNCHANGED <<jobs, events, notices, locks, begun>>

DeleteNote(r) ==
    /\ At(r, "dropNote", "first")
    /\ \/ \E n \in notes : n.job = req[r].job /\ notes' = notes \ {n} /\ Go(r, "served")
       \/ Go(r, "failed") /\ UNCHANGED notes
    /\ UNCHANGED <<jobs, events, notices, locks, begun>>

\* markRead of one notification or markAllRead; clear.
MarkRead(r) ==
    /\ At(r, "read", "first")
    /\ \E some \in {notices} \cup {{n} : n \in notices} :
         notices' = (notices \ some) \cup {[n EXCEPT !.read = TRUE] : n \in some}
    /\ Go(r, "served")
    /\ UNCHANGED <<jobs, events, notes, locks, begun>>

Clear(r) ==
    /\ At(r, "clear", "first")
    /\ notices' = {}
    /\ Go(r, "served")
    /\ UNCHANGED <<jobs, events, notes, locks, begun>>

\* createHighMatchIfMissing of a search: looks for the notification, then inserts it.
FindMatch(r) ==
    /\ At(r, "match", "first")
    /\ Go(r, IF \E n \in notices : n.kind = "high_match" /\ n.about = req[r].link
             THEN "served" ELSE "second")
    /\ UNCHANGED <<jobs, events, notes, notices, locks, begun>>

InsertMatch(r) ==
    /\ At(r, "match", "second")
    /\ notices' = Notice(r, "high_match", req[r].link)
    /\ Go(r, "served")
    /\ UNCHANGED <<jobs, events, notes, locks, begun>>

-----------------------------------------------------------------------------
SInit ==
    /\ jobs \in {{[id |-> i, link |-> l, first |-> "saved", status |-> "saved"] : i \in Old} : l \in Links}
    /\ events = [i \in Ids |-> <<>>] /\ notes = {} /\ notices = {}
    /\ locks = [r \in Requests |-> None]
    /\ begun = 0
    /\ req = [r \in Requests |-> Blank]

Serve(r) ==
    \/ FindSaved(r) \/ InsertSaved(r) \/ NotifySaved(r)
    \/ BeginUpdate(r) \/ LockSaved(r) \/ UpdateSaved(r) \/ DeleteSaved(r)
    \/ EnsureJobOwner(r) \/ InsertNote(r) \/ DeleteNote(r)
    \/ MarkRead(r) \/ Clear(r) \/ FindMatch(r) \/ InsertMatch(r)

SNext == \E r \in Requests : Ask(r) \/ Serve(r)

-----------------------------------------------------------------------------
\* Each entry starts at the status the one before it ended with, the first at the status
\* the job was saved with; the job has the status of the last.
Explains(h, j) ==
    /\ \A k \in 1..Len(h) : h[k].from = IF k = 1 THEN j.first ELSE h[k - 1].to
    /\ j.status = IF h = <<>> THEN j.first ELSE h[Len(h)].to

\* Concurrent updates of one job leave a history that leads to its status: an update
\* compares with the row it has locked.
HistoryExplainsStatus == \A j \in jobs : Explains(events[j.id], j)
=============================================================================
