------------------------------ MODULE JobDialog ------------------------------
(***************************************************************************)
(* The detail of one job over the dashboard (JobDetailModal with           *)
(* ApplicationNotesSection, opened from the Kanban board or the table):    *)
(* its history and its private notes are read while statuses are changed   *)
(* and notes are written.  Saving a recommended job gives it another id,   *)
(* and the answer of a change goes by the job that was selected when it    *)
(* was asked for.  TrackedJobs models what the answers do to the lists.    *)
(***************************************************************************)
EXTENDS Naturals, Sequences, Listings

CONSTANTS Posts,
          MaxAsks,   \* bound on what the user asks of the backend
          MaxOpens,  \* bound on how often a detail is opened
          None

VARIABLES
    rows,      \* the server's saved_jobs: post -> status, or None
    past,      \* how many changes of status it has recorded of each
    remarks,   \* application_notes: post -> set of [id, text]
    desk,      \* the page: [sel, ver, listed, offered, opens]
    story,     \* the timeline of the detail: [of, state, count]
    notes,     \* its notes: [of, list, draft, editing, loading, error], or None
    asks,      \* requests under way
    asked,     \* how many the user made
    confirmed, \* changes of status each detail was told of (history)
    quiet      \* since the notes were mounted their requests came one at a time (history)

jvars == <<rows, past, remarks, desk, story, notes, asks, asked, confirmed, quiet>>
server == <<rows, past, remarks>>

Status == {"saved", "applied"}
Sel == [post : Posts, kept : BOOLEAN]
Note == [id : 1..MaxAsks, text : 1..MaxAsks]
Writing == {"write", "edit", "delete"}

JobDialogAssumption == {MaxAsks, MaxOpens} \subseteq Nat /\ None \notin Posts \cup Status \cup Sel \cup {"ok", "conflict"}

JTypeOK ==
    /\ rows \in [Posts -> Status \cup {None}] /\ past \in [Posts -> Nat]
    /\ \A p \in Posts : remarks[p] \subseteq Note
    /\ desk \in [sel : Sel \cup {None}, ver : Nat, listed : [Posts -> Status \cup {None}], offered : SUBSET Posts,
                 opens : 0..MaxOpens]
    /\ story \in [of : Posts \cup {None}, state : {"shown", "loading", "failed"}, count : Nat]
    /\ notes # None => Entries(notes.list) \subseteq Note /\ notes.of \in Posts
    /\ asked \in 0..MaxAsks /\ quiet \in BOOLEAN /\ confirmed \in [Posts -> Nat]

-----------------------------------------------------------------------------
\* selectedJob: the job with the selected id, if a list still holds it.
Kept(d) == {p \in Posts : d.listed[p] # None}
Viewing(d) ==
    IF d.sel # None /\ d.sel.post \in (IF d.sel.kept THEN Kept(d) ELSE d.offered) THEN d.sel ELSE None
Tracked(d) == Viewing(d) # None /\ Viewing(d).kept

Ask(kind, post) == [id |-> 0, kind |-> kind, post |-> post, status |-> None, told |-> FALSE, text |-> 0,
                    note |-> None, reply |-> None, got |-> {}]
Loads(kinds) == {a \in asks : a.kind \in kinds}

\* Mutant: a change of status does not ask for the history again.
RereadsOnJob(d) == Tracked(d) /\ Viewing(d) # Viewing(desk)

\* The effect of JobDetailModal: the history is read when the job or timelineVersion changes.
Rereads(d) == Tracked(d) /\ (Viewing(d) # Viewing(desk) \/ d.ver # desk.ver)

\* The effect of ApplicationNotesSection; a section that stays for another job keeps its
\* list, its draft and its note being edited.
Mounts(d) == Tracked(d) /\ Viewing(d) # Viewing(desk)

\* The page is rendered from d, with `rest` under way.  What an effect no longer waits for
\* comes to nothing.
Render(d, rest) ==
    LET post == Viewing(d).post
        read == IF Rereads(d) THEN {Ask("events", post)} ELSE {}
        list == IF Mounts(d) THEN {Ask("notes", post)} ELSE {}
        Waited(a) == /\ a.kind = "events" => Tracked(d) /\ ~Rereads(d)
                     /\ a.kind = "notes" => Tracked(d) /\ ~Mounts(d)
    IN  /\ desk' = d
        /\ story' = CASE Viewing(d) = None -> [of |-> None, state |-> "shown", count |-> 0]
                      [] Rereads(d) -> [story EXCEPT !.state = "loading"]
                      [] OTHER -> story
        /\ notes' = CASE ~Tracked(d) -> None
                      [] Mounts(d) /\ notes = None -> [of |-> post, list |-> <<>>, draft |-> 0,
                                                       editing |-> None, loading |-> TRUE, error |-> FALSE]
                      [] OTHER -> IF notes = None THEN None ELSE [notes EXCEPT !.of = post]
        /\ asks' = {a \in rest : Waited(a)} \cup read \cup list
        /\ quiet' = IF Mounts(d) THEN notes = None /\ ~\E a \in rest : a.kind \in Writing ELSE quiet

\* A click on a card or a row, while nothing covers it.
OpenJob(s) ==
    /\ Viewing(desk) = None /\ desk.opens < MaxOpens
    /\ LET d == [desk EXCEPT !.sel = s, !.opens = @ + 1]
       IN  Viewing(d) = s /\ Render(d, asks)
    /\ UNCHANGED <<server, asked, confirmed>>

CloseJob ==
    /\ Viewing(desk) # None
    /\ Render([desk EXCEPT !.sel = None], asks)
    /\ UNCHANGED <<server, asked, confirmed>>

Start(a) ==
    /\ asked < MaxAsks /\ asked' = asked + 1
    /\ asks' = asks \cup {[a EXCEPT !.id = asked + 1]}

\* changeJobStatus, from the select of the detail, a row of the table, or a card that falls
\* on a column of another status.
ChangeStatus(p, s) ==
    /\ IF p \in Kept(desk) THEN desk.listed[p] # s ELSE p \in desk.offered
    /\ Viewing(desk) # None => Viewing(desk) = [post |-> p, kept |-> p \in Kept(desk)]
    /\ Start([Ask(IF p \in Kept(desk) THEN "update" ELSE "create", p) EXCEPT
                  !.status = s, !.told = desk.sel = [post |-> p, kept |-> p \in Kept(desk)]])
    /\ UNCHANGED <<server, desk, story, notes, confirmed, quiet>>

-----------------------------------------------------------------------------
\* The notes: a text is written, or one that is shown is taken to be edited or removed.
\* Nothing keeps the user from asking again before the answer.
Type ==
    /\ notes # None /\ notes.draft = 0 /\ asked < MaxAsks
    /\ notes' = [notes EXCEPT !.draft = asked + 1]
    /\ UNCHANGED <<server, desk, story, asks, asked, confirmed, quiet>>
Edit(n) ==
    /\ notes # None /\ n \in Entries(notes.list) /\ notes.editing # n
    /\ notes' = [notes EXCEPT !.editing = n, !.draft = n.text]
    /\ UNCHANGED <<server, desk, story, asks, asked, confirmed, quiet>>
Alone == quiet' = (quiet /\ Loads(Writing \cup {"notes"}) = {})
Save ==
    /\ notes # None /\ notes.draft # 0
    /\ Start([Ask(IF notes.editing = None THEN "write" ELSE "edit", notes.of) EXCEPT
                  !.text = notes.draft, !.note = notes.editing])
    /\ Alone /\ UNCHANGED <<server, desk, story, notes, confirmed>>
RemoveNote(n) ==
    /\ notes # None /\ n \in Entries(notes.list)
    /\ Start([Ask("delete", notes.of) EXCEPT !.note = n])
    /\ Alone /\ UNCHANGED <<server, desk, story, notes, confirmed>>

-----------------------------------------------------------------------------
\* The backend: a change is recorded if it is one; a note is of its job or not found.
Answered(a, reply, got) == asks' = (asks \ {a}) \cup {[a EXCEPT !.reply = reply, !.got = got]}
Moved(a) ==
    /\ rows' = [rows EXCEPT ![a.post] = a.status]
    /\ past' = [past EXCEPT ![a.post] = @ + (IF rows[a.post] \in {None, a.status} THEN 0 ELSE 1)]
    /\ UNCHANGED remarks
Noted(a, ns) == remarks' = [remarks EXCEPT ![a.post] = ns] /\ UNCHANGED <<rows, past>>
Fresh(a) == [id |-> a.id, text |-> a.text]
Edited(a) == [a.note EXCEPT !.text = a.text]

Serve(a) ==
    /\ a.reply = None
    /\ \/ a.kind = "events" /\ UNCHANGED server /\ Answered(a, "ok", past[a.post])
       \/ a.kind = "notes" /\ UNCHANGED server /\ Answered(a, "ok", remarks[a.post])
       \/ a.kind = "create" /\ rows[a.post] # None /\ UNCHANGED server /\ Answered(a, "conflict", {})
       \/ /\ a.kind \in {"create", "update"} /\ (a.kind = "create" => rows[a.post] = None)
          /\ Moved(a) /\ Answered(a, "ok", {})
       \/ /\ a.kind = "write" /\ Noted(a, remarks[a.post] \cup {Fresh(a)})
          /\ Answered(a, "ok", Fresh(a))
       \/ \E n \in remarks[a.post] :
             /\ a.kind \in {"edit", "delete"} /\ n.id = a.note.id
             /\ Noted(a, (remarks[a.post] \ {n}) \cup (IF a.kind = "edit" THEN {Edited(a)} ELSE {}))
             /\ Answered(a, "ok", {})
    /\ UNCHANGED <<desk, story, notes, asked, confirmed, quiet>>

\* handleStatusChange: a recommended job becomes a tracked one; the detail that was open when
\* the change was asked for, and no other, is told the id and reads the history again.
StatusChanged(a) ==
    /\ a.kind \in {"create", "update"} /\ a.reply = "ok"
    /\ LET d == [desk EXCEPT !.listed[a.post] = a.status, !.offered = @ \ {a.post}]
       IN  /\ Render(IF a.told THEN [d EXCEPT !.sel = [post |-> a.post, kept |-> TRUE], !.ver = @ + 1] ELSE d,
                     asks \ {a})
           /\ confirmed' = IF a.told THEN [confirmed EXCEPT ![a.post] = past[a.post]] ELSE confirmed
    /\ UNCHANGED <<server, asked>>

\* It was saved before: the list tells its id and status, which is changed if it differs.
SavedBefore(a) ==
    /\ a.reply = "conflict"
    /\ asks' = (asks \ {a}) \cup {IF rows[a.post] = a.status THEN [a EXCEPT !.reply = "ok"]
                                  ELSE [a EXCEPT !.kind = "update", !.reply = None]}
    /\ UNCHANGED <<server, desk, story, notes, asked, confirmed, quiet>>

TimelineLoaded(a) ==
    /\ a.kind = "events" /\ a.reply = "ok"
    /\ story' = [of |-> a.post, state |-> "shown", count |-> a.got]
    /\ asks' = asks \ {a} /\ UNCHANGED <<server, desk, notes, asked, confirmed, quiet>>

NotesLoaded(a) ==
    /\ a.kind = "notes" /\ a.reply = "ok"
    /\ notes' = [notes EXCEPT !.list = InSomeOrder(a.got), !.loading = FALSE]
    /\ asks' = asks \ {a} /\ UNCHANGED <<server, desk, story, asked, confirmed, quiet>>

\* The answer to a section that is gone changes nothing.
NoteWritten(a) ==
    /\ a.kind \in Writing /\ a.reply = "ok"
    /\ LET list == CASE a.kind = "write" -> Append(notes.list, a.got)
                     [] a.kind = "edit" -> [i \in DOMAIN notes.list |->
                            IF notes.list[i].id = a.note.id THEN Edited(a) ELSE notes.list[i]]
                     [] OTHER -> Only(notes.list, {n \in Entries(notes.list) : n.id # a.note.id})
       IN  notes' = IF notes = None THEN None
                    ELSE IF a.kind = "delete" THEN [notes EXCEPT !.list = list]
                    ELSE [notes EXCEPT !.list = list, !.draft = 0, !.editing = None]
    /\ asks' = asks \ {a} /\ UNCHANGED <<server, desk, story, asked, confirmed, quiet>>

\* A request fails, is refused, or its answer is lost.
Failed(a) ==
    /\ story' = IF a.kind = "events" THEN [story EXCEPT !.state = "failed"] ELSE story
    /\ notes' = IF notes = None \/ a.kind \notin Writing \cup {"notes"} THEN notes
                ELSE [notes EXCEPT !.error = TRUE, !.loading = @ /\ a.kind # "notes"]
    /\ asks' = asks \ {a} /\ UNCHANGED <<server, desk, asked, confirmed, quiet>>

JInit ==
    /\ \E kept \in SUBSET Posts :
          /\ rows = [p \in Posts |-> IF p \in kept THEN "saved" ELSE None]
          /\ \E known \in SUBSET kept :
                desk = [sel |-> None, ver |-> 0, listed |-> [p \in Posts |-> IF p \in known THEN "saved" ELSE None], offered |-> Posts \ known,
                        opens |-> 0]
    /\ past = [p \in Posts |-> 0] /\ confirmed = past /\ remarks = [p \in Posts |-> {}]
    /\ story = [of |-> None, state |-> "shown", count |-> 0] /\ notes = None
    /\ asks = {} /\ asked = 0 /\ quiet = TRUE

JNext ==
    \/ CloseJob \/ Type \/ Save
    \/ \E s \in Sel : OpenJob(s)
    \/ \E p \in Posts, s \in Status : ChangeStatus(p, s)
    \/ \E n \in Note : Edit(n) \/ RemoveNote(n)
    \/ \E a \in asks : \/ Serve(a) \/ StatusChanged(a) \/ SavedBefore(a) \/ TimelineLoaded(a)
                       \/ NotesLoaded(a) \/ NoteWritten(a) \/ Failed(a)

JSpec == JInit /\ [][JNext]_jvars

-----------------------------------------------------------------------------
\* A history that is shown is that of the job shown, and has every change the detail was
\* told of, whichever requests it overtook and whichever id the job had before.
HistoryIsCurrent ==
    Tracked(desk) /\ story.state = "shown" =>
        story.of = desk.sel.post /\ story.count >= confirmed[story.of]

\* Notes that are changed one at a time, after they were read, are shown as they are stored.
NotesAreStored ==
    notes # None /\ quiet /\ ~notes.error /\ ~notes.loading /\ Loads(Writing) = {} =>
        Entries(notes.list) = remarks[notes.of] /\ Len(notes.list) = Cardinality(remarks[notes.of])
=============================================================================
