----------------------------- MODULE TrackedJobs -----------------------------
(***************************************************************************)
(* The saved jobs a user tracks in the dashboard and the menu of notices   *)
(* in its header (frontend: the tracked half of useDashboardJobs, its copy *)
(* in localStorage, dashboardJobsApi, Header): calls to the backend are    *)
(* served and answered in any order, and the page goes on from each answer *)
(* over what the others have left.  Jobs are their links; wording is left  *)
(* out except that two notices may read the same; so are unread counts.    *)
(***************************************************************************)
EXTENDS Naturals, Sequences, Listings

CONSTANTS Links, Statuses,
          MaxTasks,        \* bound on what the user and the page start
          None

TrackedJobsAssumption ==
    /\ {"saved", "applied"} \subseteq Statuses /\ MaxTasks \in Nat /\ IsFiniteSet(Links) /\ IsFiniteSet(Statuses)
    /\ None \notin Links \cup Statuses \cup {"ok", "conflict"}

VARIABLES
    rows,     \* the server's saved_jobs: link -> status, or None
    sent,     \* texts of the server's notices
    list,     \* trackedJobs
    cache,    \* its copy in localStorage
    offered,  \* recommendedJobs
    menu,     \* menuNotifications: [local, text]
    tasks,    \* what is under way
    begun     \* how many were started

tvars == <<rows, sent, list, cache, offered, menu, tasks, begun>>

Job == [link : Links, status : Statuses]
Text == [what : {"saved", "applied", "changed"}, link : Links]
Notice == [local : BOOLEAN, text : Text]
Calls == {"create", "update", "list", "feed", "clear"}
Replies == {None, "ok", "conflict"}

TTypeOK ==
    /\ rows \in [Links -> Statuses \cup {None}] /\ sent \subseteq Text
    /\ \A i \in DOMAIN list : list[i] \in Job
    /\ \A i \in DOMAIN cache : cache[i] \in Job
    /\ offered \subseteq Links /\ begun \in 0..MaxTasks
    /\ \A i \in DOMAIN menu : menu[i] \in Notice
    /\ \A t \in tasks : t.call \in Calls /\ t.reply \in Replies

-----------------------------------------------------------------------------
\* A task: what it is for, the call under way and its reply, and what it read.
Start(job, call, link, status, read) ==
    /\ begun < MaxTasks /\ begun' = begun + 1
    /\ tasks' = tasks \cup {[id |-> begun + 1, job |-> job, call |-> call, link |-> link, status |-> status,
                             reply |-> None, read |-> read]}
End(t) == tasks' = tasks \ {t}
Call(t, call) == tasks' = (tasks \ {t}) \cup {[t EXCEPT !.call = call, !.reply = None]}
Reply(t, reply, read) == tasks' = (tasks \ {t}) \cup {[t EXCEPT !.reply = reply, !.read = read]}

RowList == InSomeOrder({j \in Job : rows[j.link] = j.status})
HasLink(jobs, l) == \E i \in DOMAIN jobs : jobs[i].link = l

\* The page loads the list, showing its copy meanwhile; also on each new search of the
\* recommended jobs.
LoadJobs ==
    /\ Start("load", "list", None, None, cache)
    /\ list' = IF cache # <<>> THEN cache ELSE list
    /\ UNCHANGED <<rows, sent, cache, offered, menu>>

AddTrackedJob(l) ==
    /\ Start("add", "create", l, "saved", <<>>)
    /\ UNCHANGED <<rows, sent, list, cache, offered, menu>>

\* changeJobStatus: a tracked job is updated, a recommended one saved.
ChangeJobStatus(l, s) ==
    /\ \/ HasLink(list, l) /\ Start("move", "update", l, s, <<>>)
       \/ ~HasLink(list, l) /\ l \in offered /\ Start("save", "create", l, s, <<>>)
    /\ UNCHANGED <<rows, sent, list, cache, offered, menu>>

\* loadFeeds, when the header appears and when its menu is opened (and marked as read).
LoadFeeds ==
    /\ Start("feed", "feed", None, None, <<>>)
    /\ UNCHANGED <<rows, sent, list, cache, offered, menu>>
ClearMenu ==
    /\ Start("clear", "clear", None, None, <<>>) /\ menu' = <<>>
    /\ UNCHANGED <<rows, sent, list, cache, offered>>

-----------------------------------------------------------------------------
\* The backend serves a call.
SetRow(t, what) ==
    /\ rows' = [rows EXCEPT ![t.link] = t.status]
    /\ sent' = sent \cup what

Serve(t) ==
    /\ t.reply = None
    /\ \/ /\ t.call = "create" /\ rows[t.link] = None
          /\ SetRow(t, {[what |-> IF t.status = "applied" THEN "applied" ELSE "saved", link |-> t.link]})
          /\ Reply(t, "ok", t.read)
       \/ t.call = "create" /\ rows[t.link] # None /\ Reply(t, "conflict", t.read) /\ UNCHANGED <<rows, sent>>
       \/ /\ t.call = "update"
          /\ SetRow(t, IF rows[t.link] # t.status THEN {[what |-> "changed", link |-> t.link]} ELSE {})
          /\ Reply(t, "ok", t.read)
       \/ /\ t.call = "list" /\ Reply(t, "ok", [old |-> t.read, new |-> RowList])
          /\ UNCHANGED <<rows, sent>>
       \/ /\ t.call = "feed" /\ Reply(t, "ok", InSomeOrder({[local |-> FALSE, text |-> x] : x \in sent}))
          /\ UNCHANGED <<rows, sent>>
       \/ t.call = "clear" /\ sent' = {} /\ Reply(t, "ok", t.read) /\ UNCHANGED rows
    /\ UNCHANGED <<list, cache, offered, menu, begun>>

-----------------------------------------------------------------------------
\* notifyJobEvent and the header's handleRefresh: a local notice, instead of any that
\* reads the same.
Notify(l, s) ==
    LET x == [what |-> IF s = "applied" THEN "applied" ELSE "saved", link |-> l]
    IN  menu' = <<[local |-> TRUE, text |-> x]>> \o Only(menu, {n \in Notice : n.text # x})

Show(jobs) == list' = jobs /\ cache' = jobs
Got(t, reply) == t \in tasks /\ t.reply = reply

\* The list arrives; instead of an empty one the copy the load began with is shown.
JobsLoaded(t) ==
    /\ t.job = "load" /\ Got(t, "ok")
    /\ IF t.read.new # <<>> THEN Show(t.read.new) ELSE list' = t.read.old /\ UNCHANGED cache
    /\ End(t) /\ UNCHANGED <<rows, sent, offered, menu, begun>>

JobAdded(t) ==
    /\ t.job = "add" /\ t.call = "create"
    /\ \/ /\ Got(t, "ok") /\ End(t)
          /\ Show(<<[link |-> t.link, status |-> t.status]>> \o list) /\ Notify(t.link, t.status)
       \/ Got(t, "conflict") /\ Call(t, "list") /\ UNCHANGED <<list, cache, menu>>
    /\ UNCHANGED <<rows, sent, offered, begun>>

\* After a conflict, the list as it is on the server.
AddedBefore(t) ==
    /\ t.job = "add" /\ t.call = "list" /\ Got(t, "ok")
    /\ Show(t.read.new) /\ End(t)
    /\ UNCHANGED <<rows, sent, offered, menu, begun>>

JobMoved(t) ==
    /\ t.job = "move" /\ Got(t, "ok") /\ End(t)
    /\ Show([i \in DOMAIN list |-> IF list[i].link = t.link THEN [list[i] EXCEPT !.status = t.status] ELSE list[i]])
    /\ Notify(t.link, t.status)
    /\ UNCHANGED <<rows, sent, offered, begun>>

\* A recommended job saved: it moves to the list, once.
Keep(t, s) ==
    /\ Show(<<[link |-> t.link, status |-> s]>> \o Only(list, {j \in Job : j.link # t.link}))
    /\ offered' = offered \ {t.link} /\ Notify(t.link, IF t.status = "applied" THEN t.status ELSE s) /\ End(t)

\* When it was saved before, the list tells its status, which is changed if it differs.
JobSaved(t) ==
    /\ t.job = "save"
    /\ \/ t.call \in {"create", "update"} /\ Got(t, "ok") /\ Keep(t, t.status)
       \/ t.call = "create" /\ Got(t, "conflict") /\ Call(t, "list") /\ UNCHANGED <<list, cache, offered, menu>>
       \/ /\ t.call = "list" /\ Got(t, "ok")
          /\ \/ /\ \E i \in DOMAIN t.read.new : t.read.new[i].link = t.link /\ t.read.new[i].status # t.status
                /\ Call(t, "update") /\ UNCHANGED <<list, cache, offered, menu>>
             \/ \E i \in DOMAIN t.read.new : t.read.new[i] = [link |-> t.link, status |-> t.status] /\ Keep(t, t.status)
    /\ UNCHANGED <<rows, sent, begun>>

\* Mutant: the feed is put beside the local notices.
FeedsBeside(t) ==
    /\ t.job = "feed" /\ Got(t, "ok")
    /\ menu' = Only(menu, {n \in Notice : n.local}) \o t.read
    /\ End(t) /\ UNCHANGED <<rows, sent, list, cache, offered, begun>>

\* The feed replaces what came from the server, and the local notices that read the same.
FeedsLoaded(t) ==
    /\ t.job = "feed" /\ Got(t, "ok")
    /\ menu' = Only(menu, {n \in Notice : n.local /\ \A i \in DOMAIN t.read : t.read[i].text # n.text}) \o t.read
    /\ End(t) /\ UNCHANGED <<rows, sent, list, cache, offered, begun>>

\* A call fails, or its answer is lost: without its feeds the menu is empty, anything else
\* is told for three seconds.  Nothing is done with the answer to a clearing.
Failed(t) ==
    /\ menu' = IF t.job = "feed" THEN <<>> ELSE menu
    /\ End(t) /\ UNCHANGED <<rows, sent, list, cache, offered, begun>>

-----------------------------------------------------------------------------
TInit ==
    /\ \E saved \in SUBSET Links : rows = [l \in Links |-> IF l \in saved THEN "saved" ELSE None]
    /\ sent = {} /\ list = <<>> /\ cache \in {<<>>, RowList} /\ offered = Links
    /\ menu = <<>> /\ tasks = {} /\ begun = 0

TNext ==
    \/ LoadJobs \/ LoadFeeds \/ ClearMenu
    \/ \E l \in Links : AddTrackedJob(l) \/ \E s \in Statuses : ChangeJobStatus(l, s)
    \/ \E t \in tasks : \/ Serve(t) \/ JobsLoaded(t) \/ JobAdded(t) \/ AddedBefore(t) \/ JobMoved(t)
                        \/ JobSaved(t) \/ FeedsLoaded(t) \/ Failed(t)

TSpec == TInit /\ [][TNext]_tvars

-----------------------------------------------------------------------------
\* A local notice, shown before the server's own, is never beside another that reads the
\* same, however feeds and events interleave.
NoticeOnce ==
    \A i, j \in DOMAIN menu : menu[i].local /\ i # j => menu[i].text # menu[j].text
=============================================================================
