----------------------------- MODULE PagedSearch -----------------------------
(***************************************************************************)
(* How a page of jobs is put together when the page cache does not have it *)
(* (backend: SearchJobsService.execute, JobSearchRepository.query,         *)
(* openIndexedSearch, lib/cache): from the published index or, before      *)
(* there is one, from the old sets, the global one or those of keywords,   *)
(* whose members may have lost their documents; in batches that are        *)
(* filtered and, when asked for, ranked by the match with the profile.     *)
(* Documents expire meanwhile and an index may be published.  A job is its *)
(* position in the order of the index, the same in every namespace.        *)
(***************************************************************************)
EXTENDS Integers, FiniteSets, Sequences, SequencesExt, Listings

CONSTANTS Jobs,        \* 1..n
          Matching,    \* those that pass the filters of a filtered search
          Tagged,      \* the union of the sets of the keywords asked for, of which none is taken out
          Preferred,   \* those that have a technology of the profile as keyword
          Scores,      \* functions that give each job its match with the profile
          Limit, Batch, MaxWindows, MaxPage, MaxVersion

PagedSearchAssumption ==
    /\ IsFiniteSet(Jobs) /\ Jobs = 1..Cardinality(Jobs) /\ Matching \subseteq Jobs
    /\ Tagged \subseteq Jobs /\ Preferred \subseteq Jobs
    /\ Scores \subseteq [Jobs -> Nat]
    /\ {Limit, Batch, MaxWindows, MaxPage} \subseteq Nat \ {0} /\ MaxVersion \in Nat

VARIABLES
    version,  \* scraper:jobs:index-version; 0 is none
    docs,     \* jobs that have their document
    members,  \* scraper:jobs:index, the old global set
    score,    \* job -> matchScore
    ask,      \* the search
    at,       \* where it is
    using,    \* version it reads, 0 for the old sets
    ranked,   \* those of the profile are first in a page of the old sets
    ids,      \* its candidates, in order
    cursor,   \* how many of them it has read
    page,     \* jobs, or ranked
    total,
    lost,     \* missingIds; after ranking, those that could not be read again
    windows,  \* windows read
    seen,     \* every job that was read and passed the filters (history)
    before,   \* the page answered before, if this one should continue it (history)
    stable,   \* no index was published since then, and the profile was read (history)
    orphans,  \* jobs without a document that this page leaves in the set it read (history)
    left      \* how many the page before left (history)

pvars == <<version, docs, members, score, ask, at, using, ranked, ids, cursor, page, total, lost,
           windows, seen, before, stable, orphans, left>>
index == <<version, docs, members, score>>
past == <<before, left>>
search == <<ask, at, using, ranked, ids, cursor, page, total, lost, windows, seen, past, stable, orphans>>

\* The profile counts only where neither filters nor an order are asked for.
Asks == {a \in [page : 1..MaxPage, keyword : BOOLEAN, filtered : BOOLEAN, sort : {"none", "asc", "desc"}, profile : BOOLEAN] :
            a.profile => ~a.filtered /\ a.sort = "none"}
JobSeq(s) == \A i \in DOMAIN s : s[i] \in Jobs

PTypeOK ==
    /\ version \in 0..MaxVersion /\ docs \subseteq Jobs /\ members \subseteq Jobs /\ score \in Scores
    /\ ask \in Asks /\ at \in {"idle", "open", "snapshot", "batch", "members", "window", "done", "failed"}
    /\ using \in 0..MaxVersion /\ ranked \in BOOLEAN /\ JobSeq(ids) /\ cursor \in 0..Len(ids) /\ JobSeq(page)
    /\ total \in 0..Cardinality(Jobs) /\ lost \subseteq Jobs /\ windows \in 0..MaxWindows
    /\ JobSeq(seen) /\ JobSeq(before) /\ stable \in BOOLEAN /\ orphans \subseteq Jobs /\ left \in 0..Cardinality(Jobs)

-----------------------------------------------------------------------------
Offset == (ask.page - 1) * Limit
Part(s, first, last) == SubSeq(s, IF first < 1 THEN 1 ELSE first, IF last > Len(s) THEN Len(s) ELSE last)
Slice(s) == Part(s, Offset + 1, Offset + Limit)

\* Those of the profile first, keeping the order.
Relevance ==
    {p \in Jobs \X Jobs : IF ask.profile /\ (p[1] \in Preferred) # (p[2] \in Preferred)
                          THEN p[1] \in Preferred ELSE p[1] < p[2]}
Prioritized(S) == InOrder(S, Relevance)

\* sortJobsByMatch, and the order of the ranking: by score, then by index; no job is twice
\* in what is sorted.
Match(direction) ==
    {p \in Jobs \X Jobs :
        IF score[p[1]] = score[p[2]] THEN p[1] < p[2]
        ELSE IF direction = "asc" THEN score[p[1]] < score[p[2]] ELSE score[p[1]] > score[p[2]]}
ByScore(s, direction) == InOrder(ToSet(s), Match(direction))

\* legacyResolveIds: the set of the keywords or, without one, scraper:jobs:index.
Listed == IF ask.keyword THEN Tagged ELSE members

\* filterJobs over the documents that can be read.
Filtered(s) == Only(s, docs \cap IF ask.filtered THEN Matching ELSE Jobs)

Goto(stage) == at' = stage /\ UNCHANGED <<ask, ranked, past, stable, orphans>>
Fail == Goto("failed") /\ UNCHANGED <<using, ids, cursor, page, total, lost, windows, seen>>

-----------------------------------------------------------------------------
\* A search, or the next page of the one before.
Search(a) ==
    /\ at \in {"idle", "done"}
    /\ ask' = a
    /\ before' = IF at = "done" /\ a = [ask EXCEPT !.page = @ + 1] THEN page ELSE <<>>
    /\ stable' = (stable \/ before' = <<>>)
    /\ left' = IF before' = <<>> THEN 0 ELSE Cardinality(orphans)
    /\ at' = IF a.filtered \/ a.sort # "none" \/ version # 0 THEN "open" ELSE "members"
    /\ using' = 0 /\ ranked' = FALSE /\ ids' = <<>> /\ cursor' = 0 /\ page' = <<>> /\ total' = 0 /\ lost' = {}
    /\ windows' = 0 /\ seen' = <<>> /\ orphans' = {}
    /\ UNCHANGED index

\* openIndexedSearch: the version, and with one the snapshot of the candidates that live,
\* which fails if another version was published in between; without one an old set.
Open ==
    /\ at = "open" /\ using' = version
    /\ ids' = IF version = 0 THEN Ascending(Listed) ELSE <<>>
    /\ Goto(IF version = 0 THEN "batch" ELSE "snapshot")
    /\ UNCHANGED <<index, cursor, page, total, lost, windows, seen>>

Snapshot ==
    /\ at = "snapshot"
    /\ \/ /\ version = using /\ ids' = Prioritized(IF ask.keyword THEN docs \cap Tagged ELSE docs) /\ Goto("batch")
          /\ UNCHANGED <<using, cursor, page, total, lost, windows, seen>>
       \/ version # using /\ Fail
    /\ UNCHANGED index

\* Mutant: the ranking keeps one page, whatever page is asked for.
OnePage == IF using # 0 THEN Len(ids) ELSE Limit

\* How much of the ranking is kept: from the index all of it, in Valkey.
Capacity == IF using # 0 THEN Len(ids) ELSE Offset + Limit

\* The next batch is read and filtered; jobs are ranked, or counted to the page asked for.
\* A snapshot not used for two minutes is gone.
Take(matches) ==
    IF ask.sort # "none" THEN Part(ByScore(page \o matches, ask.sort), 1, Capacity)
    ELSE page \o Part(matches, Offset - total + 1, Offset + Limit - total)

ReadBatch ==
    /\ at = "batch" /\ cursor < Len(ids)
    /\ \/ LET read == Part(ids, cursor + 1, cursor + Batch)
              matches == Filtered(read)
          IN  /\ cursor' = cursor + Len(read)
              /\ page' = Take(matches) /\ total' = total + Len(matches) /\ seen' = seen \o matches
              /\ Goto("batch") /\ UNCHANGED <<using, ids, lost, windows>>
       \/ using # 0 /\ Fail
    /\ UNCHANGED index

\* After the last batch the jobs of a ranked page are read again: one that is gone fails a
\* search of the index and is left out of one of an old set.  The default page is sorted.
Answer ==
    /\ at = "batch" /\ cursor = Len(ids)
    /\ LET slice == IF ask.sort = "none" THEN page ELSE Slice(page)
           gone == IF ask.sort = "none" THEN {} ELSE ToSet(slice) \ docs
           shown == Only(slice, Jobs \ gone)
       IN  IF using # 0 /\ gone # {} THEN Fail
           ELSE /\ page' = IF ask.profile
                           THEN ByScore(shown, "desc") ELSE shown
                /\ lost' = gone /\ Goto("done")
                /\ UNCHANGED <<using, ids, cursor, total, windows, seen>>
    /\ UNCHANGED index

\* orderIdsByProfileRelevance, which leaves the order as it is when the keywords of the
\* profile cannot be read; then hydrateIndexPage.
Members ==
    /\ at = "members" /\ ranked' \in {ask.profile, FALSE}
    /\ ids' = IF ranked' THEN Prioritized(Listed) ELSE Ascending(Listed)
    /\ stable' = (stable /\ ranked' = ask.profile)
    /\ cursor' = IF Offset < Cardinality(Listed) THEN Offset ELSE Cardinality(Listed)
    /\ at' = "window"
    /\ UNCHANGED <<index, ask, using, page, total, lost, windows, seen, past, orphans>>

More == Len(page) < Limit /\ cursor < Len(ids) /\ windows < MaxWindows

\* As many more as the page needs; those without a document are remembered.
ReadWindow ==
    /\ at = "window" /\ More
    /\ LET window == Part(ids, cursor + 1, cursor + Limit - Len(page))
       IN  /\ page' = page \o Only(window, docs) /\ seen' = seen \o Only(window, docs)
           /\ lost' = lost \cup (ToSet(window) \ docs)
           /\ cursor' = cursor + Len(window) /\ windows' = windows + 1
    /\ Goto("window") /\ UNCHANGED <<index, using, ids, total>>

\* Mutant: orphans stay in the set.
RemoveNone(missing) == members

\* removeOrphanIds takes them out of the global set, whichever set was read; its failure is
\* only logged.  The page is sorted if the profile counted.
Removed(missing) == members \ missing
AnswerWindow ==
    /\ at = "window" /\ ~More
    /\ \E removed \in IF lost = {} THEN {TRUE} ELSE BOOLEAN :
          /\ members' = IF removed THEN Removed(lost) ELSE members
          /\ orphans' = IF removed /\ ~ask.keyword THEN {} ELSE lost
    /\ total' = Len(ids) - Cardinality(lost)
    /\ page' = IF ranked /\ ToSet(ids) \cap Preferred # {} THEN ByScore(page, "desc") ELSE page
    /\ at' = "done"
    /\ UNCHANGED <<version, docs, score, ask, using, ranked, ids, cursor, lost, windows, seen, past, stable>>

-----------------------------------------------------------------------------
\* Documents expire; the processor publishes an index.
Expire(j) == j \in docs /\ docs' = docs \ {j} /\ UNCHANGED <<version, members, score, search>>
Publish ==
    /\ version < MaxVersion /\ version' = version + 1 /\ stable' = FALSE
    /\ UNCHANGED <<docs, members, score, ask, at, using, ranked, ids, cursor, page, total, lost, windows, seen, past, orphans>>

PInit ==
    /\ version \in 0..MaxVersion /\ docs \in SUBSET Jobs /\ members = Jobs /\ score \in Scores
    /\ ask = [page |-> 1, keyword |-> FALSE, filtered |-> FALSE, sort |-> "none", profile |-> FALSE]
    /\ at = "idle" /\ using = 0 /\ ranked = FALSE /\ ids = <<>> /\ cursor = 0 /\ page = <<>> /\ total = 0 /\ lost = {}
    /\ windows = 0 /\ seen = <<>> /\ before = <<>> /\ stable = TRUE /\ orphans = {} /\ left = 0

PNext ==
    \/ \E a \in Asks : Search(a)
    \/ Open \/ Snapshot \/ ReadBatch \/ Answer \/ Members \/ ReadWindow \/ AnswerWindow
    \/ \E j \in Jobs : Expire(j)
    \/ Publish

PSpec == PInit /\ [][PNext]_pvars

-----------------------------------------------------------------------------
\* A search that is answered from batches has counted every match it read, and its page is
\* exactly the one asked for of all of them in their order, except for what expired before
\* a ranked page was read again; in particular, ranking batch by batch loses nothing.
PageIsTheSlice ==
    at = "done" /\ windows = 0 /\ (using # 0 \/ ask.filtered \/ ask.sort # "none") =>
      /\ total = Len(seen)
      /\ ToSet(page) = ToSet(Slice(IF ask.sort = "none" THEN seen ELSE ByScore(seen, ask.sort))) \ lost
      /\ ask.sort # "none" => page = ByScore(page, ask.sort)

\* With no new jobs, the page after the one just answered repeats at most as many of its
\* jobs as that one left orphans in the set it read: none of the index or of the global set,
\* although jobs expire between and while the two are read, unless the removal failed; but
\* one for each orphan of a set of keywords, from which nothing is removed.
NextPageGoesOn == at = "done" /\ stable => Cardinality(ToSet(page) \cap ToSet(before)) <= left
=============================================================================
