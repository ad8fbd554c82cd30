---------------------------- MODULE ProcessStage ----------------------------
(***************************************************************************)
(* The processing stage of a run (processIncomingJobs of                   *)
(* internal/pipeline/process.go) with a durable catalog: deduplication in  *)
(* a window, classification, persistence and indexing in batches, late     *)
(* duplicates, failures, cancellation and the end of the input.            *)
(*                                                                         *)
(* A job is what its identity and its fate depend on: an external id, the  *)
(* title with company and location (name), a URL and a description (text). *)
(* Zero is an empty field, and of two values the larger is the longer.     *)
(***************************************************************************)
EXTENDS Integers, Sequences, SequencesExt

CONSTANTS Copies,        \* the jobs that adapters may hand over
          ScopedTexts,   \* the descriptions that classify as in scope
          ClassifyBatch, PersistBatch, IndexBatch,  \* the sizes of batches
          MaxReceived    \* bound: how many jobs the input holds

Kinds == <<"ext", "name", "url">>
Value == {0} \cup UNION {{c.ext, c.name, c.url} : c \in Copies}
Posting == [ext : Value, name : Value, url : Value, text : Nat,
        scope : {"unknown", "in", "out"}]

ProcessStageAssumption ==
    /\ \A c \in Copies : c \in Posting /\ c.scope = "unknown" /\ \E k \in {"ext", "name", "url"} : c[k] # 0
    /\ Copies # {} /\ Value \subseteq Nat
    /\ {ClassifyBatch, PersistBatch, IndexBatch} \subseteq Nat \ {0} /\ MaxReceived \in Nat

Key == {"ext", "name", "url"} \X (Value \ {0})
Id == {"name", "url"} \X (Value \ {0})
NoId == <<"none", 0>>

\* dedup.Keys; Kinds is its order.
Keys(j) == {<<k, j[k]>> : k \in {x \in Range(Kinds) : j[x] # 0}}

\* jobstore.StableID: a document's ID comes from its name, or else its URL.
StableId(j) ==
    CASE j.name # 0 -> <<"name", j.name>>
      [] j.name = 0 /\ j.url # 0 -> <<"url", j.url>>
      [] OTHER -> NoId

\* dedup.Merge: the longest of each field, and the first ID there is.
Merge(a, b) ==
    [ext |-> IF a.ext # 0 THEN a.ext ELSE b.ext,
     name |-> Max({a.name, b.name}), url |-> Max({a.url, b.url}),
     text |-> Max({a.text, b.text}), scope |-> a.scope]

\* jobstore.MergeStored: what is not empty replaces what is stored.
MergeStored(old, new) ==
    [old EXCEPT !.url = IF new.url # 0 THEN new.url ELSE @,
                !.text = IF new.text # 0 THEN new.text ELSE @,
                !.scope = new.scope]

Classify(j) == [j EXCEPT !.scope = IF j.text \in ScopedTexts THEN "in" ELSE "out"]

VARIABLES
    pc,         \* where processIncomingJobs is
    canceled,   \* the context of the run
    error,      \* terminalErr is set
    count,      \* how many jobs were received
    ended,      \* the input is closed
    jobs,       \* the job objects of the run, by pointer
    seen,       \* key -> pointer, 0 for none
    window,     \* pending: pointers of the jobs not yet classified
    todo,       \* jobs on their way to the catalog
    written,    \* documents whose writing the catalog confirmed, in this batch
    flushed,    \* key -> ID of a persisted job
    known,      \* persistedByID: ID -> revision and job as last confirmed
    buffer,     \* indexBuf: IDs with the revision to index
    catalog,    \* the catalog's documents
    index,      \* ID -> revision that searches find
    due,        \* history: IDs of the jobs classified as in scope
    broken      \* history: a write to the index has failed

dedup == <<jobs, seen, window, flushed, known>>
vars == <<pc, canceled, error, count, ended, jobs, seen, window, todo, written,
          flushed, known, buffer, catalog, index, due, broken>>

NoDoc == [rev |-> 0, job |-> CHOOSE c \in Copies : TRUE]
Doc == [rev : Nat, job : Posting]
Entry == [id : Id, rev : Nat \ {0}]

TypeOK ==
    /\ pc \in {"receive", "persist", "index", "final", "done"}
    /\ canceled \in BOOLEAN /\ error \in BOOLEAN /\ ended \in BOOLEAN
    /\ broken \in BOOLEAN
    /\ count \in 0..MaxReceived
    /\ jobs \in Seq(Posting)
    /\ seen \in [Key -> 0..Len(jobs)]
    /\ window \in Seq(1..Len(jobs)) /\ Len(window) < ClassifyBatch
    /\ todo \in Seq(Posting) /\ Len(todo) <= ClassifyBatch
    /\ written \in Seq([id : Id, doc : Doc])
    /\ flushed \in [Key -> Id \cup {NoId}]
    /\ known \in [Id -> Doc] /\ catalog \in [Id -> Doc]
    /\ buffer \in Seq(Entry)
    /\ index \in [Id -> Nat]
    /\ due \subseteq Id

Init ==
    /\ pc = "receive"
    /\ canceled = FALSE /\ error = FALSE /\ ended = FALSE /\ broken = FALSE
    /\ count = 0
    /\ jobs = <<>> /\ window = <<>> /\ todo = <<>> /\ written = <<>>
    /\ seen = [k \in Key |-> 0]
    /\ flushed = [k \in Key |-> NoId]
    /\ known = [i \in Id |-> NoDoc] /\ catalog = [i \in Id |-> NoDoc]
    /\ buffer = <<>>
    /\ index = [i \in Id |-> 0]
    /\ due = {}
-----------------------------------------------------------------------------
Cancel ==
    /\ ~canceled /\ pc # "done"
    /\ canceled' = TRUE
    /\ UNCHANGED <<pc, error, count, ended, dedup, todo, written, buffer,
                   catalog, index, due, broken>>

\* The first key of j among hits, as a set of at most one.
FirstHit(j, hits) ==
    LET at == {i \in DOMAIN Kinds : <<Kinds[i], j[Kinds[i]]>> \in hits}
    IN  {<<Kinds[i], j[Kinds[i]]>> : i \in {n \in at : \A m \in at : n <= m}}

\* indexSeen: the object's old keys go, its present ones come.
IndexSeen(p, j) ==
    [k \in Key |-> IF k \in Keys(j) THEN p
                   ELSE IF seen[k] = p THEN 0 ELSE seen[k]]

FlushedKeys == {k \in Key : flushed[k] # NoId}
SeenKeys == {k \in Key : seen[k] # 0}

\* The loop takes another job off its queue: the context is alive and no
\* error has ended the processing.  Jobs that come after that are thrown away.
Receiving ==
    /\ pc = "receive" /\ ~ended /\ ~error /\ ~canceled
    /\ count < MaxReceived
    /\ count' = count + 1

\* The loop notices the cancellation.
NoticeCancel ==
    /\ pc = "receive" /\ ~ended /\ ~error /\ canceled
    /\ count < MaxReceived
    /\ count' = count + 1
    /\ error' = TRUE
    /\ UNCHANGED <<pc, canceled, ended, dedup, todo, written, buffer, catalog,
                   index, due, broken>>

\* mergeFlushed: the job of the run's earlier window that c duplicates, with c
\* merged in.  A document that was in scope stays there.
MergeLate(old, c) ==
    LET merged == Classify(Merge(old, c))
    IN  IF merged.scope = "out" THEN [merged EXCEPT !.scope = old.scope] ELSE merged

LateDuplicate(c) ==
    /\ Receiving
    /\ \E k \in FirstHit(c, FlushedKeys) :
          todo' = <<MergeLate(known[flushed[k]].job, c)>>
    /\ pc' = "persist"
    /\ UNCHANGED <<canceled, error, ended, dedup, written, buffer, catalog,
                   index, due, broken>>

\* A duplicate of a job in `seen` is merged into that object.
WindowDuplicate(c) ==
    /\ Receiving
    /\ FirstHit(c, FlushedKeys) = {}
    /\ \E k \in FirstHit(c, SeenKeys) :
          LET p == seen[k]
              merged == Merge(jobs[p], c)
          IN  /\ jobs' = [jobs EXCEPT ![p] = merged]
              /\ seen' = IndexSeen(p, merged)
    /\ UNCHANGED <<pc, canceled, error, ended, window, flushed, known, todo,
                   written, buffer, catalog, index, due, broken>>

\* processStageBatch up to the writing: invalid and rejected jobs go no further.
Approve(approved, j) ==
    IF StableId(j) # NoId /\ Classify(j).scope = "in" THEN Append(approved, Classify(j)) ELSE approved
Approved(ptrs, objs) == FoldLeft(Approve, <<>>, [i \in DOMAIN ptrs |-> objs[ptrs[i]]])

\* flushPending hands the window to classification and persistence.
Flush(ptrs, objs) ==
    /\ window' = <<>>
    /\ todo' = Approved(ptrs, objs)
    /\ due' = due \cup {StableId(j) : j \in Range(Approved(ptrs, objs))}
    /\ pc' = "persist"

\* A job that duplicates nothing joins the window, which is flushed when full.
NewJob(c) ==
    /\ Receiving
    /\ FirstHit(c, FlushedKeys) = {} /\ FirstHit(c, SeenKeys) = {}
    /\ jobs' = Append(jobs, c)
    /\ LET p == Len(jobs) + 1
       IN  /\ seen' = IndexSeen(p, c)
           /\ IF Len(window) + 1 = ClassifyBatch
              THEN Flush(Append(window, p), Append(jobs, c))
              ELSE /\ window' = Append(window, p)
                   /\ UNCHANGED <<pc, todo, due>>
    /\ UNCHANGED <<canceled, error, ended, flushed, known, written, buffer,
                   catalog, index, broken>>

\* The input is closed.  What is pending is flushed, unless the processing has
\* already failed or the context is done.
EndOfInput ==
    /\ pc = "receive" /\ ~ended
    /\ ended' = TRUE
    /\ \/ /\ ~error /\ ~canceled /\ window # <<>>
          /\ Flush(window, jobs)
          /\ UNCHANGED error
       \/ /\ error \/ canceled \/ window = <<>>
          /\ error' = (error \/ (canceled /\ window # <<>>))
          /\ pc' = "final"
          /\ UNCHANGED <<window, todo, due>>
    /\ UNCHANGED <<canceled, count, jobs, seen, flushed, known, written, buffer,
                   catalog, index, broken>>
-----------------------------------------------------------------------------
\* persistJobs, chunk by chunk.

FirstOf(s, n) == SubSeq(s, 1, Min({n, Len(s)}))
After(s, n) == SubSeq(s, n + 1, Len(s))

\* SaveBatch: a document is found by its StableID, which also replaces
\* whatever ID the job came with.
SaveOne(cat, j) ==
    [cat EXCEPT ![StableId(j)] =
        [rev |-> @.rev + 1,
         job |-> [(IF @.rev = 0 THEN j ELSE MergeStored(@.job, j)) EXCEPT !.ext = 0]]]
SaveAll(chunk) == FoldLeft(SaveOne, catalog, chunk)

\* SaveChunk of persistJobs with one chunk only.
SaveOneChunk ==
    /\ pc = "persist" /\ todo # <<>> /\ ~canceled
    /\ LET chunk == FirstOf(todo, PersistBatch)
           saved == SaveAll(chunk)
           ids == SetToSeq({StableId(j) : j \in Range(chunk)})
       IN  /\ catalog' = saved
           /\ written' = written \o [i \in DOMAIN ids |-> [id |-> ids[i], doc |-> saved[ids[i]]]]
    /\ todo' = <<>>
    /\ UNCHANGED <<pc, canceled, error, count, ended, dedup, buffer, index, due,
                   broken>>

SaveChunk ==
    /\ pc = "persist" /\ todo # <<>> /\ ~canceled
    /\ LET chunk == FirstOf(todo, PersistBatch)
           saved == SaveAll(chunk)
           ids == SetToSeq({StableId(j) : j \in Range(chunk)})
       IN  /\ catalog' = saved
           /\ written' = written \o [i \in DOMAIN ids |-> [id |-> ids[i], doc |-> saved[ids[i]]]]
    /\ todo' = After(todo, PersistBatch)
    /\ UNCHANGED <<pc, canceled, error, count, ended, dedup, buffer, index, due,
                   broken>>

\* The write fails, or it commits and its answer is lost, or the context is
\* done: the chunks that are left are not written.
SaveFails ==
    /\ pc = "persist" /\ todo # <<>>
    /\ catalog' \in IF canceled THEN {catalog}
                    ELSE {catalog, SaveAll(FirstOf(todo, PersistBatch))}
    /\ error' = TRUE
    /\ todo' = <<>>
    /\ UNCHANGED <<pc, canceled, count, ended, dedup, written, buffer, index,
                   due, broken>>

\* Enqueue that keeps the older of two revisions.
EnqueueFirst(buf, d) ==
    IF \E i \in DOMAIN buf : buf[i].id = d.id
    THEN buf
    ELSE Append(buf, [id |-> d.id, rev |-> d.doc.rev])

\* enqueuePersisted: a document that waits already is replaced.
Enqueue(buf, d) ==
    IF \E i \in DOMAIN buf : buf[i].id = d.id
    THEN [i \in DOMAIN buf |-> IF buf[i].id = d.id THEN [buf[i] EXCEPT !.rev = d.doc.rev]
                                                  ELSE buf[i]]
    ELSE Append(buf, [id |-> d.id, rev |-> d.doc.rev])

\* rememberPersisted and enqueuePersisted, document by document.
RememberOne(m, d) ==
    [known |-> [m.known EXCEPT ![d.id] = d.doc],
     flushed |-> [k \in Key |-> IF k \in Keys(d.doc.job) THEN d.id ELSE m.flushed[k]],
     buffer |-> Enqueue(m.buffer, d)]
Remembered == FoldLeft(RememberOne, [known |-> known, flushed |-> flushed, buffer |-> buffer], written)

\* Remember that queues nothing for the index when a later chunk has failed.
RememberUnlessFailed ==
    /\ pc = "persist" /\ todo = <<>>
    /\ LET m == Remembered
       IN  /\ known' = m.known /\ flushed' = m.flushed
           /\ buffer' = IF error THEN buffer ELSE m.buffer
    /\ written' = <<>>
    /\ pc' = "index"
    /\ UNCHANGED <<canceled, error, count, ended, jobs, seen, window, todo,
                   catalog, index, due, broken>>

\* What was written is remembered and queued for the index, also when a later
\* chunk of the batch has failed.
Remember ==
    /\ pc = "persist" /\ todo = <<>>
    /\ LET m == Remembered
       IN  known' = m.known /\ flushed' = m.flushed /\ buffer' = m.buffer
    /\ written' = <<>>
    /\ pc' = "index"
    /\ UNCHANGED <<canceled, error, count, ended, jobs, seen, window, todo,
                   catalog, index, due, broken>>
-----------------------------------------------------------------------------
\* flushIndexBuffer.

Resume == IF ended THEN "final" ELSE "receive"

\* What Apply leaves of the entries it wrote: it never replaces a newer one.
IndexAfter(entries) ==
    [i \in Id |-> Max({index[i]} \cup {e.rev : e \in {x \in entries : x.id = i}})]

\* Full batches are written as they come, and any batch at the end.
IndexDue ==
    /\ pc \in {"index", "final"} /\ buffer # <<>>
    /\ pc = "index" => Len(buffer) >= IndexBatch

\* Apply and MarkIndexed.
IndexChunk ==
    /\ IndexDue /\ ~canceled
    /\ index' = IndexAfter(Range(FirstOf(buffer, IndexBatch)))
    /\ buffer' = After(buffer, IndexBatch)
    /\ UNCHANGED <<pc, canceled, error, count, ended, dedup, todo, written,
                   catalog, due, broken>>

\* The write fails, with part of the batch in place.  The batch has left the
\* buffer and is not tried again.
IndexFails ==
    /\ IndexDue /\ ~canceled
    /\ LET chunk == FirstOf(buffer, IndexBatch)
       IN  \E part \in SUBSET Range(chunk) : index' = IndexAfter(part)
    /\ buffer' = After(buffer, IndexBatch)
    /\ error' = TRUE /\ broken' = TRUE
    /\ pc' = IF pc = "final" THEN "done" ELSE Resume
    /\ UNCHANGED <<canceled, count, ended, dedup, todo, written, catalog, due>>

\* Nothing is due: the loop goes on, or the last flush follows, or the stage
\* ends.  A cancellation that finds a batch due makes it an error; one that
\* comes before the last flush skips that flush.
IndexRests ==
    /\ pc \in {"index", "final"}
    /\ \/ ~IndexDue /\ UNCHANGED error
       \/ IndexDue /\ canceled /\ error' = TRUE
       \/ IndexDue /\ canceled /\ pc = "final" /\ UNCHANGED error
    /\ pc' = IF pc = "final" THEN "done" ELSE Resume
    /\ UNCHANGED <<canceled, count, ended, dedup, todo, written, buffer, catalog,
                   index, due, broken>>

Terminated == pc = "done" /\ UNCHANGED vars

Next ==
    \/ Cancel \/ NoticeCancel
    \/ \E c \in Copies : LateDuplicate(c) \/ WindowDuplicate(c) \/ NewJob(c)
    \/ EndOfInput
    \/ SaveChunk \/ SaveFails \/ Remember
    \/ IndexChunk \/ IndexFails \/ IndexRests
    \/ Terminated

Spec == Init /\ [][Next]_vars
-----------------------------------------------------------------------------
\* The index only ever shows what was committed, and what is indexed last of a
\* document is the last revision this run knows of it: no late duplicate is
\* overtaken by the revision that it replaced.
IndexFollowsCatalog ==
    /\ \A i \in Id : index[i] <= catalog[i].rev
    /\ \A n \in DOMAIN buffer : buffer[n].rev = known[buffer[n].id].rev

\* Whatever failed, everything that the catalog confirmed reaches the index
\* before the stage ends, unless the index itself refused a write or the run
\* was canceled.
ConfirmedIsIndexed ==
    pc = "done" /\ ~broken /\ ~canceled =>
        \A i \in Id : index[i] >= known[i].rev

\* A stage that ends without an error has left nothing half done: every job
\* it approved is in the catalog, and the index shows the catalog's revision
\* of every document the run wrote.
SuccessIsSearchable ==
    pc = "done" /\ ~error /\ ~canceled =>
        /\ \A i \in due : catalog[i].rev > 0
        /\ \A i \in Id : index[i] = catalog[i].rev
=============================================================================
