----------------------------- MODULE MCProcessor -----------------------------
(* The processor's catalog and its processing stage side by side, each on a *)
(* small instance: `part` says which one a behaviour is of, and the other   *)
(* stands still.  Jobs, families and workers are interchangeable.           *)
EXTENDS CatalogIndex, TLC

CONSTANTS Copies, ScopedTexts, ClassifyBatch, PersistBatch, IndexBatch, MaxReceived  \* ProcessStage

VARIABLES part,
    stage, canceled, error, count, ended, jobs, seen, window, todo, written, flushed, known,
    buffer, documents, shown, due, broken

staged == <<stage, canceled, error, count, ended, jobs, seen, window, todo, written, flushed,
            known, buffer, documents, shown, due, broken>>

Copy(e, n, u, t) == [ext |-> e, name |-> n, url |-> u, text |-> t, scope |-> "unknown"]

\* In scope; the same URL with a longer name; the same name with a longer,
\* unscoped description; another job without a name; one that only an external
\* id identifies, which the first copy shares; and a third job.
MCCopies == {Copy(1, 1, 1, 1), Copy(0, 2, 1, 1), Copy(0, 1, 0, 2),
             Copy(0, 0, 2, 1), Copy(1, 0, 0, 0), Copy(2, 3, 0, 1)}

Stage == INSTANCE ProcessStage WITH pc <- stage, catalog <- documents, index <- shown

ASSUME MCAssumption == Stage!ProcessStageAssumption

-----------------------------------------------------------------------------
MCInit == part \in {"catalog", "stage"} /\ Init /\ Stage!Init

MCNext ==
    /\ part' = part
    /\ \/ part = "catalog" /\ Next /\ UNCHANGED staged
       \/ part = "stage" /\ Stage!Next /\ UNCHANGED vars

MCSpec == MCInit /\ [][MCNext]_<<part, vars, staged>>

MCSymmetry == Permutations(Job) \cup Permutations(Family) \cup Permutations(Worker)

-----------------------------------------------------------------------------
\* ProcessStage: the index shows what was committed, and last the last revision.
IndexFollowsCatalog == Stage!IndexFollowsCatalog

\* ProcessStage: what the catalog confirmed reaches the index, whatever else failed.
ConfirmedIsIndexed == Stage!ConfirmedIsIndexed

\* ProcessStage: a stage that ends without an error has left nothing half done.
SuccessIsSearchable == Stage!SuccessIsSearchable
=============================================================================
