----------------------------- MODULE LegacyIndex -----------------------------
(***************************************************************************)
(* The keys of jobs in Valkey while the first index is being published:    *)
(* a super administrator clears the cache of jobs (lib/cache) and the      *)
(* backend seeds demonstration jobs (scripts/seedCatalogJobs), both made   *)
(* for the keys there were before, as the processor builds and publishes a *)
(* namespace.  Only which keys exist is modelled; an action is a command   *)
(* or script of Valkey.                                                    *)
(***************************************************************************)
EXTENDS Naturals, FiniteSets, Sequences

CONSTANTS Docs,       \* scraper:job:<id>
          Sets,       \* scraper:jobs:index and scraper:jobs:<kind>:<value>
          Namespace,  \* keys of the namespace: scraper:jobs:ns:<version>:...
          SourceOf,   \* the set of the namespace that is published as a set
          SeedKeys    \* sequence of the keys a seed writes

LegacyIndexAssumption ==
    /\ Docs \cap Sets = {} /\ Namespace \cap (Docs \cup Sets) = {}
    /\ SourceOf \in [Sets -> Namespace]
    /\ \A i \in DOMAIN SeedKeys : SeedKeys[i] \in Docs \cup Sets

VARIABLES
    active,   \* scraper:jobs:index-version is set
    keys,     \* keys that exist
    rebuild,  \* how far the processor is
    clear,    \* [at, batch, left]: left are keys SCAN still owes
    seed      \* keys the seed has written, or one more than all when it is over

lvars == <<active, keys, rebuild, clear, seed>>

Patterns == {"job", "jobs"}
Match(pattern) == IF pattern = "job" THEN Docs ELSE Sets \cup Namespace

LTypeOK ==
    /\ active \in BOOLEAN /\ keys \subseteq Docs \cup Sets \cup Namespace
    /\ rebuild \in {"building", "valid", "published"} /\ seed \in 0..Len(SeedKeys) + 1
    /\ clear.at \in Patterns \cup {"new", "done", "skipped", "retry"}
    /\ clear.batch \subseteq Match("job") \cup Match("jobs") /\ clear.left \subseteq keys \cup clear.batch

Write(ks) == keys' = keys \cup ks /\ clear' = clear

-----------------------------------------------------------------------------
\* cacheClearJobs: with an index only the generation of the page cache changes.
ClearJobs ==
    /\ clear.at = "new"
    /\ clear' = IF active THEN [clear EXCEPT !.at = "skipped"]
                ELSE [at |-> "job", batch |-> {}, left |-> keys \cap Match("job")]
    /\ UNCHANGED <<active, keys, rebuild, seed>>

\* cacheDeleteByPattern: SCAN answers some keys that match, in the end each that stays.
Scan ==
    /\ clear.at \in Patterns /\ clear.batch = {} /\ clear.left # {}
    /\ \E b \in SUBSET (keys \cap Match(clear.at)) :
          /\ b # {} /\ clear' = [clear EXCEPT !.batch = b, !.left = @ \ b]
    /\ UNCHANGED <<active, keys, rebuild, seed>>

\* Mutant: a batch is deleted whatever was published.
MayAlwaysDelete == TRUE

\* The script that deletes a batch, unless an index was published meanwhile.
MayDelete == ~active
DeleteBatch ==
    /\ clear.batch # {}
    /\ keys' = IF MayDelete THEN keys \ clear.batch ELSE keys
    /\ clear' = [clear EXCEPT !.batch = {}, !.left = @ \ clear.batch, !.at = IF MayDelete THEN @ ELSE "retry"]
    /\ UNCHANGED <<active, rebuild, seed>>

\* SCAN is over: the next pattern, or the answer.
ScanOver ==
    /\ clear.at \in Patterns /\ clear.batch = {} /\ clear.left = {}
    /\ clear' = IF clear.at = "job" THEN [clear EXCEPT !.at = "jobs", !.left = keys \cap Match("jobs")]
                ELSE [clear EXCEPT !.at = "done"]
    /\ UNCHANGED <<active, keys, rebuild, seed>>

-----------------------------------------------------------------------------
\* seedCatalogJobs: nothing with an index; else key after key, or an error in between.
SeedStart ==
    /\ seed = 0
    /\ IF active THEN seed' = Len(SeedKeys) + 1 /\ UNCHANGED <<keys, clear>>
       ELSE seed' = 1 /\ Write({SeedKeys[1]})
    /\ UNCHANGED <<active, rebuild>>
SeedWrite ==
    /\ seed \in 1..Len(SeedKeys)
    /\ \/ seed < Len(SeedKeys) /\ seed' = seed + 1 /\ Write({SeedKeys[seed + 1]})
       \/ seed' = Len(SeedKeys) + 1 /\ UNCHANGED <<keys, clear>>
    /\ UNCHANGED <<active, rebuild>>

-----------------------------------------------------------------------------
\* Rebuild: the keys of the namespace, the comparison with the catalog, the publication,
\* which also renews the sets.
BuildKey(k) ==
    /\ rebuild = "building" /\ k \notin keys /\ Write({k})
    /\ UNCHANGED <<active, rebuild, seed>>
Compare ==
    /\ rebuild = "building" /\ Namespace \subseteq keys /\ rebuild' = "valid"
    /\ UNCHANGED <<active, keys, clear, seed>>
Publish ==
    /\ rebuild = "valid" /\ rebuild' = "published" /\ active' = TRUE
    /\ LET renewed == {s \in Sets : SourceOf[s] \in keys}
       IN  keys' = (keys \ Sets) \cup renewed
    /\ clear' = [clear EXCEPT !.left = @ \cap keys']
    /\ UNCHANGED seed

-----------------------------------------------------------------------------
LInit ==
    /\ active = FALSE /\ keys \in SUBSET (Docs \cup Sets)
    /\ rebuild = "building" /\ seed = 0
    /\ clear = [at |-> "new", batch |-> {}, left |-> {}]

LNext ==
    \/ ClearJobs \/ Scan \/ DeleteBatch \/ ScanOver \/ SeedStart \/ SeedWrite
    \/ \E k \in Namespace : BuildKey(k)
    \/ Compare \/ Publish

LSpec == LInit /\ [][LNext]_lvars

-----------------------------------------------------------------------------
\* Once an index is published nothing removes a key: not a clear that began before, at
\* whatever key it was ("must not delete an active validated namespace or durable jobs").
ActiveIsSpared == [][active => keys \subseteq keys']_lvars
=============================================================================
