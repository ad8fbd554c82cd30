----------------------------- MODULE CatalogIndex -----------------------------
(***************************************************************************)
(* The durable catalog of scraper-go and its projections: the PostgreSQL   *)
(* table job_catalog (internal/catalog), the versioned Valkey namespaces   *)
(* scraper:jobs:ns:<version>: (internal/jobindex), and the operations that *)
(* keep them together: collection (internal/pipeline), deactivation        *)
(* (cmd/catalog), expiration, reclassification, rebuild and rollback       *)
(* (internal/catalogops).  There is no transaction across the two stores.  *)
(*                                                                         *)
(* A payload is the revision that wrote it.  A classification is the set   *)
(* key it indexes the job under; Family stands for every such key.  The    *)
(* compatibility keys outside the namespaces are left out, except the set  *)
(* scraper:job:<id>:idx, which the script reads back.                      *)
(***************************************************************************)
EXTENDS Naturals, FiniteSets

CONSTANTS Job, Family,
          Worker,       \* the runs and commands at work, in any process
          Version,      \* the names that rebuilds draw
          Bootstrap,    \* the namespace in use before the first rebuild
          Lifetime,     \* Store.Lifetime
          MaxTime,      \* bound: the clock stops here
          MaxRevision,  \* bound: as many drawn revisions
          Forever       \* the expiry of a key that has none

ASSUME CatalogAssumption ==
    /\ Lifetime \in Nat \ {0} /\ MaxTime \in Nat /\ MaxRevision \in Nat
    /\ Bootstrap \notin Version /\ Forever \notin Nat

VARIABLES
    now,
    row,      \* job_catalog: revision, family, expiry, indexed_revision
    seq,      \* job_catalog_revision_seq
    active,   \* scraper:jobs:index-version
    gen,      \* jobs:search:generation, of which only changes matter
    made,     \* the namespaces whose manifest was written
    kept,     \* those whose index SET and expires ZSET no longer expire
    member,   \* index-membership:<id>: revision, keys, expiry of the entry
    index,    \* the index SET and expires ZSET: the score, 0 when absent
    fset,     \* the SETs of IDs by family
    until,    \* the expiry of those SETs
    idx,      \* scraper:job:<id>:idx
    op,       \* what each worker is doing; its lease with it
    pc,
    plan,     \* the committed rows it carries: revision, family, expiry
    ver,      \* the namespace it is to write
    from,     \* the active namespace it read
    at        \* the instant a rebuild fixed

catalog == <<row, seq>>
entries == <<member, index, fset, until, idx>>
projection == <<active, gen, made, kept, entries>>
local == <<op, pc, plan, ver, from, at>>
vars == <<now, catalog, projection, local>>

Namespace == Version \cup {Bootstrap}
Time == 0..(MaxTime + Lifetime)
Revision == 0..MaxRevision
SharedOp == {"collect", "deactivate", "expire"}
ExclusiveOp == {"reclassify", "rebuild", "rollback"}

NoRow == [rev |-> 0, fam |-> {}, exp |-> 0, indexed |-> 0]
NoMember == [rev |-> 0, keys |-> {}, until |-> Forever]
NoPlan == [j \in {} |-> NoRow]
Committed == [rev : 1..MaxRevision, fam : {{f} : f \in Family}, exp : Time]

TypeOK ==
    /\ now \in 0..MaxTime /\ seq \in Revision
    /\ row \in [Job -> {NoRow} \cup
           [rev : 1..MaxRevision, fam : {{f} : f \in Family}, exp : Time, indexed : Revision]]
    /\ active \in kept /\ kept \subseteq made /\ made \subseteq Namespace
    /\ gen \in BOOLEAN
    /\ member \in [Namespace -> [Job ->
           [rev : Revision, keys : SUBSET Family, until : Time \cup {Forever}]]]
    /\ index \in [Namespace -> [Job -> Time]]
    /\ fset \in [Namespace -> [Family -> SUBSET Job]]
    /\ until \in [Namespace -> [Family -> Time \cup {Forever}]]
    /\ idx \in [Job -> SUBSET Family]
    /\ op \in [Worker -> {"none"} \cup SharedOp \cup ExclusiveOp]
    /\ pc \in [Worker -> {"idle", "ready", "read", "committed", "versioned", "applied",
                          "drafting", "valid", "published"}]
    /\ \A w \in Worker : DOMAIN plan[w] \subseteq Job
                         /\ \A j \in DOMAIN plan[w] : plan[w][j] \in Committed
    /\ ver \in [Worker -> Namespace] /\ from \in [Worker -> Namespace]
    /\ at \in [Worker -> 0..MaxTime]

Init ==
    /\ now = 0 /\ seq = 0
    /\ row = [j \in Job |-> NoRow]
    /\ active = Bootstrap /\ made = {Bootstrap} /\ kept = {Bootstrap} /\ gen = FALSE
    /\ member = [v \in Namespace |-> [j \in Job |-> NoMember]]
    /\ index = [v \in Namespace |-> [j \in Job |-> 0]]
    /\ fset = [v \in Namespace |-> [f \in Family |-> {}]]
    /\ until = [v \in Namespace |-> [f \in Family |-> Forever]]
    /\ idx = [j \in Job |-> {}]
    /\ op = [w \in Worker |-> "none"] /\ pc = [w \in Worker |-> "idle"]
    /\ plan = [w \in Worker |-> NoPlan]
    /\ ver = [w \in Worker |-> Bootstrap] /\ from = [w \in Worker |-> Bootstrap]
    /\ at = [w \in Worker |-> 0]

Exists(j) == row[j].rev > 0
AliveAt(j, t) == Exists(j) /\ row[j].exp > t
Alive(j) == AliveAt(j, now)
Carried(j) == [rev |-> row[j].rev, fam |-> row[j].fam, exp |-> row[j].exp]

Go(w, stage) == pc' = [pc EXCEPT ![w] = stage]
Carry(w, p) == plan' = [plan EXCEPT ![w] = p]

\* What the worker carried goes out of scope.
Resume(w, stage) ==
    /\ Go(w, stage)
    /\ Carry(w, NoPlan)
    /\ ver' = [ver EXCEPT ![w] = Bootstrap]
    /\ from' = [from EXCEPT ![w] = Bootstrap]
    /\ at' = [at EXCEPT ![w] = 0]
-----------------------------------------------------------------------------
\* Leases: the advisory lock of PostgreSQL, shared or exclusive.

\* Maintenance under the lease of processing.
BeginShared(w, o) ==
    /\ pc[w] = "idle"
    /\ \A x \in Worker : op[x] \notin ExclusiveOp
    /\ op' = [op EXCEPT ![w] = o]
    /\ Go(w, "ready")
    /\ UNCHANGED <<now, catalog, projection, plan, ver, from, at>>

Begin(w, o) ==
    /\ pc[w] = "idle"
    /\ \A x \in Worker : op[x] \notin ExclusiveOp
    /\ o \in ExclusiveOp => \A x \in Worker : op[x] = "none"
    /\ op' = [op EXCEPT ![w] = o]
    /\ Go(w, "ready")
    /\ UNCHANGED <<now, catalog, projection, plan, ver, from, at>>

\* The worker ends, by itself, by an error or by a crash, and its lease ends
\* with it.  What it carried is lost.
End(w) ==
    /\ pc[w] # "idle"
    /\ op' = [op EXCEPT ![w] = "none"]
    /\ Resume(w, "idle")
    /\ UNCHANGED <<now, catalog, projection>>
-----------------------------------------------------------------------------
\* Transactions on job_catalog.  Row locks make each of them atomic; a batch
\* draws one revision, since revisions are only compared job by job.

\* Rows change and the worker carries what RETURNING gave it, and `other`.
Commit(w, new, other) ==
    LET jobs == DOMAIN new IN
    /\ jobs # {} /\ seq < MaxRevision
    /\ seq' = seq + 1
    /\ row' = [j \in Job |-> IF j \in jobs
                 THEN [rev |-> seq + 1, fam |-> new[j].fam, exp |-> new[j].exp,
                       indexed |-> row[j].indexed]
                 ELSE row[j]]
    /\ Carry(w, [j \in jobs \cup other |-> IF j \in jobs
                   THEN [rev |-> seq + 1, fam |-> new[j].fam, exp |-> new[j].exp]
                   ELSE plan[w][j]])
    /\ Go(w, "committed")
    /\ UNCHANGED <<now, projection, op, ver, from, at>>

\* SaveBatch: a collected job replaces the row and renews its life.
Save(w) ==
    /\ pc[w] = "ready" /\ op[w] = "collect"
    /\ \E jobs \in SUBSET Job : \E fam \in [jobs -> Family] :
          Commit(w, [j \in jobs |-> [fam |-> {fam[j]}, exp |-> now + Lifetime]], {})

Deactivate(w) ==
    /\ pc[w] = "ready" /\ op[w] = "deactivate"
    /\ \E jobs \in SUBSET {j \in Job : Alive(j)} :
          Commit(w, [j \in jobs |-> [fam |-> row[j].fam, exp |-> now]], {})

\* InactiveBatch, less the rows the active namespace no longer has: the two
\* reads are one step, for what comes between them only adds newer revisions.
ReadExpired(w) ==
    LET gone == {j \in Job : Exists(j) /\ ~Alive(j) /\ index[active][j] # 0} IN
    /\ pc[w] = "ready" /\ op[w] = "expire"
    /\ gone # {}
    /\ Carry(w, [j \in gone |-> Carried(j)])
    /\ Go(w, "committed")
    /\ UNCHANGED <<now, catalog, projection, op, ver, from, at>>

\* Reclassify reads the active rows, then writes the payloads it has read with
\* another classification, and indexes them all.
ReadActive(w) ==
    LET jobs == {j \in Job : Alive(j)} IN
    /\ pc[w] = "ready" /\ op[w] = "reclassify"
    /\ jobs # {}
    /\ Carry(w, [j \in jobs |-> Carried(j)])
    /\ Go(w, "read")
    /\ UNCHANGED <<now, catalog, projection, op, ver, from, at>>

\* Another classification under the revision of the old one.
ReclassifyInPlace(w) ==
    /\ pc[w] = "read"
    /\ \E j \in DOMAIN plan[w] : \E f \in Family :
          /\ {f} # plan[w][j].fam
          /\ row' = [row EXCEPT ![j].fam = {f}]
          /\ Carry(w, [plan[w] EXCEPT ![j].fam = {f}])
    /\ Go(w, "committed")
    /\ UNCHANGED <<now, seq, projection, op, ver, from, at>>

Reclassify(w) ==
    /\ pc[w] = "read"
    /\ \E jobs \in SUBSET DOMAIN plan[w] : \E fam \in [jobs -> Family] :
          /\ \A j \in jobs : {fam[j]} # plan[w][j].fam
          /\ \/ Commit(w, [j \in jobs |-> [fam |-> {fam[j]}, exp |-> row[j].exp]],
                       DOMAIN plan[w])
             \/ /\ jobs = {}
                /\ Go(w, "committed")
                /\ UNCHANGED <<now, catalog, projection, op, plan, ver, from, at>>

\* MarkIndexed without the comparison of revisions.
MarkIndexedBlindly(w, jobs) ==
    row' = [j \in Job |-> IF j \in jobs
              THEN [row[j] EXCEPT !.indexed = row[j].rev] ELSE row[j]]

\* Only rows that are still at the revision the worker indexed.
MarkIndexed(w, jobs) ==
    row' = [j \in Job |->
              IF j \in jobs /\ row[j].rev = plan[w][j].rev
                 /\ row[j].indexed < plan[w][j].rev
              THEN [row[j] EXCEPT !.indexed = row[j].rev] ELSE row[j]]

Mark(w) ==
    /\ pc[w] = "applied"
    /\ MarkIndexed(w, DOMAIN plan[w])
    /\ Resume(w, "ready")
    /\ UNCHANGED <<now, seq, projection, op>>
-----------------------------------------------------------------------------
\* Manager.Apply: read the active version, then the script on that version.

ReadVersion(w) ==
    /\ pc[w] = "committed"
    /\ ver' = [ver EXCEPT ![w] = active]
    /\ Go(w, "versioned")
    /\ UNCHANGED <<now, catalog, projection, op, plan, from, at>>

\* What the script finds of job j in namespace v.
Old(v, j, draft) ==
    IF member[v][j].rev > 0 \/ draft THEN member[v][j]
                                     ELSE [NoMember EXCEPT !.keys = idx[j]]

\* The last write wins.
Overwrites(v, j, p, draft) == p.rev > 0

\* Does the script write job j in namespace v, given that p is to be projected?
Applies(v, j, p, draft) ==
    LET old == Old(v, j, draft) IN
    \/ old.rev < p.rev
    \/ old.rev = p.rev /\ p.exp <= now /\ (old.keys # {} \/ index[v][j] # 0)

\* The keys of a job that is no longer alive are emptied.
Keys(p) == IF p.exp > now THEN p.fam ELSE {}

\* A draft's entries and sets expire with its jobs; TTL is one second at least.
DraftExpiry(p) == IF p.exp > now THEN p.exp ELSE now + 1

\* EXPIRE, but never to an earlier instant.
Extended(t, ends) ==
    IF t = Forever /\ ends = {} THEN Forever
    ELSE LET all == ends \cup ({t} \ {Forever}) IN
         CHOOSE u \in all : \A e \in all : e <= u

\* The script on namespace v with plans p, one per job in DOMAIN p.
ApplyScript(v, p, draft) ==
    LET hit == {j \in DOMAIN p : Applies(v, j, p[j], draft)}
        into(f) == {j \in hit : f \in Keys(p[j])}
    IN
    /\ member' = [member EXCEPT ![v] = [j \in Job |->
          IF j \in hit
          THEN [rev |-> p[j].rev, keys |-> Keys(p[j]),
                until |-> IF draft THEN DraftExpiry(p[j]) ELSE Forever]
          ELSE @[j]]]
    /\ index' = [index EXCEPT ![v] = [j \in Job |->
          IF j \in hit THEN (IF p[j].exp > now THEN p[j].exp ELSE 0) ELSE @[j]]]
    /\ fset' = [fset EXCEPT ![v] = [f \in Family |->
          into(f) \cup {j \in @[f] : j \in hit => f \notin Old(v, j, draft).keys}]]
    /\ until' = [until EXCEPT ![v] = [f \in Family |->
          IF fset'[v][f] = {} \/ (into(f) # {} /\ ~draft) THEN Forever
          ELSE Extended(@[f], {p[j].exp : j \in into(f)})]]
    /\ IF draft THEN UNCHANGED <<idx, active, gen>>
       ELSE /\ idx' = [j \in Job |-> IF j \in hit THEN Keys(p[j]) ELSE idx[j]]
            /\ active' = IF hit = {} THEN active ELSE v
            /\ gen' = IF hit = {} THEN gen ELSE ~gen

\* The script refuses another version than the active one.
ApplyActive(w) ==
    /\ pc[w] = "versioned" /\ ver[w] = active
    /\ ApplyScript(ver[w], plan[w], FALSE)
    /\ UNCHANGED <<made, kept>>

\* Expire does not mark what it has removed.
Apply(w) ==
    /\ ApplyActive(w)
    /\ IF op[w] = "expire" THEN Resume(w, "ready")
                           ELSE Go(w, "applied") /\ UNCHANGED <<plan, ver, from, at>>
    /\ UNCHANGED <<now, catalog, op>>

\* The script ran and its answer is lost: only a run tries again.
ApplyUnanswered(w) ==
    /\ ApplyActive(w) /\ op[w] = "collect"
    /\ Go(w, "committed")
    /\ UNCHANGED <<now, catalog, op, plan, ver, from, at>>
-----------------------------------------------------------------------------
\* Compare: does namespace v show exactly the active rows of the catalog?

Matches(v, j) ==
    /\ member[v][j].rev = row[j].rev /\ member[v][j].keys = row[j].fam
    /\ index[v][j] = row[j].exp
    /\ \A f \in row[j].fam : j \in fset[v][f]

Synced(v) ==
    /\ \A j \in Job : Alive(j) => Matches(v, j)
    /\ \A j \in Job : index[v][j] # 0 => Alive(j)
    /\ \A f \in Family : \A j \in fset[v][f] : Alive(j) /\ f \in row[j].fam

StartRebuild(w) ==
    /\ pc[w] = "ready" /\ op[w] = "rebuild"
    /\ \E v \in Version \ made :
          /\ made' = made \cup {v}
          /\ ver' = [ver EXCEPT ![w] = v]
    /\ from' = [from EXCEPT ![w] = active]
    /\ at' = [at EXCEPT ![w] = now]
    /\ Go(w, "drafting")
    /\ UNCHANGED <<now, catalog, active, gen, kept, entries, op, plan>>

\* One row at a time, whatever the size of the batches.
Draft(w) ==
    /\ pc[w] = "drafting"
    /\ \E j \in Job \ DOMAIN plan[w] :
          /\ AliveAt(j, at[w])
          /\ Carry(w, [k \in DOMAIN plan[w] \cup {j} |-> Carried(k)])
          /\ ApplyScript(ver[w], [k \in {j} |-> Carried(k)], TRUE)
    /\ UNCHANGED <<now, catalog, made, kept, op, pc, ver, from, at>>

\* A rebuild that publishes what it has, unchecked.
ValidateNothing(w) ==
    /\ pc[w] = "drafting"
    /\ Go(w, "valid")
    /\ UNCHANGED <<now, catalog, projection, op, plan, ver, from, at>>

Validate(w) ==
    /\ pc[w] = "drafting"
    /\ \A j \in Job : AliveAt(j, at[w]) => j \in DOMAIN plan[w]
    /\ Synced(ver[w])
    /\ Go(w, "valid")
    /\ UNCHANGED <<now, catalog, projection, op, plan, ver, from, at>>

\* Rollback: any namespace with a manifest that matches the catalog.
StartRollback(w) ==
    /\ pc[w] = "ready" /\ op[w] = "rollback"
    /\ \E v \in made :
          /\ Synced(v)
          /\ ver' = [ver EXCEPT ![w] = v]
    /\ from' = [from EXCEPT ![w] = active]
    /\ Go(w, "valid")
    /\ UNCHANGED <<now, catalog, projection, op, plan, at>>

\* Only a rebuild has revisions to record.
Published(w) ==
    IF op[w] = "rebuild" THEN Go(w, "published") /\ UNCHANGED <<plan, ver, from, at>>
                         ELSE Resume(w, "ready")

\* A publication that leaves the cached searches in place.
PublishSilently(w) ==
    /\ pc[w] = "valid" /\ active = from[w]
    /\ active' = ver[w]
    /\ kept' = kept \cup {ver[w]}
    /\ Published(w)
    /\ UNCHANGED <<now, catalog, gen, made, entries, op>>

Publish(w) ==
    /\ pc[w] = "valid" /\ active = from[w]
    /\ active' = ver[w] /\ gen' = ~gen
    /\ kept' = kept \cup {ver[w]}
    /\ Published(w)
    /\ UNCHANGED <<now, catalog, made, entries, op>>

\* The rows active at the same instant are read again and marked.
MarkPublished(w) ==
    /\ pc[w] = "published"
    /\ MarkIndexed(w, DOMAIN plan[w])
    /\ Resume(w, "ready")
    /\ UNCHANGED <<now, seq, projection, op>>
-----------------------------------------------------------------------------
\* Valkey drops what has expired.  A draft's index lives as long as the job of
\* it that lives longest; its manifest is never seen to expire.
Tick ==
    /\ now < MaxTime
    /\ now' = now + 1
    /\ member' = [v \in Namespace |-> [j \in Job |->
          IF member[v][j].until \in 0..(now + 1) THEN NoMember ELSE member[v][j]]]
    /\ fset' = [v \in Namespace |-> [f \in Family |->
          IF until[v][f] \in 0..(now + 1) THEN {} ELSE fset[v][f]]]
    /\ until' = [v \in Namespace |-> [f \in Family |->
          IF until[v][f] \in 0..(now + 1) THEN Forever ELSE until[v][f]]]
    /\ index' = [v \in Namespace |->
          IF v \notin kept /\ \A j \in Job : index[v][j] <= now + 1
          THEN [j \in Job |-> 0] ELSE index[v]]
    /\ UNCHANGED <<catalog, active, gen, made, kept, idx, local>>

Step(w) ==
    \/ \E o \in SharedOp \cup ExclusiveOp : Begin(w, o)
    \/ End(w)
    \/ Save(w) \/ Deactivate(w) \/ ReadExpired(w) \/ ReadActive(w) \/ Reclassify(w)
    \/ ReadVersion(w) \/ Apply(w) \/ ApplyUnanswered(w) \/ Mark(w)
    \/ StartRebuild(w) \/ Draft(w) \/ Validate(w) \/ StartRollback(w)
    \/ Publish(w) \/ MarkPublished(w)

Next == (\E w \in Worker : Step(w)) \/ Tick

Spec == Init /\ [][Next]_vars
-----------------------------------------------------------------------------
\* The revision of job j that a search of the active namespace shows, if any:
\* its score has not passed and its document has not expired.
Shown(j) == IF index[active][j] > now THEN member[active][j].rev ELSE 0

\* What Processor.Build demands of a job, kept all the way to Valkey: nothing
\* is projected, in any namespace, that PostgreSQL has not committed, and what
\* is projected at a row's revision is what that row says.
OnlyCommitted ==
    \A v \in Namespace, j \in Job :
        LET m == member[v][j] IN
        /\ m.rev <= row[j].rev
        /\ m.rev = row[j].rev /\ m.keys # {} =>
              m.keys = row[j].fam /\ index[v][j] = row[j].exp

\* indexed_revision does not lie.  A row it confirms is, if active, exactly
\* what searches show and find under its family, and otherwise is not shown:
\* through late and repeated writes, rebuilds, rollbacks and crashes.
ConfirmedIsShown ==
    \A j \in Job : Exists(j) /\ row[j].indexed = row[j].rev =>
        IF Alive(j) THEN Matches(active, j) ELSE Shown(j) = 0

\* A reclassification writes over the very payload it read, so a collection
\* never loses what it committed.
ReclassifiesCurrent ==
    \A w \in Worker : pc[w] = "read" =>
        \A j \in DOMAIN plan[w] : plan[w][j].rev = row[j].rev

\* A job that searches show never goes back to an older revision, not even
\* across the publication of another namespace.
SearchNeverGoesBack ==
    [][\A j \in Job : Shown(j)' > 0 => Shown(j)' >= Shown(j)]_vars

\* No publication loses an active row that the namespace before it showed.
PublishLosesNothing ==
    [][active' # active =>
          \A j \in Job : Alive(j) => Shown(j)' >= Shown(j)]_vars

\* Cached pages are dropped: whatever a write changes of what searches show
\* or find, the generation changes in the same step.
Seen(j) == <<Shown(j), {f \in Family : j \in fset[active][f]}>>

ChangesAreAnnounced ==
    [][now' = now /\ (\E j \in Job : Seen(j)' # Seen(j)) => gen' # gen]_vars

\* What SCRAPER.md says of the family SETs: maintenance removes the entries of
\* inactive rows.  An ID that index has lost stays in a SET when the entry
\* that listed its keys was a draft's and expired with the job.
RemovedEverywhere ==
    \A f \in Family : \A j \in fset[active][f] : index[active][j] # 0
=============================================================================
